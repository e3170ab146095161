------------------------ MODULE EmployeeStoreProofs ------------------------
(***************************************************************************)
(* Proofs about EmployeeStore, for any number of children, any capacity of *)
(* the array and any number of requests: type correctness, the mutual      *)
(* exclusion the semaphore gives, what a removal leaves behind, that no    *)
(* record is lost or made up while the server accepts clients, and that    *)
(* the store implements EmployeeDB.                                        *)
(***************************************************************************)
EXTENDS EmployeeStore, SequenceTheorems, FiniteSetTheorems, WellFoundedInduction, TLAPS

(* What a child's place in handle_client says about the request it serves  *)
(* and about its loop index.                                               *)
RequestFits ==
    \A c \in Child :
        /\ pc[c] \in {"wait", "read", "write", "scan", "copy", "post", "close", "send"}
              => req[c] \in Request
        /\ pc[c] = "wait" => i[c] = 0 /\ ~seen[c]
        /\ pc[c] = "read" => req[c].kind \in {"A", "D"}
        /\ pc[c] = "write" => req[c].kind = "A"
        /\ pc[c] = "copy" => req[c].kind = "D"
        /\ pc[c] \in {"scan", "close"} => req[c].kind = "R"

Inv == TypeOK /\ RequestFits /\ MutualExclusion

(* The removal loop's own invariant: the records before its index hold the *)
(* id at most once, and first_seen knows whether they hold it.             *)
ScannedPrefix ==
    \A c \in Child : pc[c] = "scan" =>
        /\ \A j, k \in 0..(i[c] - 1) :
              HasId(j, req[c].id) /\ HasId(k, req[c].id) => j = k
        /\ \A j \in 0..(i[c] - 1) : HasId(j, req[c].id) => seen[c]

-----------------------------------------------------------------------------

LEMMA InitInv == Init => Inv
<1> SUFFICES ASSUME Init PROVE Inv
  OBVIOUS
<1>1. TypeOK
  <2>1. \A s \in 0..2 : Initial[s + 1] \in Row
    BY DEF Initial, Row, Alice, Bob, Charlie
  <2>2. Blank \in Row
    BY DEF Blank, Row
  <2>3. db \in [Slot -> Row]
    <3>1. ASSUME NEW s \in Slot
          PROVE  (IF s < 3 THEN Initial[s + 1] ELSE Blank) \in Row
      <4>1. CASE s < 3
        <5>1. s \in 0..2
          BY <4>1, MaxEmpAssumption DEF Slot
        <5> QED
          BY <5>1, <2>1, <4>1
      <4>2. CASE ~(s < 3)
        BY <4>2, <2>2
      <4> QED
        BY <4>1, <4>2
    <3> QED
      BY <3>1 DEF Init
  <2>4. /\ pc \in [Child -> Place] /\ req \in [Child -> Request \cup {NoRequest}]
        /\ seen \in [Child -> BOOLEAN] /\ removed \in [Child -> Nat]
        /\ open \in [Child -> BOOLEAN] /\ alive \in [Child -> BOOLEAN]
    BY DEF Init, Place
  <2>5. /\ temp \in [Child -> Seq(Row)] /\ buf \in [Child -> Seq(Row)]
        /\ inbox \in [Child -> Seq(Request)]
        /\ dupFile \in Seq(Row) /\ stored \in Seq(Row)
    BY DEF Init
  <2>6. /\ count \in 0..MaxEmp /\ lock \in {0, 1} /\ sent \in 0..MaxRequests
        /\ n \in [Child -> 0..MaxEmp] /\ i \in [Child -> 0..MaxEmp]
        /\ serving \in BOOLEAN
    BY MaxEmpAssumption, MaxRequestsAssumption DEF Init
  <2> QED
    BY <2>3, <2>4, <2>5, <2>6 DEF TypeOK, MemoryTypeOK, LocalsTypeOK, OutsideTypeOK
<1>2. RequestFits
  BY DEF Init, RequestFits
<1>3. MutualExclusion
  BY DEF Init, MutualExclusion, Critical
<1> QED
  BY <1>1, <1>2, <1>3 DEF Inv

LEMMA TypeNext == ASSUME Inv, [Next]_vars PROVE TypeOK'
<1> USE DEF Inv, TypeOK
<1>1. ASSUME NEW c \in Child, NEW r \in Request, SendRequest(c, r) PROVE TypeOK'
  <2>1. Append(inbox[c], r) \in Seq(Request)
    BY DEF OutsideTypeOK
  <2>2. sent + 1 \in 0..MaxRequests
    BY <1>1, MaxRequestsAssumption DEF SendRequest, OutsideTypeOK
  <2>3. OutsideTypeOK'
    BY <1>1, <2>1, <2>2 DEF SendRequest, OutsideTypeOK, wire, life
  <2> QED
    BY <1>1, <2>3 DEF SendRequest, MemoryTypeOK, memory, LocalsTypeOK, locals
<1>2. ASSUME NEW c \in Child, HangUp(c) PROVE TypeOK'
  <2>1. OutsideTypeOK'
    BY <1>2 DEF HangUp, OutsideTypeOK, wire, life
  <2> QED
    BY <1>2, <2>1 DEF HangUp, MemoryTypeOK, memory, LocalsTypeOK, locals
<1>3. ASSUME NEW c \in Child, Recv(c) PROVE TypeOK'
  <2>1. inbox[c] \in Seq(Request) /\ inbox[c] # <<>>
    BY <1>3 DEF Recv, OutsideTypeOK
  <2>2. Head(inbox[c]) \in Request
    BY <2>1
  <2>3. \A k \in 1..Len(inbox[c]) : SubSeq(inbox[c], k + 1, Len(inbox[c])) \in Seq(Request)
    BY <2>1
  <2>4. (pc \in [Child -> Place])'
    BY <1>3 DEF Recv, Goto, Place, Critical
  <2>5. LocalsTypeOK'
    BY <1>3, <2>1, <2>2, <2>3, MaxEmpAssumption DEF Recv, LocalsTypeOK
  <2>6. OutsideTypeOK'
    BY <1>3, <2>1, <2>2, <2>3 DEF Recv, OutsideTypeOK, wire, life
  <2> QED
    BY <1>3, <2>4, <2>5, <2>6 DEF Recv, MemoryTypeOK, memory
<1>4. ASSUME NEW c \in Child, Disconnected(c) PROVE TypeOK'
  <2>1. (pc \in [Child -> Place])'
    BY <1>4 DEF Disconnected, Goto, Place, Critical
  <2> QED
    BY <1>4, <2>1 DEF Disconnected, MemoryTypeOK, memory, LocalsTypeOK, locals, OutsideTypeOK, wire, life
<1>5. ASSUME NEW c \in Child, Wait(c) PROVE TypeOK'
  <2>1. MemoryTypeOK'
    BY <1>5 DEF Wait, MemoryTypeOK
  <2>2. (pc \in [Child -> Place])'
    BY <1>5 DEF Wait, Goto, Place, Critical
  <2> QED
    BY <1>5, <2>1, <2>2 DEF Wait, LocalsTypeOK, locals, OutsideTypeOK, wire, life
<1>6. ASSUME NEW c \in Child, ReadCount(c) PROVE TypeOK'
  <2>1. (pc \in [Child -> Place])'
    BY <1>6 DEF ReadCount, Goto, Place, Critical
  <2>2. LocalsTypeOK'
    BY <1>6 DEF ReadCount, LocalsTypeOK, MemoryTypeOK
  <2> QED
    BY <1>6, <2>1, <2>2 DEF ReadCount, MemoryTypeOK, memory, OutsideTypeOK, wire, life
<1>7. ASSUME NEW c \in Child, Store(c) PROVE TypeOK'
  <2>1. req[c].emp \in Row
    BY <1>7, EmployeeAssumption DEF Store, At, RequestFits, Request, Row
  <2>2. n[c] \in Slot /\ n[c] + 1 \in 0..MaxEmp
    BY <1>7, MaxEmpAssumption DEF Store, LocalsTypeOK, Slot
  <2>3. Append(stored, req[c].emp) \in Seq(Row)
    BY <2>1 DEF OutsideTypeOK
  <2>4. MemoryTypeOK'
    BY <1>7, <2>1, <2>2, <2>3 DEF Store, MemoryTypeOK
  <2>5. (pc \in [Child -> Place])'
    BY <1>7 DEF Store, Goto, Place, Critical
  <2>6. OutsideTypeOK'
    BY <1>7, <2>1, <2>2, <2>3 DEF Store, OutsideTypeOK, wire, life
  <2> QED
    BY <1>7, <2>4, <2>5, <2>6 DEF Store, LocalsTypeOK, locals
<1>8. ASSUME NEW c \in Child, ScanOther(c) PROVE TypeOK'
  <2>1. i[c] + 1 \in 0..MaxEmp
    BY <1>8, MaxEmpAssumption DEF ScanOther, LocalsTypeOK, MemoryTypeOK
  <2>2. LocalsTypeOK'
    BY <1>8, <2>1 DEF ScanOther, LocalsTypeOK
  <2> QED
    BY <1>8, <2>2 DEF ScanOther, MemoryTypeOK, memory, OutsideTypeOK, wire, life
<1>9. ASSUME NEW c \in Child, ScanFirst(c) PROVE TypeOK'
  <2>1. i[c] + 1 \in 0..MaxEmp
    BY <1>9, MaxEmpAssumption DEF ScanFirst, LocalsTypeOK, MemoryTypeOK
  <2>2. LocalsTypeOK'
    BY <1>9, <2>1 DEF ScanFirst, LocalsTypeOK
  <2> QED
    BY <1>9, <2>2 DEF ScanFirst, MemoryTypeOK, memory, OutsideTypeOK, wire, life
<1>10. ASSUME NEW c \in Child, ScanDuplicate(c) PROVE TypeOK'
  <2>1. i[c] \in Slot /\ count - 1 \in 0..MaxEmp
    BY <1>10, MaxEmpAssumption DEF ScanDuplicate, LocalsTypeOK, MemoryTypeOK, Slot
  <2>2. \A s \in Slot : s < count - 1 => s + 1 \in Slot
    BY MaxEmpAssumption DEF MemoryTypeOK, Slot
  <2>3. ShiftedLeft(i[c]) \in [Slot -> Row]
    BY <2>2 DEF ShiftedLeft, MemoryTypeOK
  <2>4. Append(buf[c], db[i[c]]) \in Seq(Row)
    BY <2>1 DEF MemoryTypeOK, LocalsTypeOK
  <2>5. MemoryTypeOK'
    BY <1>10, <2>1, <2>2, <2>3, <2>4 DEF ScanDuplicate, MemoryTypeOK
  <2>6. LocalsTypeOK'
    BY <1>10, <2>1, <2>2, <2>3, <2>4 DEF ScanDuplicate, LocalsTypeOK
  <2> QED
    BY <1>10, <2>5, <2>6 DEF ScanDuplicate, OutsideTypeOK, wire, life
<1>11. ASSUME NEW c \in Child, ScanEnd(c) PROVE TypeOK'
  <2>1. (pc \in [Child -> Place])'
    BY <1>11 DEF ScanEnd, Goto, Place, Critical
  <2> QED
    BY <1>11, <2>1 DEF ScanEnd, MemoryTypeOK, memory, LocalsTypeOK, locals, OutsideTypeOK, wire, life
<1>12. ASSUME NEW c \in Child, CopyNext(c) PROVE TypeOK'
  <2>1. i[c] \in Slot /\ i[c] + 1 \in 0..MaxEmp
    BY <1>12, MaxEmpAssumption DEF CopyNext, LocalsTypeOK, Slot
  <2>2. Append(temp[c], db[i[c]]) \in Seq(Row)
    BY <2>1 DEF MemoryTypeOK, LocalsTypeOK
  <2>3. LocalsTypeOK'
    BY <1>12, <2>1, <2>2 DEF CopyNext, LocalsTypeOK
  <2> QED
    BY <1>12, <2>3 DEF CopyNext, MemoryTypeOK, memory, OutsideTypeOK, wire, life
<1>13. ASSUME NEW c \in Child, CopyEnd(c) PROVE TypeOK'
  <2>1. (pc \in [Child -> Place])'
    BY <1>13 DEF CopyEnd, Goto, Place, Critical
  <2> QED
    BY <1>13, <2>1 DEF CopyEnd, MemoryTypeOK, memory, LocalsTypeOK, locals, OutsideTypeOK, wire, life
<1>14. ASSUME NEW c \in Child, Post(c) PROVE TypeOK'
  <2>1. lock = 0
    BY <1>14 DEF Post, At, MutualExclusion, Critical
  <2>2. MemoryTypeOK'
    BY <1>14, <2>1 DEF Post, MemoryTypeOK
  <2>3. (pc \in [Child -> Place])'
    BY <1>14 DEF Post, Goto, Place, Critical
  <2> QED
    BY <1>14, <2>2, <2>3 DEF Post, LocalsTypeOK, locals, OutsideTypeOK, wire, life
<1>15. ASSUME NEW c \in Child, CloseFile(c) PROVE TypeOK'
  <2>1. dupFile \o buf[c] \in Seq(Row)
    BY DEF OutsideTypeOK, LocalsTypeOK
  <2>2. (pc \in [Child -> Place])'
    BY <1>15 DEF CloseFile, Goto, Place, Critical
  <2>3. LocalsTypeOK'
    BY <1>15, <2>1 DEF CloseFile, LocalsTypeOK
  <2>4. OutsideTypeOK'
    BY <1>15, <2>1 DEF CloseFile, OutsideTypeOK, wire, life
  <2> QED
    BY <1>15, <2>2, <2>3, <2>4 DEF CloseFile, MemoryTypeOK, memory
<1>16. ASSUME NEW c \in Child, Send(c) PROVE TypeOK'
  <2>1. (pc \in [Child -> Place])'
    BY <1>16 DEF Send, Goto, Place, Critical
  <2> QED
    BY <1>16, <2>1 DEF Send, MemoryTypeOK, memory, LocalsTypeOK, locals, OutsideTypeOK, wire, life
<1>17. ASSUME ThirdClient PROVE TypeOK'
  <2>1. OutsideTypeOK'
    BY <1>17 DEF ThirdClient, OutsideTypeOK, wire, life
  <2> QED
    BY <1>17, <2>1 DEF ThirdClient, MemoryTypeOK, memory, LocalsTypeOK, locals
<1>18. ASSUME NEW c \in Child, Kill(c) PROVE TypeOK'
  <2>1. OutsideTypeOK'
    BY <1>18 DEF Kill, OutsideTypeOK, wire, life
  <2> QED
    BY <1>18, <2>1 DEF Kill, MemoryTypeOK, memory, LocalsTypeOK, locals
<1>19. CASE UNCHANGED vars
  BY <1>19 DEF vars, memory, locals, wire, life, MemoryTypeOK, LocalsTypeOK, OutsideTypeOK
<1> QED
  BY <1>1, <1>2, <1>3, <1>4, <1>5, <1>6, <1>7, <1>8, <1>9, <1>10, <1>11,
     <1>12, <1>13, <1>14, <1>15, <1>16, <1>17, <1>18, <1>19 DEF Next, Handle

LEMMA RequestNext == ASSUME Inv, [Next]_vars PROVE RequestFits'
<1> USE DEF Inv, TypeOK, LocalsTypeOK, OutsideTypeOK, RequestFits
<1>1. ASSUME NEW c \in Child, NEW r \in Request, SendRequest(c, r) PROVE RequestFits'
  BY <1>1 DEF SendRequest, locals
<1>2. ASSUME NEW c \in Child, HangUp(c) PROVE RequestFits'
  BY <1>2 DEF HangUp, locals
<1>3. ASSUME NEW c \in Child, Recv(c) PROVE RequestFits'
  BY <1>3 DEF Recv, At, Goto, Request
<1>4. ASSUME NEW c \in Child, Disconnected(c) PROVE RequestFits'
  BY <1>4 DEF Disconnected, At, Goto, locals
<1>5. ASSUME NEW c \in Child, Wait(c) PROVE RequestFits'
  BY <1>5 DEF Wait, At, Goto, locals, Request
<1>6. ASSUME NEW c \in Child, ReadCount(c) PROVE RequestFits'
  BY <1>6 DEF ReadCount, At, Goto
<1>7. ASSUME NEW c \in Child, Store(c) PROVE RequestFits'
  BY <1>7 DEF Store, At, Goto, locals
<1>8. ASSUME NEW c \in Child, ScanOther(c) PROVE RequestFits'
  BY <1>8 DEF ScanOther, At
<1>9. ASSUME NEW c \in Child, ScanFirst(c) PROVE RequestFits'
  BY <1>9 DEF ScanFirst, At
<1>10. ASSUME NEW c \in Child, ScanDuplicate(c) PROVE RequestFits'
  BY <1>10 DEF ScanDuplicate, At
<1>11. ASSUME NEW c \in Child, ScanEnd(c) PROVE RequestFits'
  BY <1>11 DEF ScanEnd, At, Goto, locals
<1>12. ASSUME NEW c \in Child, CopyNext(c) PROVE RequestFits'
  BY <1>12 DEF CopyNext, At
<1>13. ASSUME NEW c \in Child, CopyEnd(c) PROVE RequestFits'
  BY <1>13 DEF CopyEnd, At, Goto, locals
<1>14. ASSUME NEW c \in Child, Post(c) PROVE RequestFits'
  BY <1>14 DEF Post, At, Goto, locals
<1>15. ASSUME NEW c \in Child, CloseFile(c) PROVE RequestFits'
  BY <1>15 DEF CloseFile, At, Goto
<1>16. ASSUME NEW c \in Child, Send(c) PROVE RequestFits'
  BY <1>16 DEF Send, At, Goto, locals
<1>17. ASSUME ThirdClient PROVE RequestFits'
  BY <1>17 DEF ThirdClient, locals
<1>18. ASSUME NEW c \in Child, Kill(c) PROVE RequestFits'
  BY <1>18 DEF Kill, locals
<1>19. CASE UNCHANGED vars
  BY <1>19 DEF vars, locals
<1> QED
  BY <1>1, <1>2, <1>3, <1>4, <1>5, <1>6, <1>7, <1>8, <1>9, <1>10, <1>11,
     <1>12, <1>13, <1>14, <1>15, <1>16, <1>17, <1>18, <1>19 DEF Next, Handle

LEMMA MutexNext == ASSUME Inv, [Next]_vars PROVE MutualExclusion'
<1> USE DEF Inv, TypeOK, MemoryTypeOK, MutualExclusion
<1>1. ASSUME NEW c \in Child, NEW r \in Request, SendRequest(c, r) PROVE MutualExclusion'
  BY <1>1 DEF SendRequest, memory
<1>2. ASSUME NEW c \in Child, HangUp(c) PROVE MutualExclusion'
  BY <1>2 DEF HangUp, memory
<1>3. ASSUME NEW c \in Child, Recv(c) PROVE MutualExclusion'
  BY <1>3 DEF Recv, At, Goto, Critical, memory
<1>4. ASSUME NEW c \in Child, Disconnected(c) PROVE MutualExclusion'
  BY <1>4 DEF Disconnected, At, Goto, Critical, memory
<1>5. ASSUME NEW c \in Child, Wait(c) PROVE MutualExclusion'
  BY <1>5 DEF Wait, At, Goto, Critical
<1>6. ASSUME NEW c \in Child, ReadCount(c) PROVE MutualExclusion'
  BY <1>6 DEF ReadCount, At, Goto, Critical, memory
<1>7. ASSUME NEW c \in Child, Store(c) PROVE MutualExclusion'
  BY <1>7 DEF Store, At, Goto, Critical
<1>8. ASSUME NEW c \in Child, ScanOther(c) PROVE MutualExclusion'
  BY <1>8 DEF ScanOther, memory
<1>9. ASSUME NEW c \in Child, ScanFirst(c) PROVE MutualExclusion'
  BY <1>9 DEF ScanFirst, memory
<1>10. ASSUME NEW c \in Child, ScanDuplicate(c) PROVE MutualExclusion'
  BY <1>10 DEF ScanDuplicate
<1>11. ASSUME NEW c \in Child, ScanEnd(c) PROVE MutualExclusion'
  BY <1>11 DEF ScanEnd, At, Goto, Critical, memory
<1>12. ASSUME NEW c \in Child, CopyNext(c) PROVE MutualExclusion'
  BY <1>12 DEF CopyNext, memory
<1>13. ASSUME NEW c \in Child, CopyEnd(c) PROVE MutualExclusion'
  BY <1>13 DEF CopyEnd, At, Goto, Critical, memory
<1>14. ASSUME NEW c \in Child, Post(c) PROVE MutualExclusion'
  BY <1>14 DEF Post, At, Goto, Critical
<1>15. ASSUME NEW c \in Child, CloseFile(c) PROVE MutualExclusion'
  BY <1>15 DEF CloseFile, At, Goto, Critical, memory
<1>16. ASSUME NEW c \in Child, Send(c) PROVE MutualExclusion'
  BY <1>16 DEF Send, At, Goto, Critical, memory
<1>17. ASSUME ThirdClient PROVE MutualExclusion'
  BY <1>17 DEF ThirdClient, memory
<1>18. ASSUME NEW c \in Child, Kill(c) PROVE MutualExclusion'
  BY <1>18 DEF Kill, memory
<1>19. CASE UNCHANGED vars
  BY <1>19 DEF vars, memory
<1> QED
  BY <1>1, <1>2, <1>3, <1>4, <1>5, <1>6, <1>7, <1>8, <1>9, <1>10, <1>11,
     <1>12, <1>13, <1>14, <1>15, <1>16, <1>17, <1>18, <1>19 DEF Next, Handle

(* The state of the store stays within its types. *)
THEOREM TypeCorrect == Spec => []TypeOK
<1>1. Init => Inv
  BY InitInv
<1>2. Inv /\ [Next]_vars => Inv'
  BY TypeNext, RequestNext, MutexNext DEF Inv
<1>3. Inv => TypeOK
  BY DEF Inv
<1> QED
  BY <1>1, <1>2, <1>3, PTL DEF Spec

(* At most one child is between sem_wait and sem_post, and the semaphore   *)
(* counts it.                                                              *)
THEOREM MutuallyExclusive == Spec => []MutualExclusion
<1>1. Init => Inv
  BY InitInv
<1>2. Inv /\ [Next]_vars => Inv'
  BY TypeNext, RequestNext, MutexNext DEF Inv
<1>3. Inv => MutualExclusion
  BY DEF Inv
<1> QED
  BY <1>1, <1>2, <1>3, PTL DEF Spec

-----------------------------------------------------------------------------
RemovalInv == Inv /\ ScannedPrefix /\ RemovalLeavesOne

(* A step that leaves the array, the requests and the loop variables alone *)
(* and brings no child to the loop or to its end keeps both.               *)
LEMMA RemovalFrame ==
    ASSUME RemovalInv,
           UNCHANGED <<db, count, req>>,
           \A d \in Child :
              /\ pc'[d] = "scan" => pc[d] = "scan" /\ i'[d] = i[d] /\ seen'[d] = seen[d]
              /\ pc'[d] = "post" => pc[d] = "post" \/ req[d].kind # "R"
    PROVE  ScannedPrefix' /\ RemovalLeavesOne'
BY DEF RemovalInv, ScannedPrefix, RemovalLeavesOne, HasId

LEMMA RemovalNext ==
    ASSUME RemovalInv, [Next]_vars PROVE ScannedPrefix' /\ RemovalLeavesOne'
<1> USE DEF RemovalInv, Inv
<1> DEFINE Goal == ScannedPrefix' /\ RemovalLeavesOne'
<1>1. ASSUME NEW c \in Child, NEW r \in Request, SendRequest(c, r) PROVE Goal
  BY <1>1, RemovalFrame DEF SendRequest, memory, locals, TypeOK
<1>2. ASSUME NEW c \in Child, HangUp(c) PROVE Goal
  BY <1>2, RemovalFrame DEF HangUp, memory, locals, TypeOK
<1>3. ASSUME NEW c \in Child, Recv(c) PROVE Goal
  <2>1. UNCHANGED <<db, count>>
    BY <1>3 DEF Recv, memory
  <2>2. ASSUME NEW d \in Child, pc'[d] \in {"scan", "post"}
        PROVE  pc'[d] = pc[d] /\ req'[d] = req[d] /\ i'[d] = i[d] /\ seen'[d] = seen[d]
    BY <1>3, <2>2 DEF Recv, Goto, TypeOK, LocalsTypeOK
  <2> QED
    BY <2>1, <2>2 DEF ScannedPrefix, RemovalLeavesOne, HasId
<1>4. ASSUME NEW c \in Child, Disconnected(c) PROVE Goal
  BY <1>4, RemovalFrame DEF Disconnected, At, Goto, memory, locals, TypeOK
<1>5. ASSUME NEW c \in Child, Wait(c) PROVE Goal
  BY <1>5 DEF Wait, At, Goto, memory, locals, TypeOK, MemoryTypeOK,
     LocalsTypeOK, RequestFits, MutualExclusion, Critical, ScannedPrefix,
     RemovalLeavesOne, HasId
<1>6. ASSUME NEW c \in Child, ReadCount(c) PROVE Goal
  BY <1>6, RemovalFrame DEF ReadCount, At, Goto, memory, locals, TypeOK
<1>7. ASSUME NEW c \in Child, Store(c) PROVE Goal
  BY <1>7 DEF Store, At, Goto, memory, locals, TypeOK, MemoryTypeOK,
     LocalsTypeOK, RequestFits, MutualExclusion, Critical, ScannedPrefix,
     RemovalLeavesOne, HasId
<1>8. ASSUME NEW c \in Child, ScanOther(c) PROVE Goal
  <2>1. /\ pc[c] = "scan" /\ i[c] \in Nat /\ i'[c] = i[c] + 1
        /\ UNCHANGED <<db, count, pc, req, seen>>
        /\ ~HasId(i[c], req[c].id)
    BY <1>8 DEF ScanOther, At, memory, TypeOK, LocalsTypeOK, IsTarget, HasId
  <2>2. \A d \in Child : pc[d] \in {"scan", "post"} => d = c
    BY <2>1 DEF MutualExclusion, Critical
  <2>3. \A j \in 0..(i'[c] - 1) : j \in 0..(i[c] - 1) \/ j = i[c]
    BY <2>1
  <2>4. ScannedPrefix'
    BY <2>1, <2>2, <2>3 DEF ScannedPrefix, HasId
  <2>5. RemovalLeavesOne'
    BY <2>1, <2>2 DEF RemovalLeavesOne
  <2> QED
    BY <2>4, <2>5
<1>9. ASSUME NEW c \in Child, ScanFirst(c) PROVE Goal
  BY <1>9 DEF ScanFirst, At, Goto, memory, locals, TypeOK, MemoryTypeOK,
     LocalsTypeOK, RequestFits, MutualExclusion, Critical, ScannedPrefix,
     RemovalLeavesOne, HasId
<1>10. ASSUME NEW c \in Child, ScanDuplicate(c) PROVE Goal
  <2>1. /\ pc[c] = "scan" /\ i[c] \in 0..MaxEmp
        /\ UNCHANGED <<pc, req, i, seen>>
        /\ db' = ShiftedLeft(i[c])
    BY <1>10 DEF ScanDuplicate, At, TypeOK, LocalsTypeOK
  <2>2. \A d \in Child : pc[d] \in {"scan", "post"} => d = c
    BY <2>1 DEF MutualExclusion, Critical
  <2>3. \A j \in 0..(i[c] - 1) : db'[j] = db[j]
    BY <2>1, MaxEmpAssumption DEF ShiftedLeft, Slot
  <2>4. ScannedPrefix'
    BY <2>1, <2>2, <2>3 DEF ScannedPrefix, HasId
  <2>5. RemovalLeavesOne'
    BY <2>1, <2>2 DEF RemovalLeavesOne
  <2> QED
    BY <2>4, <2>5
<1>11. ASSUME NEW c \in Child, ScanEnd(c) PROVE Goal
  <2>1. /\ pc[c] = "scan" /\ i[c] >= count /\ i[c] \in Nat /\ count \in Nat
        /\ UNCHANGED <<db, count, req, i, seen>>
        /\ pc' = [pc EXCEPT ![c] = "post"]
    BY <1>11, MaxEmpAssumption
       DEF ScanEnd, At, Goto, memory, locals, TypeOK, LocalsTypeOK, MemoryTypeOK
  <2>2. \A d \in Child : pc'[d] \in {"scan", "post"} => d = c
    BY <2>1 DEF MutualExclusion, Critical, TypeOK
  <2>3. pc'[c] = "post"
    BY <2>1 DEF TypeOK
  <2>4. \A j \in 0..(count - 1) : j \in 0..(i[c] - 1)
    BY <2>1
  <2>5. ScannedPrefix'
    BY <2>2, <2>3 DEF ScannedPrefix
  <2>6. RemovalLeavesOne'
    BY <2>1, <2>2, <2>4 DEF ScannedPrefix, RemovalLeavesOne, HasId
  <2> QED
    BY <2>5, <2>6
<1>12. ASSUME NEW c \in Child, CopyNext(c) PROVE Goal
  BY <1>12 DEF CopyNext, At, Goto, memory, locals, TypeOK, MemoryTypeOK,
     LocalsTypeOK, RequestFits, MutualExclusion, Critical, ScannedPrefix,
     RemovalLeavesOne, HasId
<1>13. ASSUME NEW c \in Child, CopyEnd(c) PROVE Goal
  BY <1>13, RemovalFrame DEF CopyEnd, At, Goto, memory, locals, TypeOK,
     RequestFits
<1>14. ASSUME NEW c \in Child, Post(c) PROVE Goal
  BY <1>14, RemovalFrame DEF Post, At, Goto, memory, locals, TypeOK
<1>15. ASSUME NEW c \in Child, CloseFile(c) PROVE Goal
  BY <1>15, RemovalFrame DEF CloseFile, At, Goto, memory, locals, TypeOK
<1>16. ASSUME NEW c \in Child, Send(c) PROVE Goal
  BY <1>16, RemovalFrame DEF Send, At, Goto, memory, locals, TypeOK
<1>17. ASSUME ThirdClient PROVE Goal
  BY <1>17, RemovalFrame DEF ThirdClient, memory, locals, TypeOK
<1>18. ASSUME NEW c \in Child, Kill(c) PROVE Goal
  BY <1>18, RemovalFrame DEF Kill, memory, locals, TypeOK
<1>19. CASE UNCHANGED vars
  BY <1>19, RemovalFrame DEF vars, memory, locals
<1> QED
  BY <1>1, <1>2, <1>3, <1>4, <1>5, <1>6, <1>7, <1>8, <1>9, <1>10, <1>11,
     <1>12, <1>13, <1>14, <1>15, <1>16, <1>17, <1>18, <1>19 DEF Next, Handle

(* A removal that has given the semaphore back has left at most one record *)
(* with the requested id, however many duplicates stood next to each other.*)
THEOREM RemovalCorrect == Spec => []RemovalLeavesOne
<1>1. Init => RemovalInv
  BY InitInv DEF RemovalInv, Init, ScannedPrefix, RemovalLeavesOne
<1>2. RemovalInv /\ [Next]_vars => RemovalInv'
  BY TypeNext, RequestNext, MutexNext, RemovalNext DEF RemovalInv, Inv
<1>3. RemovalInv => RemovalLeavesOne
  BY DEF RemovalInv
<1> QED
  BY <1>1, <1>2, <1>3, PTL DEF Spec

-----------------------------------------------------------------------------
(* Counting the occurrences of a record in a sequence.                     *)
Where(r, s) == {k \in DOMAIN s : s[k] = r}

LEMMA OccurrencesFinite ==
    ASSUME NEW S, NEW s \in Seq(S), NEW r
    PROVE  /\ IsFiniteSet(Where(r, s)) /\ Where(r, s) \subseteq 1..Len(s)
           /\ Occurrences(r, s) = Cardinality(Where(r, s)) /\ Occurrences(r, s) \in Nat
<1>1. DOMAIN s = 1..Len(s) /\ Len(s) \in Nat
  OBVIOUS
<1>2. IsFiniteSet(1..Len(s))
  BY <1>1, FS_Interval
<1>3. Where(r, s) \subseteq 1..Len(s)
  BY <1>1 DEF Where
<1>4. IsFiniteSet(Where(r, s))
  BY <1>2, <1>3, FS_Subset
<1>5. Occurrences(r, s) = Cardinality(Where(r, s))
  BY DEF Occurrences, Where
<1> QED
  BY <1>3, <1>4, <1>5, FS_CardinalityType

LEMMA OccurrencesOfNone == ASSUME NEW r PROVE Occurrences(r, <<>>) = 0
<1>1. {k \in DOMAIN <<>> : <<>>[k] = r} = {}
  OBVIOUS
<1> QED
  BY <1>1, FS_EmptySet DEF Occurrences

LEMMA OccurrencesAppend ==
    ASSUME NEW S, NEW s \in Seq(S), NEW x \in S, NEW r
    PROVE  Occurrences(r, Append(s, x)) = Occurrences(r, s) + (IF x = r THEN 1 ELSE 0)
<1> DEFINE t == Append(s, x)  e == Len(s) + 1
<1>1. /\ t \in Seq(S) /\ DOMAIN t = 1..e /\ DOMAIN s = 1..Len(s) /\ Len(s) \in Nat
      /\ t[e] = x /\ \A k \in 1..Len(s) : t[k] = s[k]
  BY AppendProperties
<1> HIDE DEF t
<1>2. \A k \in 1..e : k \in 1..Len(s) \/ k = e
  BY <1>1
<1>3. e \in 1..e /\ 1..Len(s) \subseteq 1..e /\ e \notin 1..Len(s)
  BY <1>1
<1>4. IsFiniteSet(Where(r, s)) /\ Occurrences(r, s) = Cardinality(Where(r, s))
      /\ e \notin Where(r, s) /\ Occurrences(r, t) = Cardinality(Where(r, t))
      /\ Occurrences(r, s) \in Nat
  BY <1>1, <1>3, OccurrencesFinite
<1> HIDE DEF e
<1>5. CASE x = r
  <2>1. Where(r, t) = Where(r, s) \cup {e}
    BY <1>1, <1>2, <1>3, <1>5 DEF Where
  <2> QED
    BY <1>4, <1>5, <2>1, FS_AddElement DEF t
<1>6. CASE x # r
  <2>1. Where(r, t) = Where(r, s)
    BY <1>1, <1>2, <1>3, <1>6 DEF Where
  <2> QED
    BY <1>4, <1>6, <2>1 DEF t
<1> QED
  BY <1>5, <1>6

(* A set shifted, or sent elsewhere one to one, keeps its size.            *)
LEMMA SameSize ==
    ASSUME NEW A, NEW B, IsFiniteSet(A), NEW f \in [A -> B],
           \A x, y \in A : f[x] = f[y] => x = y,
           \A y \in B : \E x \in A : f[x] = y
    PROVE  IsFiniteSet(B) /\ Cardinality(B) = Cardinality(A)
<1>1. f \in Bijection(A, B)
  BY DEF Bijection, Injection, Surjection, IsInjective
<1>2. ExistsBijection(A, B)
  BY <1>1 DEF ExistsBijection
<1> QED
  BY <1>2, FS_Bijection

LEMMA OccurrencesConcat ==
    ASSUME NEW S, NEW s \in Seq(S), NEW t \in Seq(S), NEW r
    PROVE  Occurrences(r, s \o t) = Occurrences(r, s) + Occurrences(r, t)
<1> DEFINE u == s \o t  A == Where(r, s)  B == Where(r, t)
           C == {k \in (Len(s) + 1)..(Len(s) + Len(t)) : t[k - Len(s)] = r}
<1>1. /\ u \in Seq(S) /\ DOMAIN u = 1..(Len(s) + Len(t))
      /\ DOMAIN s = 1..Len(s) /\ DOMAIN t = 1..Len(t) /\ Len(s) \in Nat /\ Len(t) \in Nat
      /\ \A k \in 1..Len(s) : u[k] = s[k]
      /\ \A k \in (Len(s) + 1)..(Len(s) + Len(t)) : u[k] = t[k - Len(s)]
  OBVIOUS
<1>2. IsFiniteSet(A) /\ IsFiniteSet(B) /\ Occurrences(r, s) = Cardinality(A)
      /\ Occurrences(r, t) = Cardinality(B) /\ Occurrences(r, u) = Cardinality(Where(r, u))
      /\ Occurrences(r, s) \in Nat /\ Occurrences(r, t) \in Nat
  BY <1>1, OccurrencesFinite
<1> HIDE DEF u
<1>3. Where(r, u) = A \cup C
  BY <1>1 DEF Where
<1>4. A \cap C = {}
  BY <1>1 DEF Where
<1>5. IsFiniteSet(C) /\ Cardinality(C) = Cardinality(B)
  <2> DEFINE f == [k \in B |-> k + Len(s)]
  <2>1. f \in [B -> C]
    BY <1>1 DEF Where
  <2>2. \A x, y \in B : f[x] = f[y] => x = y
    BY <1>1 DEF Where
  <2>3. ASSUME NEW y \in C PROVE \E x \in B : f[x] = y
    <3>1. y - Len(s) \in B /\ (y - Len(s)) + Len(s) = y
      BY <1>1 DEF Where
    <3> QED
      BY <3>1
  <2> HIDE DEF f, B, C
  <2> QED
    BY <1>2, <2>1, <2>2, <2>3, SameSize
<1> HIDE DEF A, B, C
<1>6. Cardinality(A \cup C) = Cardinality(A) + Cardinality(C) - Cardinality(A \cap C)
  BY <1>2, <1>5, FS_Union
<1>7. Cardinality(A \cap C) = 0
  BY <1>4, FS_EmptySet
<1> QED
  BY <1>2, <1>3, <1>5, <1>6, <1>7 DEF u

(* t is s without the record at position x.                                *)
IsWithout(t, s, x) ==
    /\ Len(t) = Len(s) - 1
    /\ \A k \in 1..Len(t) : t[k] = IF k < x THEN s[k] ELSE s[k + 1]

(* Taking one record out of a sequence takes one occurrence of it.         *)
LEMMA OccurrencesRemove ==
    ASSUME NEW S, NEW s \in Seq(S), NEW t \in Seq(S), NEW x \in 1..Len(s),
           IsWithout(t, s, x), NEW r
    PROVE  Occurrences(r, s) = Occurrences(r, t) + (IF s[x] = r THEN 1 ELSE 0)
<1> USE DEF IsWithout
<1> DEFINE A == Where(r, t)  B == Where(r, s) \ {x}
<1>1. DOMAIN s = 1..Len(s) /\ DOMAIN t = 1..Len(t) /\ Len(s) \in Nat /\ Len(t) \in Nat
  OBVIOUS
<1>2. IsFiniteSet(A) /\ IsFiniteSet(Where(r, s)) /\ Occurrences(r, t) = Cardinality(A)
      /\ Occurrences(r, s) = Cardinality(Where(r, s))
      /\ Occurrences(r, s) \in Nat /\ Occurrences(r, t) \in Nat
  BY OccurrencesFinite
<1>3. Cardinality(B) = Cardinality(A)
  <2> DEFINE f == [k \in A |-> IF k < x THEN k ELSE k + 1]
  <2>1. f \in [A -> B]
    BY <1>1 DEF Where
  <2>2. \A j, k \in A : f[j] = f[k] => j = k
    BY <1>1 DEF Where
  <2>3. ASSUME NEW y \in B PROVE \E k \in A : f[k] = y
    <3>1. y \in 1..Len(s) /\ s[y] = r /\ y # x
      BY <1>1 DEF Where
    <3>2. CASE y < x
      <4>1. y \in A
        BY <1>1, <3>1, <3>2 DEF Where
      <4> QED
        BY <3>2, <4>1
    <3>3. CASE y > x
      <4>1. y - 1 \in A /\ ~(y - 1 < x) /\ (y - 1) + 1 = y
        BY <1>1, <3>1, <3>3 DEF Where
      <4> QED
        BY <4>1
    <3> QED
      BY <3>1, <3>2, <3>3
  <2> HIDE DEF f, A, B
  <2> QED
    BY <1>2, <2>1, <2>2, <2>3, SameSize
<1>4. Cardinality(B) = IF x \in Where(r, s) THEN Cardinality(Where(r, s)) - 1
                       ELSE Cardinality(Where(r, s))
  BY <1>2, FS_RemoveElement
<1>5. x \in Where(r, s) <=> s[x] = r
  BY <1>1 DEF Where
<1> HIDE DEF A, B
<1> QED
  BY <1>2, <1>3, <1>4, <1>5

-----------------------------------------------------------------------------
(* The buffers of the children.                                            *)
Held(r) == {p \in InBuffers : buf[p[1]][p[2]] = r}

LEMMA Places ==
    ASSUME NEW a, NEW b \in [Child -> Seq(Row)]
    PROVE  \A p : p \in UNION {{c} \X DOMAIN b[c] : c \in {d \in Child : a[d]}} <=>
              \E d \in Child : a[d] /\ \E k \in 1..Len(b[d]) : p = <<d, k>>
<1>1. \A d \in Child : DOMAIN b[d] = 1..Len(b[d])
  OBVIOUS
<1> QED
  BY <1>1

LEMMA BufferedFinite ==
    ASSUME TypeOK, IsFiniteSet(InBuffers), NEW r
    PROVE  IsFiniteSet(Held(r)) /\ Buffered(r) = Cardinality(Held(r)) /\ Buffered(r) \in Nat
<1>1. Held(r) \subseteq InBuffers
  BY DEF Held
<1>2. IsFiniteSet(Held(r))
  BY <1>1, FS_Subset
<1>3. Buffered(r) = Cardinality(Held(r))
  BY DEF Buffered, Held
<1> QED
  BY <1>2, <1>3, FS_CardinalityType

(* fprintf to a child's stream adds one record to those it holds.          *)
LEMMA BufferAppend ==
    ASSUME TypeOK, TypeOK', IsFiniteSet(InBuffers), NEW c \in Child, alive[c], NEW x \in Row,
           buf' = [buf EXCEPT ![c] = Append(@, x)], alive' = alive
    PROVE  /\ IsFiniteSet(InBuffers)'
           /\ \A r : Buffered(r)' = Buffered(r) + (IF x = r THEN 1 ELSE 0)
<1> DEFINE e == <<c, Len(buf[c]) + 1>>
<1>1. /\ buf[c] \in Seq(Row) /\ Len(buf[c]) \in Nat /\ buf'[c] = Append(buf[c], x)
      /\ \A d \in Child : d # c => buf'[d] = buf[d]
  BY DEF TypeOK, LocalsTypeOK
<1>2. /\ Len(buf'[c]) = Len(buf[c]) + 1 /\ buf'[c][Len(buf[c]) + 1] = x
      /\ \A k \in 1..Len(buf[c]) : buf'[c][k] = buf[c][k]
  BY <1>1, AppendProperties
<1>3. \A p : p \in InBuffers' <=>
         \E d \in Child : alive[d] /\ \E k \in 1..Len(buf'[d]) : p = <<d, k>>
  <2>1. buf' \in [Child -> Seq(Row)]
    BY DEF TypeOK, LocalsTypeOK
  <2> QED
    BY <2>1, Places DEF InBuffers
<1>4. \A p : p \in InBuffers <=>
         \E d \in Child : alive[d] /\ \E k \in 1..Len(buf[d]) : p = <<d, k>>
  <2>1. buf \in [Child -> Seq(Row)]
    BY DEF TypeOK, LocalsTypeOK
  <2> QED
    BY <2>1, Places DEF InBuffers
<1>5. \A k \in 1..Len(buf'[c]) : k \in 1..Len(buf[c]) \/ k = Len(buf[c]) + 1
  BY <1>1, <1>2
<1>6. 1..Len(buf[c]) \subseteq 1..Len(buf'[c]) /\ Len(buf[c]) + 1 \in 1..Len(buf'[c])
      /\ Len(buf[c]) + 1 \notin 1..Len(buf[c])
  BY <1>1, <1>2
<1>7. InBuffers' = InBuffers \cup {e}
  <2>1. ASSUME NEW p \in InBuffers' PROVE p \in InBuffers \cup {e}
    BY <1>1, <1>3, <1>4, <1>5
  <2>2. InBuffers \subseteq InBuffers'
    BY <1>1, <1>3, <1>4, <1>6
  <2>3. e \in InBuffers'
    BY <1>3, <1>6
  <2> QED
    BY <2>1, <2>2, <2>3
<1>8. e \notin InBuffers
  BY <1>4, <1>6
<1>9. IsFiniteSet(InBuffers')
  BY <1>7, FS_AddElement
<1>10. \A p \in InBuffers : buf'[p[1]][p[2]] = buf[p[1]][p[2]]
  BY <1>1, <1>2, <1>4
<1>11. buf'[e[1]][e[2]] = x
  BY <1>2
<1> HIDE DEF e
<1>12. ASSUME NEW r PROVE Buffered(r)' = Buffered(r) + (IF x = r THEN 1 ELSE 0)
  <2>1. IsFiniteSet(Held(r)) /\ Buffered(r) = Cardinality(Held(r)) /\ Buffered(r) \in Nat
    BY BufferedFinite
  <2>2. Buffered(r)' = Cardinality({p \in InBuffers' : buf'[p[1]][p[2]] = r})
    BY DEF Buffered
  <2>3. CASE x = r
    <3>1. {p \in InBuffers' : buf'[p[1]][p[2]] = r} = Held(r) \cup {e}
      BY <1>7, <1>10, <1>11, <2>3 DEF Held
    <3>2. e \notin Held(r)
      BY <1>8 DEF Held
    <3> QED
      BY <2>1, <2>2, <2>3, <3>1, <3>2, FS_AddElement
  <2>4. CASE x # r
    <3>1. \A p : p \in InBuffers' /\ buf'[p[1]][p[2]] = r <=> p \in Held(r)
      <4>1. \A p : p \in InBuffers' <=> p \in InBuffers \/ p = e
        BY <1>7
      <4>2. \A p \in InBuffers : buf'[p[1]][p[2]] = r <=> p \in Held(r)
        BY <1>10 DEF Held
      <4>3. Held(r) \subseteq InBuffers
        BY DEF Held
      <4> QED
        BY <1>11, <2>4, <4>1, <4>2, <4>3
    <3> QED
      <4>1. {p \in InBuffers' : buf'[p[1]][p[2]] = r} = Held(r)
        BY <3>1
      <4>2. Buffered(r)' = Buffered(r)
        BY <2>1, <2>2, <4>1
      <4>3. Buffered(r)' = Buffered(r) + 0
        BY <2>1, <4>2
      <4> QED
        BY <2>4, <4>3
  <2> QED
    BY <2>3, <2>4
<1> QED
  BY <1>9, <1>12

(* fclose empties one buffer and no other.                                 *)
LEMMA BufferFlush ==
    ASSUME TypeOK, TypeOK', IsFiniteSet(InBuffers), NEW c \in Child, alive[c],
           buf' = [buf EXCEPT ![c] = <<>>], alive' = alive
    PROVE  /\ IsFiniteSet(InBuffers)'
           /\ \A r : Buffered(r) = Buffered(r)' + Occurrences(r, buf[c])
<1>1. /\ buf[c] \in Seq(Row) /\ Len(buf[c]) \in Nat /\ buf'[c] = <<>>
      /\ \A d \in Child : d # c => buf'[d] = buf[d]
  BY DEF TypeOK, LocalsTypeOK
<1>2. \A k : k \notin 1..Len(buf'[c])
  BY <1>1
<1>3. \A p : p \in InBuffers' <=>
         \E d \in Child : alive[d] /\ \E k \in 1..Len(buf'[d]) : p = <<d, k>>
  <2>1. buf' \in [Child -> Seq(Row)]
    BY DEF TypeOK, LocalsTypeOK
  <2> QED
    BY <2>1, Places DEF InBuffers
<1>4. \A p : p \in InBuffers <=>
         \E d \in Child : alive[d] /\ \E k \in 1..Len(buf[d]) : p = <<d, k>>
  <2>1. buf \in [Child -> Seq(Row)]
    BY DEF TypeOK, LocalsTypeOK
  <2> QED
    BY <2>1, Places DEF InBuffers
<1>5. \A p : p \in InBuffers' <=> p \in InBuffers /\ p[1] # c
  BY <1>1, <1>2, <1>3, <1>4
<1>6. IsFiniteSet(InBuffers')
  <2>1. InBuffers' \subseteq InBuffers
    BY <1>5
  <2> QED
    BY <2>1, FS_Subset
<1>7. ASSUME NEW r PROVE Buffered(r) = Buffered(r)' + Occurrences(r, buf[c])
  <2> DEFINE A == {p \in InBuffers' : buf'[p[1]][p[2]] = r}
             W == Where(r, buf[c])
             B == {<<c, k>> : k \in W}
  <2>1. IsFiniteSet(Held(r)) /\ Buffered(r) = Cardinality(Held(r)) /\ Buffered(r) \in Nat
    BY BufferedFinite
  <2>2. Buffered(r)' = Cardinality(A)
    BY DEF Buffered
  <2>3. /\ IsFiniteSet(W) /\ W \subseteq 1..Len(buf[c])
        /\ Occurrences(r, buf[c]) = Cardinality(W) /\ Occurrences(r, buf[c]) \in Nat
    BY <1>1, OccurrencesFinite
  <2>4. IsFiniteSet(A)
    BY <1>6, FS_Subset
  <2>5. IsFiniteSet(B) /\ Cardinality(B) = Cardinality(W)
    <3> DEFINE f == [k \in W |-> <<c, k>>]
    <3>1. /\ f \in [W -> B]
          /\ \A x, y \in W : f[x] = f[y] => x = y
          /\ \A y \in B : \E x \in W : f[x] = y
      OBVIOUS
    <3> HIDE DEF f, B, W
    <3> QED
      BY <2>3, <3>1, SameSize
  <2>6. \A p \in InBuffers : p[1] # c => buf'[p[1]][p[2]] = buf[p[1]][p[2]]
    BY <1>1, <1>4
  <2>7. A \subseteq Held(r)
    BY <1>5, <2>6 DEF Held
  <2>8. B \subseteq Held(r)
    <3>1. ASSUME NEW k \in W PROVE <<c, k>> \in Held(r)
      <4>1. k \in 1..Len(buf[c]) /\ buf[c][k] = r
        BY <2>3 DEF Where
      <4>2. <<c, k>> \in InBuffers
        BY <1>4, <4>1
      <4> QED
        BY <4>1, <4>2 DEF Held
    <3> QED
      BY <3>1
  <2>9. ASSUME NEW p \in Held(r) PROVE p \in A \cup B
    <3>1. p \in InBuffers /\ buf[p[1]][p[2]] = r
      BY DEF Held
    <3>2. CASE p[1] # c
      BY <1>5, <2>6, <3>1, <3>2
    <3>3. CASE p[1] = c
      <4>1. PICK k \in 1..Len(buf[c]) : p = <<c, k>>
        BY <1>4, <3>1, <3>3
      <4>2. k \in W
        <5>1. DOMAIN buf[c] = 1..Len(buf[c])
          BY <1>1
        <5> QED
          BY <3>1, <4>1, <5>1 DEF Where
      <4> QED
        BY <4>1, <4>2
    <3> QED
      BY <3>2, <3>3
  <2>10. A \cap B = {}
    BY <1>5
  <2> HIDE DEF A, B, W
  <2>11. Held(r) = A \cup B
    BY <2>7, <2>8, <2>9
  <2>12. Cardinality(A \cup B) = Cardinality(A) + Cardinality(B) - Cardinality(A \cap B)
    BY <2>4, <2>5, FS_Union
  <2>13. Cardinality(A \cap B) = 0 /\ Cardinality(A) \in Nat
    BY <2>4, <2>10, FS_EmptySet, FS_CardinalityType
  <2> QED
    BY <2>1, <2>2, <2>3, <2>5, <2>11, <2>12, <2>13
<1> QED
  BY <1>6, <1>7

-----------------------------------------------------------------------------
(* Where each record is while the server accepts clients.                  *)
AccountedFor(r) ==
    Occurrences(r, Initial \o stored) =
        Occurrences(r, Contents) + Occurrences(r, dupFile) + Buffered(r)

RecordsKept ==
    serving => /\ \A c \in Child : alive[c]
               /\ IsFiniteSet(InBuffers)
               /\ \A r : AccountedFor(r)

(* The slot of an add is the count it has read: nobody came between.       *)
CountRead == \A c \in Child : pc[c] = "write" => n[c] = count

LossInv == Inv /\ CountRead /\ RecordsKept

LEMMA ContentsTyped ==
    ASSUME TypeOK
    PROVE  /\ Contents \in Seq(Row) /\ Len(Contents) = count /\ count \in 0..MaxEmp
           /\ \A k \in 1..count : Contents[k] = db[k - 1] /\ k - 1 \in Slot /\ db[k - 1] \in Row
<1>1. count \in 0..MaxEmp /\ db \in [Slot -> Row]
  BY DEF TypeOK, MemoryTypeOK
<1>2. \A k \in 1..count : k - 1 \in Slot /\ db[k - 1] \in Row
  BY <1>1, MaxEmpAssumption DEF Slot
<1>3. Contents \in [1..count -> Row] /\ count \in Nat
  BY <1>1, <1>2, MaxEmpAssumption DEF Contents
<1>4. Contents \in Seq(Row) /\ Len(Contents) = count
  BY <1>3
<1> QED
  BY <1>1, <1>2, <1>4 DEF Contents

LEMMA StoredAppend ==
    ASSUME stored \in Seq(Row), NEW x \in Row, NEW r
    PROVE  Occurrences(r, Initial \o Append(stored, x)) =
               Occurrences(r, Initial \o stored) + (IF x = r THEN 1 ELSE 0)
<1> DEFINE t == Append(stored, x)
<1>1. t \in Seq(Row)
  OBVIOUS
<1>2. Initial \in Seq(Row)
  BY DEF Initial, Row, Alice, Bob, Charlie
<1>3. Occurrences(r, t) = Occurrences(r, stored) + (IF x = r THEN 1 ELSE 0)
  BY OccurrencesAppend
<1> HIDE DEF t
<1>4. /\ Occurrences(r, Initial \o stored) = Occurrences(r, Initial) + Occurrences(r, stored)
      /\ Occurrences(r, Initial \o t) = Occurrences(r, Initial) + Occurrences(r, t)
  BY <1>1, <1>2, OccurrencesConcat
<1>5. Occurrences(r, Initial) \in Nat /\ Occurrences(r, stored) \in Nat
  BY <1>2, OccurrencesFinite
<1> QED
  BY <1>3, <1>4, <1>5 DEF t

(* db->db[db->count++] = new_emp adds the record to the database.          *)
LEMMA StoreAppends ==
    ASSUME Inv, CountRead, NEW c \in Child, Store(c)
    PROVE  req[c].emp \in Row /\ Contents' = Append(Contents, req[c].emp)
<1> USE DEF Inv
<1> DEFINE x == req[c].emp  C == Contents  D == Contents'
<1>1. /\ pc[c] = "write" /\ n[c] = count /\ count < MaxEmp
      /\ db' = [db EXCEPT ![count] = x] /\ count' = count + 1
  BY DEF Store, At, CountRead
<1>2. x \in Row
  BY <1>1, EmployeeAssumption DEF RequestFits, Request, Row
<1>3. /\ C \in Seq(Row) /\ Len(C) = count /\ count \in Nat
      /\ \A k \in 1..count : C[k] = db[k - 1] /\ k - 1 \in Slot
  BY ContentsTyped, MaxEmpAssumption
<1>4. D = [k \in 1..(count + 1) |-> db'[k - 1]]
  BY <1>1 DEF Contents
<1> HIDE DEF C, D
<1>5. D = Append(C, x)
  <2>1. db \in [Slot -> Row] /\ count \in Slot
    BY <1>1, <1>3, MaxEmpAssumption DEF TypeOK, MemoryTypeOK, Slot
  <2>2. \A k \in 1..count : D[k] = C[k]
    BY <1>1, <1>3, <1>4, <2>1
  <2>3. D[count + 1] = x
    BY <1>1, <1>3, <1>4, <2>1
  <2>4. \A k \in 1..(count + 1) : k \in 1..count \/ k = count + 1
    BY <1>3
  <2>5. \A k \in 1..(count + 1) : D[k] \in Row
    BY <1>2, <1>3, <2>2, <2>3, <2>4
  <2>6. D \in Seq(Row) /\ Len(D) = count + 1
    BY <1>3, <1>4, <2>5
  <2> DEFINE A == Append(C, x)
  <2>7. A \in Seq(Row) /\ Len(A) = count + 1 /\ A[count + 1] = x
        /\ \A k \in 1..count : A[k] = C[k]
    BY <1>2, <1>3, AppendProperties
  <2> HIDE DEF A
  <2>8. \A k \in 1..Len(D) : D[k] = A[k]
    BY <2>2, <2>3, <2>4, <2>6, <2>7
  <2>9. D = A
    BY <2>6, <2>7, <2>8, SeqEqual
  <2> QED
    BY <2>9 DEF A
<1> QED
  BY <1>2, <1>5 DEF C, D

LEMMA StoreKeeps ==
    ASSUME LossInv, TypeOK', NEW c \in Child, Store(c), serving
    PROVE  \A r : AccountedFor(r)'
<1> USE DEF LossInv, Inv
<1> DEFINE x == req[c].emp  C == Contents  D == Contents'
<1>1. alive[c] /\ stored' = Append(stored, x) /\ UNCHANGED <<dupFile, buf, alive>>
  BY DEF Store, At, locals, life
<1>2. x \in Row /\ D = Append(C, x)
  BY StoreAppends
<1>3. C \in Seq(Row)
  BY ContentsTyped
<1> HIDE DEF C, D
<1>6. ASSUME NEW r PROVE AccountedFor(r)'
  <2>1. Occurrences(r, D) = Occurrences(r, C) + (IF x = r THEN 1 ELSE 0)
    BY <1>2, <1>3, OccurrencesAppend
  <2>2. Occurrences(r, Initial \o stored') =
            Occurrences(r, Initial \o stored) + (IF x = r THEN 1 ELSE 0)
    BY <1>1, <1>2, StoredAppend DEF TypeOK, OutsideTypeOK
  <2>3. Buffered(r)' = Buffered(r)
    BY <1>1 DEF Buffered, InBuffers
  <2>4. Occurrences(r, Initial \o stored) =
            Occurrences(r, C) + Occurrences(r, dupFile) + Buffered(r)
    BY DEF RecordsKept, AccountedFor, C
  <2>5. Occurrences(r, C) \in Nat /\ Occurrences(r, dupFile) \in Nat /\ Buffered(r) \in Nat
    BY <1>3, OccurrencesFinite, BufferedFinite DEF RecordsKept, TypeOK, OutsideTypeOK
  <2>6. Occurrences(r, Initial \o stored') =
            Occurrences(r, D) + Occurrences(r, dupFile') + Buffered(r)'
    BY <1>1, <2>1, <2>2, <2>3, <2>4, <2>5
  <2> QED
    BY <2>6 DEF AccountedFor, D
<1> QED
  BY <1>6

(* The shift of the removal loop takes one record out of the database.     *)
LEMMA ShiftTakesOut ==
    ASSUME Inv, NEW c \in Child, ScanDuplicate(c)
    PROVE  /\ i[c] \in Nat /\ i[c] + 1 \in 1..Len(Contents) /\ Contents[i[c] + 1] = db[i[c]]
           /\ Contents' \in Seq(Row) /\ IsWithout(Contents', Contents, i[c] + 1)
<1> USE DEF Inv
<1> DEFINE x == db[i[c]]  C == Contents  D == Contents'  p == i[c] + 1
<1>1. i[c] < count /\ i[c] \in Nat /\ db' = ShiftedLeft(i[c]) /\ count' = count - 1
  BY DEF ScanDuplicate, At, TypeOK, LocalsTypeOK
<1>2. /\ C \in Seq(Row) /\ Len(C) = count /\ count \in Nat
      /\ \A k \in 1..count : C[k] = db[k - 1] /\ k - 1 \in Slot /\ db[k - 1] \in Row
  BY ContentsTyped, MaxEmpAssumption
<1>3. D = [k \in 1..(count - 1) |-> db'[k - 1]]
  BY <1>1 DEF Contents
<1> HIDE DEF C, D
<1>4. p \in 1..count /\ C[p] = x /\ x \in Row /\ p - 1 = i[c]
  <2>1. p \in 1..count /\ p - 1 = i[c]
    BY <1>1, <1>2
  <2>2. C[p] = db[p - 1] /\ db[p - 1] \in Row
    BY <1>2, <2>1
  <2> QED
    BY <2>1, <2>2
<1>5. \A k \in 1..(count - 1) : D[k] = IF k < p THEN C[k] ELSE C[k + 1]
  <2> SUFFICES ASSUME NEW k \in 1..(count - 1)
               PROVE  D[k] = IF k < p THEN C[k] ELSE C[k + 1]
    OBVIOUS
  <2>1. k \in 1..count /\ k + 1 \in 1..count /\ k - 1 \in Slot
    BY <1>2
  <2>2. D[k] = IF k - 1 >= i[c] /\ k - 1 < count - 1 THEN db[(k - 1) + 1] ELSE db[k - 1]
    BY <1>1, <1>3, <2>1 DEF ShiftedLeft
  <2>3. D[k] = IF k - 1 >= i[c] THEN db[(k + 1) - 1] ELSE db[k - 1]
    BY <1>2, <2>2
  <2>4. C[k] = db[k - 1] /\ C[k + 1] = db[(k + 1) - 1]
    BY <1>2, <2>1
  <2> QED
    BY <1>1, <2>3, <2>4
<1>6. D \in Seq(Row) /\ Len(D) = count - 1
  <2>1. \A k \in 1..(count - 1) : D[k] \in Row
    BY <1>2, <1>5
  <2>2. count - 1 \in Nat
    BY <1>1, <1>2
  <2> QED
    BY <1>3, <2>1, <2>2
<1>7. IsWithout(D, C, p)
  BY <1>2, <1>5, <1>6 DEF IsWithout
<1> QED
  BY <1>1, <1>2, <1>4, <1>6, <1>7 DEF C, D

(* A removal moves one record from the database to the child's buffer.     *)
LEMMA RemovalKeeps ==
    ASSUME LossInv, TypeOK', NEW c \in Child, ScanDuplicate(c), serving
    PROVE  IsFiniteSet(InBuffers)' /\ \A r : AccountedFor(r)'
<1> USE DEF LossInv, Inv
<1> DEFINE x == db[i[c]]  C == Contents  D == Contents'  p == i[c] + 1
<1>1. alive[c] /\ buf' = [buf EXCEPT ![c] = Append(@, x)] /\ UNCHANGED <<dupFile, stored, alive>>
  BY DEF ScanDuplicate, At, life
<1>2. C \in Seq(Row)
  BY ContentsTyped
<1>4. p \in 1..Len(C) /\ C[p] = x /\ x \in Row /\ D \in Seq(Row) /\ IsWithout(D, C, p)
  <2>1. p \in 1..Len(C) /\ C[p] = x /\ D \in Seq(Row) /\ IsWithout(D, C, p)
    BY ShiftTakesOut
  <2> QED
    BY <1>2, <2>1
<1> HIDE DEF C, D
<1>7. /\ IsFiniteSet(InBuffers)'
      /\ \A r : Buffered(r)' = Buffered(r) + (IF x = r THEN 1 ELSE 0)
  BY <1>1, <1>4, BufferAppend DEF RecordsKept
<1> HIDE DEF x, p
<1>8. ASSUME NEW r PROVE AccountedFor(r)'
  <2>1. Occurrences(r, C) = Occurrences(r, D) + (IF C[p] = r THEN 1 ELSE 0)
    BY <1>2, <1>4, OccurrencesRemove
  <2>2. Occurrences(r, Initial \o stored) =
            Occurrences(r, C) + Occurrences(r, dupFile) + Buffered(r)
    BY DEF RecordsKept, AccountedFor, C
  <2>3. /\ Occurrences(r, C) \in Nat /\ Occurrences(r, D) \in Nat
        /\ Occurrences(r, dupFile) \in Nat /\ Buffered(r) \in Nat
    BY <1>2, <1>4, OccurrencesFinite, BufferedFinite DEF RecordsKept, TypeOK, OutsideTypeOK
  <2>4. Occurrences(r, Initial \o stored') =
            Occurrences(r, D) + Occurrences(r, dupFile') + Buffered(r)'
    BY <1>1, <1>4, <1>7, <2>1, <2>2, <2>3
  <2> QED
    BY <2>4 DEF AccountedFor, D
<1> QED
  BY <1>7, <1>8

(* fclose moves what the child has buffered to dup.txt.                    *)
LEMMA CloseKeeps ==
    ASSUME LossInv, TypeOK', NEW c \in Child, CloseFile(c), serving
    PROVE  IsFiniteSet(InBuffers)' /\ \A r : AccountedFor(r)'
<1> USE DEF LossInv, Inv
<1>1. /\ alive[c] /\ dupFile' = dupFile \o buf[c] /\ buf' = [buf EXCEPT ![c] = <<>>]
      /\ UNCHANGED <<db, count, stored, alive>>
  BY DEF CloseFile, At, memory, life
<1>2. /\ IsFiniteSet(InBuffers)'
      /\ \A r : Buffered(r) = Buffered(r)' + Occurrences(r, buf[c])
  BY <1>1, BufferFlush DEF RecordsKept
<1>3. dupFile \in Seq(Row) /\ buf[c] \in Seq(Row)
  BY DEF TypeOK, LocalsTypeOK, OutsideTypeOK
<1>4. Contents' = Contents
  BY <1>1 DEF Contents
<1>5. ASSUME NEW r PROVE AccountedFor(r)'
  <2>1. Occurrences(r, dupFile') = Occurrences(r, dupFile) + Occurrences(r, buf[c])
    BY <1>1, <1>3, OccurrencesConcat
  <2>2. Occurrences(r, Initial \o stored) =
            Occurrences(r, Contents) + Occurrences(r, dupFile) + Buffered(r)
    BY DEF RecordsKept, AccountedFor
  <2>3. /\ Occurrences(r, Contents) \in Nat /\ Occurrences(r, buf[c]) \in Nat
        /\ Occurrences(r, dupFile) \in Nat /\ Buffered(r) \in Nat
    BY <1>3, ContentsTyped, OccurrencesFinite, BufferedFinite DEF RecordsKept
  <2>4. Buffered(r)' \in Nat
    <3>1. Buffered(r)' = Cardinality({q \in InBuffers' : buf'[q[1]][q[2]] = r})
      BY DEF Buffered
    <3>2. IsFiniteSet({q \in InBuffers' : buf'[q[1]][q[2]] = r})
      BY <1>2, FS_Subset
    <3> QED
      BY <3>1, <3>2, FS_CardinalityType
  <2>5. Occurrences(r, Initial \o stored') =
            Occurrences(r, Contents') + Occurrences(r, dupFile') + Buffered(r)'
    BY <1>1, <1>2, <1>4, <2>1, <2>2, <2>3, <2>4
  <2> QED
    BY <2>5 DEF AccountedFor
<1> QED
  BY <1>2, <1>5

LEMMA CountReadNext == ASSUME Inv, CountRead, [Next]_vars PROVE CountRead'
<1> USE DEF Inv, TypeOK, LocalsTypeOK
<1>1. ASSUME UNCHANGED <<n, count>>, \A d \in Child : pc'[d] = "write" => pc[d] = "write"
      PROVE  CountRead'
  BY <1>1 DEF CountRead
<1>2. ASSUME NEW c \in Child, ReadCount(c) PROVE CountRead'
  <2>1. /\ pc[c] = "read" /\ n' = [n EXCEPT ![c] = count] /\ count' = count
        /\ \A d \in Child : d # c => pc'[d] = pc[d]
    BY <1>2 DEF ReadCount, At, Goto, memory
  <2>2. \A d \in Child : d # c => pc'[d] # "write"
    BY <2>1 DEF MutualExclusion, Critical
  <2> QED
    BY <2>1, <2>2 DEF CountRead
<1>3. ASSUME NEW c \in Child, Store(c) \/ ScanDuplicate(c) PROVE CountRead'
  <2>1. /\ pc[c] \in {"write", "scan"} /\ pc'[c] # "write"
        /\ \A d \in Child : d # c => pc'[d] = pc[d]
    BY <1>3 DEF Store, ScanDuplicate, At, Goto
  <2>2. \A d \in Child : pc'[d] # "write"
    BY <2>1 DEF MutualExclusion, Critical
  <2> QED
    BY <2>2 DEF CountRead
<1>4. ASSUME NEW c \in Child,
             \/ \E r \in Request : SendRequest(c, r)
             \/ HangUp(c) \/ Kill(c)
             \/ ScanOther(c) \/ ScanFirst(c) \/ CopyNext(c)
      PROVE  CountRead'
  <2>1. UNCHANGED <<n, count, pc>>
    BY <1>4 DEF SendRequest, HangUp, Kill, ScanOther, ScanFirst, CopyNext, memory, locals
  <2> QED
    BY <1>1, <2>1
<1>5. ASSUME NEW c \in Child,
             \/ Recv(c) \/ Disconnected(c) \/ Wait(c) \/ ScanEnd(c) \/ CopyEnd(c)
             \/ Post(c) \/ CloseFile(c) \/ Send(c)
      PROVE  CountRead'
  <2>1. UNCHANGED <<n, count>>
    BY <1>5 DEF Recv, Disconnected, Wait, ScanEnd, CopyEnd, Post, CloseFile, Send, memory, locals
  <2>2. \E p \in Place \ {"write"} : pc' = [pc EXCEPT ![c] = p]
    BY <1>5 DEF Recv, Disconnected, Wait, ScanEnd, CopyEnd, Post, CloseFile, Send, Goto,
       Place, Critical
  <2> QED
    BY <1>1, <2>1, <2>2
<1>6. CASE ThirdClient \/ UNCHANGED vars
  BY <1>1, <1>6 DEF ThirdClient, vars, memory, locals
<1> QED
  BY <1>2, <1>3, <1>4, <1>5, <1>6 DEF Next, Handle

LEMMA KeptNext == ASSUME LossInv, TypeOK', [Next]_vars PROVE RecordsKept'
<1> USE DEF LossInv
<1> SUFFICES ASSUME serving'
             PROVE  /\ \A c \in Child : alive'[c]
                    /\ IsFiniteSet(InBuffers)'
                    /\ \A r : AccountedFor(r)'
  BY DEF RecordsKept
<1>1. serving /\ alive' = alive
  <2>1. ASSUME NEW c \in Child, \E r \in Request : SendRequest(c, r) PROVE serving /\ alive' = alive
    BY <2>1 DEF SendRequest, life
  <2>2. ASSUME NEW c \in Child, HangUp(c) \/ Handle(c) PROVE serving /\ alive' = alive
    BY <2>2 DEF HangUp, Handle, Recv, Disconnected, Wait, ReadCount, Store, ScanOther, ScanFirst,
       ScanDuplicate, ScanEnd, CopyNext, CopyEnd, Post, CloseFile, Send, life
  <2>3. ASSUME NEW c \in Child, Kill(c) PROVE FALSE
    BY <2>3 DEF Kill
  <2>4. CASE ThirdClient \/ UNCHANGED vars
    BY <2>4 DEF ThirdClient, vars, life
  <2> QED
    BY <2>1, <2>2, <2>3, <2>4 DEF Next
<1>2. \A c \in Child : alive'[c]
  BY <1>1 DEF RecordsKept
<1>3. ASSUME UNCHANGED <<db, count, buf, dupFile, stored>>
      PROVE  IsFiniteSet(InBuffers)' /\ \A r : AccountedFor(r)'
  <2>1. Contents' = Contents /\ InBuffers' = InBuffers
    BY <1>1, <1>3 DEF Contents, InBuffers
  <2>2. ASSUME NEW r PROVE Buffered(r)' = Buffered(r)
    BY <1>3, <2>1 DEF Buffered
  <2> QED
    BY <1>1, <1>3, <2>1, <2>2 DEF RecordsKept, AccountedFor
<1>4. ASSUME NEW c \in Child, Store(c)
      PROVE  IsFiniteSet(InBuffers)' /\ \A r : AccountedFor(r)'
  <2>1. InBuffers' = InBuffers
    BY <1>1, <1>4 DEF Store, locals, InBuffers
  <2> QED
    BY <1>1, <1>4, <2>1, StoreKeeps DEF RecordsKept
<1>5. ASSUME NEW c \in Child, \E r \in Request : SendRequest(c, r)
      PROVE  UNCHANGED <<db, count, buf, dupFile, stored>>
  BY <1>5 DEF SendRequest, memory, locals
<1>6. ASSUME NEW c \in Child,
             \/ HangUp(c) \/ Kill(c) \/ Recv(c) \/ Disconnected(c) \/ Wait(c) \/ ReadCount(c)
             \/ ScanOther(c) \/ ScanFirst(c) \/ ScanEnd(c) \/ CopyNext(c) \/ CopyEnd(c)
             \/ Post(c) \/ Send(c)
      PROVE  UNCHANGED <<db, count, buf, dupFile, stored>>
  BY <1>6 DEF HangUp, Kill, Recv, Disconnected, Wait, ReadCount, ScanOther, ScanFirst, ScanEnd,
     CopyNext, CopyEnd, Post, Send, memory, locals
<1>7. ASSUME ThirdClient \/ UNCHANGED vars PROVE UNCHANGED <<db, count, buf, dupFile, stored>>
  BY <1>7 DEF ThirdClient, vars, memory, locals
<1> QED
  BY <1>1, <1>2, <1>3, <1>4, <1>5, <1>6, <1>7, RemovalKeeps, CloseKeeps DEF Next, Handle

LEMMA ContentsInit == ASSUME Init, TypeOK PROVE Contents = Initial
<1>1. count = 3 /\ \A k \in 1..3 : Contents[k] = Initial[k]
  <2>1. count = 3
    BY DEF Init
  <2>2. ASSUME NEW k \in 1..3 PROVE db[k - 1] = Initial[k]
    <3>1. k - 1 \in Slot /\ k - 1 < 3 /\ (k - 1) + 1 = k
      BY MaxEmpAssumption DEF Slot
    <3> QED
      BY <3>1 DEF Init
  <2> QED
    BY <2>1, <2>2 DEF Contents
<1>2. Initial \in Seq(Row) /\ Len(Initial) = 3
  BY DEF Initial, Row, Alice, Bob, Charlie
<1>3. Contents \in Seq(Row) /\ Len(Contents) = 3
  BY <1>1, ContentsTyped
<1> QED
  BY <1>1, <1>2, <1>3, SeqEqual

LEMMA KeptInit == Init => RecordsKept
<1> SUFFICES ASSUME Init, TypeOK PROVE RecordsKept
  BY InitInv DEF Inv
<1>1. \A c \in Child : alive[c] /\ buf[c] = <<>>
  BY DEF Init
<1>2. InBuffers = {}
  BY <1>1 DEF InBuffers
<1>3. Contents = Initial
  BY ContentsInit
<1>4. ASSUME NEW r PROVE AccountedFor(r)
  <2>1. Buffered(r) = 0
    <3>1. {p \in InBuffers : buf[p[1]][p[2]] = r} = {}
      BY <1>2
    <3> QED
      BY <3>1, FS_EmptySet DEF Buffered
  <2>2. Occurrences(r, dupFile) = 0 /\ Occurrences(r, stored) = 0
    BY OccurrencesOfNone DEF Init
  <2>3. Initial \in Seq(Row) /\ stored \in Seq(Row)
    BY DEF Init, Initial, Row, Alice, Bob, Charlie
  <2>4. Occurrences(r, Initial \o stored) = Occurrences(r, Initial) + Occurrences(r, stored)
        /\ Occurrences(r, Initial) \in Nat
    BY <2>3, OccurrencesConcat, OccurrencesFinite
  <2> QED
    BY <1>3, <2>1, <2>2, <2>4 DEF AccountedFor
<1> QED
  BY <1>1, <1>2, <1>4, FS_EmptySet DEF RecordsKept

(* As long as the server accepts clients, every record stored since the    *)
(* start is exactly as often in the database, in dup.txt and in the        *)
(* buffers of dup.txt as it was stored, whatever adds and removals of      *)
(* several children come between one another.                              *)
THEOREM NothingEverLost == Spec => []NothingLost
<1>1. Init => LossInv
  BY InitInv, KeptInit DEF LossInv, CountRead, Init
<1>2. LossInv /\ [Next]_vars => LossInv'
  BY TypeNext, RequestNext, MutexNext, CountReadNext, KeptNext DEF LossInv, Inv
<1>3. LossInv => NothingLost
  BY DEF LossInv, RecordsKept, AccountedFor, NothingLost, Accounted
<1> QED
  BY <1>1, <1>2, <1>3, PTL DEF Spec
-----------------------------------------------------------------------------
(* What Dedup and Duplicates pick.                                        *)
(* The positions up to k.                                                  *)
UpTo(K, k) == {x \in K : x <= k}

LEMMA RankType ==
    ASSUME NEW K \in SUBSET Nat, IsFiniteSet(K), NEW k \in K
    PROVE  /\ IsFiniteSet(UpTo(K, k)) /\ Cardinality(K) \in Nat
           /\ Cardinality(UpTo(K, k)) \in 1..Cardinality(K)
<1>1. UpTo(K, k) \in SUBSET K /\ k \in UpTo(K, k)
  BY DEF UpTo
<1>2. IsFiniteSet(UpTo(K, k)) /\ Cardinality(UpTo(K, k)) <= Cardinality(K)
  BY <1>1, FS_Subset
<1>3. Cardinality(UpTo(K, k)) \in Nat /\ Cardinality(K) \in Nat
  BY <1>2, FS_CardinalityType
<1>4. Cardinality(UpTo(K, k)) # 0
  BY <1>1, <1>2, FS_EmptySet
<1> QED BY <1>2, <1>3, <1>4

LEMMA RankGrows ==
    ASSUME NEW K \in SUBSET Nat, IsFiniteSet(K), NEW k \in K, NEW l \in K, k < l
    PROVE  Cardinality(UpTo(K, k)) < Cardinality(UpTo(K, l))
<1>1. UpTo(K, k) \in SUBSET UpTo(K, l) /\ l \in UpTo(K, l) /\ l \notin UpTo(K, k)
  <2>1. k \in Nat /\ l \in Nat /\ ~(l <= k) /\ l <= l
    OBVIOUS
  <2>2. ASSUME NEW x \in UpTo(K, k) PROVE x \in UpTo(K, l)
    <3>1. x \in K /\ x \in Nat /\ x <= k
      BY DEF UpTo
    <3>2. x <= l
      BY <2>1, <3>1
    <3> QED BY <3>1, <3>2 DEF UpTo
  <2> QED BY <2>1, <2>2 DEF UpTo
<1>2. IsFiniteSet(UpTo(K, l)) /\ IsFiniteSet(UpTo(K, k))
  BY RankType
<1>3. Cardinality(UpTo(K, k)) <= Cardinality(UpTo(K, l))
      /\ Cardinality(UpTo(K, k)) # Cardinality(UpTo(K, l))
  BY <1>1, <1>2, FS_Subset
<1>4. Cardinality(UpTo(K, k)) \in Nat /\ Cardinality(UpTo(K, l)) \in Nat
  BY <1>2, FS_CardinalityType
<1> QED BY <1>3, <1>4

(* Nth(K, j) is the element with rank j, and the only one.                 *)
LEMMA NthIs ==
    ASSUME NEW K \in SUBSET Nat, IsFiniteSet(K), NEW k \in K
    PROVE  Nth(K, Cardinality(UpTo(K, k))) = k
<1> DEFINE j == Cardinality(UpTo(K, k))
<1>1. ASSUME NEW l \in K, Cardinality(UpTo(K, l)) = j PROVE l = k
  <2>1. ~(l < k) /\ ~(k < l)
    <3>1. ASSUME l < k PROVE FALSE
      BY <1>1, <3>1, RankGrows, RankType
    <3>2. ASSUME k < l PROVE FALSE
      BY <1>1, <3>2, RankGrows, RankType
    <3> QED BY <3>1, <3>2
  <2> QED BY <2>1
<1>2. \E x \in K : Cardinality({y \in K : y <= x}) = j
  BY DEF UpTo
<1>3. Nth(K, j) \in K /\ Cardinality(UpTo(K, Nth(K, j))) = j
  <2> HIDE DEF j
  <2> QED BY <1>2 DEF Nth, UpTo
<1> HIDE DEF j
<1>4. Nth(K, j) = k
  BY <1>1, <1>3
<1> QED BY <1>4 DEF j

LEMMA NthExists ==
    ASSUME NEW K \in SUBSET Nat, IsFiniteSet(K), NEW j \in 1..Cardinality(K)
    PROVE  Nth(K, j) \in K /\ Cardinality(UpTo(K, Nth(K, j))) = j
<1> DEFINE f == [k \in K |-> Cardinality(UpTo(K, k))]
           T == 1..Cardinality(K)
<1>1. Cardinality(K) \in Nat
  BY FS_CardinalityType
<1>2. IsFiniteSet(T) /\ Cardinality(T) = Cardinality(K)
  <2>1. IsFiniteSet(T) /\ Cardinality(T) = IF 1 > Cardinality(K) THEN 0 ELSE Cardinality(K) - 1 + 1
    BY <1>1, FS_Interval
  <2> QED BY <1>1, <2>1
<1>3. f \in [K -> T]
  BY RankType
<1>4. \A k, l \in K : f[k] = f[l] => k = l
  BY NthIs
<1> HIDE DEF f, T
<1>5. f \in Injection(K, T)
  BY <1>3, <1>4 DEF Injection, IsInjective
<1>6. f \in Surjection(K, T)
  BY <1>2, <1>5, FS_Injection
<1>7. PICK k \in K : f[k] = j
  BY <1>6 DEF Surjection, T
<1>8. Cardinality(UpTo(K, k)) = j
  BY <1>7 DEF f
<1> QED BY <1>8, NthIs

(* Two sets of positions that correspond in order pick the same.           *)
LEMMA PickSame ==
    ASSUME NEW s, NEW K \in SUBSET Nat, IsFiniteSet(K),
           NEW t, NEW L \in SUBSET Nat, NEW f \in [K -> L],
           \A k, l \in K : k < l => f[k] < f[l],
           \A m \in L : \E k \in K : f[k] = m,
           \A k \in K : t[f[k]] = s[k]
    PROVE  Pick(s, K) = Pick(t, L) /\ IsFiniteSet(L) /\ Cardinality(L) = Cardinality(K)
<1>1. \A k, l \in K : f[k] = f[l] => k = l
  <2> SUFFICES ASSUME NEW k \in K, NEW l \in K, f[k] = f[l], k # l PROVE FALSE
    OBVIOUS
  <2>1. k < l \/ l < k
    OBVIOUS
  <2>2. f[k] \in Nat
    OBVIOUS
  <2> QED BY <2>1, <2>2
<1>2. f \in Bijection(K, L)
  BY <1>1 DEF Bijection, Injection, Surjection, IsInjective
<1>3. IsFiniteSet(L) /\ Cardinality(L) = Cardinality(K)
  BY <1>2, FS_Bijection DEF ExistsBijection
<1>4. ASSUME NEW k \in K PROVE Cardinality(UpTo(L, f[k])) = Cardinality(UpTo(K, k))
  <2> DEFINE A == UpTo(K, k)  B == UpTo(L, f[k])  g == [x \in A |-> f[x]]
  <2>1. g \in [A -> B]
    <3>1. ASSUME NEW x \in A PROVE f[x] \in B
      <4>1. x \in K /\ x <= k
        BY DEF UpTo
      <4>2. x \in Nat /\ k \in Nat /\ f[x] \in Nat /\ f[k] \in Nat
        BY <4>1
      <4>3. x < k \/ x = k
        BY <4>1, <4>2
      <4>4. f[x] <= f[k]
        BY <4>1, <4>2, <4>3
      <4> QED BY <4>1, <4>4 DEF UpTo
    <3> QED BY <3>1
  <2>2. \A x, y \in A : g[x] = g[y] => x = y
    BY <1>1 DEF UpTo
  <2>3. \A m \in B : \E x \in A : g[x] = m
    <3> SUFFICES ASSUME NEW m \in B PROVE \E x \in A : g[x] = m
      OBVIOUS
    <3>1. m \in L /\ m <= f[k]
      BY DEF UpTo
    <3>2. PICK x \in K : f[x] = m
      BY <3>1
    <3>3. x <= k
      <4>1. x \in Nat /\ k \in Nat /\ m \in Nat /\ f[k] \in Nat
        BY <3>1
      <4>3. ~(f[k] < f[x])
        BY <3>1, <3>2, <4>1
      <4>2. ~(k < x)
        BY <4>3
      <4> QED BY <4>1, <4>2
    <3> QED BY <3>2, <3>3 DEF UpTo
  <2>4. IsFiniteSet(A)
    BY RankType
  <2> HIDE DEF A, B, g
  <2>5. g \in Bijection(A, B)
    BY <2>1, <2>2, <2>3 DEF Bijection, Injection, Surjection, IsInjective
  <2>6. Cardinality(B) = Cardinality(A)
    BY <2>4, <2>5, FS_Bijection DEF ExistsBijection
  <2> QED BY <2>6 DEF A, B
<1>5. ASSUME NEW j \in 1..Cardinality(K) PROVE t[Nth(L, j)] = s[Nth(K, j)]
  <2>1. PICK k \in K : k = Nth(K, j) /\ Cardinality(UpTo(K, k)) = j
    BY NthExists
  <2>2. f[k] \in L /\ Cardinality(UpTo(L, f[k])) = j
    BY <1>4, <2>1
  <2>3. Nth(L, j) = f[k]
    BY <1>3, <2>2, NthIs
  <2> QED BY <2>1, <2>3
<1> QED BY <1>3, <1>5 DEF Pick

(* All positions pick the whole, none the empty sequence.                  *)
LEMMA PickAll ==
    ASSUME NEW S, NEW s \in Seq(S)
    PROVE  Pick(s, DOMAIN s) = s
<1> DEFINE K == 1..Len(s)
<1>0. DOMAIN s = K /\ Len(s) \in Nat
  OBVIOUS
<1>1. s = [j \in K |-> s[j]]
  OBVIOUS
<1>2. K \in SUBSET Nat /\ IsFiniteSet(K) /\ Cardinality(K) = Len(s)
  <2>1. IsFiniteSet(K) /\ Cardinality(K) = IF 1 > Len(s) THEN 0 ELSE Len(s) - 1 + 1
    BY <1>0, FS_Interval
  <2> QED BY <1>0, <2>1
<1>3. ASSUME NEW j \in K PROVE Nth(K, j) = j
  <2>1. UpTo(K, j) = 1..j
    BY <1>0 DEF UpTo
  <2>2. Cardinality(1..j) = j
    <3>1. j \in Nat /\ j >= 1
      BY <1>0
    <3>2. Cardinality(1..j) = IF 1 > j THEN 0 ELSE j - 1 + 1
      BY <3>1, FS_Interval
    <3> QED BY <3>1, <3>2
  <2> HIDE DEF K
  <2> QED BY <1>2, <2>1, <2>2, NthIs
<1>4. Pick(s, K) = [j \in K |-> s[j]]
  BY <1>2, <1>3 DEF Pick
<1> QED BY <1>0, <1>1, <1>4

LEMMA PickTyped ==
    ASSUME NEW S, NEW s \in Seq(S), NEW D, D \subseteq 1..Len(s)
    PROVE  Pick(s, D) \in Seq(S)
<1>1. D \in SUBSET Nat /\ IsFiniteSet(D)
  <2>1. Len(s) \in Nat
    OBVIOUS
  <2>2. IsFiniteSet(1..Len(s))
    BY <2>1, FS_Interval
  <2>3. IsFiniteSet(D)
    BY <2>2, FS_Subset
  <2> QED BY <2>1, <2>3
<1>2. Cardinality(D) \in Nat
  BY <1>1, FS_CardinalityType
<1>3. ASSUME NEW j \in 1..Cardinality(D) PROVE s[Nth(D, j)] \in S
  <2>1. Nth(D, j) \in 1..Len(s)
    BY <1>1, NthExists
  <2>2. \A k \in 1..Len(s) : s[k] \in S
    OBVIOUS
  <2> QED BY <2>1, <2>2
<1> QED BY <1>2, <1>3 DEF Pick

LEMMA PickNone == ASSUME NEW s PROVE Pick(s, {}) = <<>>
<1>1. Cardinality({}) = 0
  BY FS_EmptySet
<1> QED BY <1>1 DEF Pick

LEMMA Prefixed ==
    ASSUME NEW S, NEW x \in S, NEW v \in Seq(S)
    PROVE  /\ <<x>> \o v \in Seq(S) /\ Len(<<x>> \o v) = Len(v) + 1
           /\ (<<x>> \o v)[1] = x
           /\ \A j \in 1..Len(v) : (<<x>> \o v)[j + 1] = v[j]
<1> DEFINE h == <<x>>
<1>1. h \in Seq(S) /\ Len(h) = 1 /\ h[1] = x
  OBVIOUS
<1> HIDE DEF h
<1>2. /\ h \o v \in Seq(S) /\ Len(h \o v) = Len(h) + Len(v)
      /\ \A j \in 1..(Len(h) + Len(v)) :
            (h \o v)[j] = IF j <= Len(h) THEN h[j] ELSE v[j - Len(h)]
  BY <1>1, ConcatProperties
<1>3. Len(v) \in Nat
  OBVIOUS
<1>4. Len(h \o v) = Len(v) + 1
  BY <1>1, <1>2, <1>3
<1>5. (h \o v)[1] = x
  BY <1>1, <1>2, <1>3
<1>6. ASSUME NEW j \in 1..Len(v) PROVE (h \o v)[j + 1] = v[j]
  <2>1. j + 1 \in 1..(Len(h) + Len(v)) /\ ~(j + 1 <= Len(h)) /\ (j + 1) - Len(h) = j
    BY <1>1, <1>3
  <2> QED BY <1>2, <2>1
<1> QED BY <1>2, <1>4, <1>5, <1>6 DEF h

(* The least position first.                                               *)
LEMMA PickFirst ==
    ASSUME NEW S, NEW s \in Seq(S), NEW D, D \subseteq 1..Len(s), NEW p, p \in D,
           \A k \in D : p <= k
    PROVE  /\ Pick(s, D) = <<s[p]>> \o Pick(s, D \ {p})
           /\ Pick(s, D \ {p}) \in Seq(S)
<1> DEFINE E == D \ {p}
           c == Cardinality(E)
<1>1. DOMAIN s = 1..Len(s) /\ Len(s) \in Nat /\ D \in SUBSET Nat /\ IsFiniteSet(D)
  <2>1. DOMAIN s = 1..Len(s) /\ Len(s) \in Nat
    OBVIOUS
  <2>2. IsFiniteSet(1..Len(s))
    BY <2>1, FS_Interval
  <2>3. D \in SUBSET (1..Len(s))
    BY <2>1
  <2>4. IsFiniteSet(D)
    BY <2>2, <2>3, FS_Subset
  <2> QED BY <2>1, <2>3, <2>4
<1>2. E \in SUBSET Nat /\ IsFiniteSet(E) /\ Cardinality(D) = c + 1 /\ c \in Nat
  <2>1. E \in SUBSET Nat
    BY <1>1
  <2>2. IsFiniteSet(E) /\ c = Cardinality(D) - 1 /\ Cardinality(D) \in Nat
    BY <1>1, FS_RemoveElement, FS_CardinalityType
  <2>3. c \in Nat
    BY <2>2, FS_CardinalityType
  <2> QED BY <2>1, <2>2, <2>3
<1>3. Nth(D, 1) = p
  <2>1. UpTo(D, p) = {p}
    <3>1. p \in Nat /\ \A x \in D : x \in Nat
      BY <1>1
    <3>2. \A x \in D : x <= p => x = p
      BY <3>1
    <3>3. p <= p
      BY <3>1
    <3> QED BY <3>2, <3>3 DEF UpTo
  <2>2. Cardinality(UpTo(D, p)) = 1
    BY <2>1, FS_Singleton
  <2> QED BY <1>1, <2>2, NthIs
<1> HIDE DEF E, c
<1>4. ASSUME NEW j \in 1..c
      PROVE  Nth(D, j + 1) = Nth(E, j) /\ Nth(E, j) \in E
  <2>1. PICK k \in E : k = Nth(E, j) /\ Cardinality(UpTo(E, k)) = j
    BY <1>2, NthExists DEF c
  <2>2. k \in D /\ k \in Nat /\ p < k
    BY <1>1, <2>1 DEF E
  <2>3. UpTo(D, k) = UpTo(E, k) \cup {p} /\ p \notin UpTo(E, k)
    BY <1>1, <2>2 DEF UpTo, E
  <2>4. IsFiniteSet(UpTo(E, k))
    BY <1>2, RankType
  <2>5. Cardinality(UpTo(D, k)) = j + 1
    <3>1. Cardinality(UpTo(E, k) \cup {p}) = Cardinality(UpTo(E, k)) + 1
      BY <2>3, <2>4, FS_AddElement
    <3> QED BY <2>1, <2>3, <3>1
  <2>6. Nth(D, j + 1) = k
    BY <1>1, <2>2, <2>5, NthIs
  <2> QED BY <2>1, <2>6
<1>5. ASSUME NEW j \in 1..(c + 1) PROVE s[Nth(D, j)] \in S
  <2>1. Nth(D, j) \in D
    BY <1>1, <1>2, <1>5, NthExists
  <2>2. Nth(D, j) \in 1..Len(s)
    BY <2>1
  <2>3. \A k \in 1..Len(s) : s[k] \in S
    OBVIOUS
  <2> QED BY <2>2, <2>3
<1> DEFINE u == Pick(s, D)  v == Pick(s, E)
<1>6. /\ u = [j \in 1..(c + 1) |-> s[Nth(D, j)]]
      /\ v = [j \in 1..c |-> s[Nth(E, j)]]
  BY <1>2 DEF Pick, c
<1>7. u \in Seq(S) /\ Len(u) = c + 1 /\ (\A j \in 1..(c + 1) : u[j] = s[Nth(D, j)])
  BY <1>2, <1>5, <1>6
<1>8. ASSUME NEW j \in 1..c PROVE v[j] = u[j + 1] /\ v[j] \in S
  <2>1. v[j] = s[Nth(E, j)]
    BY <1>6
  <2>2. u[j + 1] = s[Nth(D, j + 1)] /\ u[j + 1] \in S
    BY <1>2, <1>5, <1>7
  <2> QED BY <1>4, <2>1, <2>2
<1>9. v \in Seq(S) /\ Len(v) = c
  BY <1>2, <1>6, <1>8
<1> HIDE DEF u, v
<1>10. u[1] = s[p] /\ s[p] \in S
  BY <1>2, <1>3, <1>5, <1>7
<1> DEFINE w == <<s[p]>> \o v
<1>12. w \in Seq(S) /\ Len(w) = c + 1 /\ w[1] = s[p] /\ (\A j \in 1..c : w[j + 1] = v[j])
  BY <1>9, <1>10, Prefixed
<1> HIDE DEF w
<1>13. ASSUME NEW j \in 1..(c + 1) PROVE u[j] = w[j]
  <2>1. CASE j = 1
    BY <1>10, <1>12, <2>1
  <2>2. CASE j # 1
    <3>1. j - 1 \in 1..c /\ (j - 1) + 1 = j
      BY <1>2, <2>2
    <3> QED BY <1>8, <1>12, <3>1
  <2> QED BY <2>1, <2>2
<1>14. u = w
  BY <1>2, <1>7, <1>12, <1>13, SeqEqual
<1> QED BY <1>7, <1>9, <1>14 DEF u, v, w, E

(* Where the record at position k of t was in s.                           *)
Before(x, k) == IF k < x THEN k ELSE k + 1

LEMMA KeptTyped ==
    ASSUME NEW S, NEW s \in Seq(S), NEW id
    PROVE  /\ DOMAIN s = 1..Len(s) /\ Len(s) \in Nat
           /\ Kept(s, id) \in SUBSET Nat /\ DOMAIN s \ Kept(s, id) \in SUBSET Nat
           /\ IsFiniteSet(Kept(s, id)) /\ IsFiniteSet(DOMAIN s \ Kept(s, id))
<1>1. DOMAIN s = 1..Len(s) /\ Len(s) \in Nat
  OBVIOUS
<1>2. IsFiniteSet(1..Len(s)) /\ 1..Len(s) \in SUBSET Nat
  BY <1>1, FS_Interval
<1>3. Kept(s, id) \in SUBSET (1..Len(s)) /\ DOMAIN s \ Kept(s, id) \in SUBSET (1..Len(s))
  BY <1>1 DEF Kept
<1>4. IsFiniteSet(Kept(s, id)) /\ IsFiniteSet(DOMAIN s \ Kept(s, id))
  BY <1>2, <1>3, FS_Subset
<1> QED BY <1>1, <1>2, <1>3, <1>4

(* A sequence that holds the id at most once has no duplicates.            *)
LEMMA NoDuplicates ==
    ASSUME NEW S, NEW s \in Seq(S), NEW id,
           \A j, k \in 1..Len(s) : s[j].id = id /\ s[k].id = id => j = k
    PROVE  Dedup(s, id) = s /\ Duplicates(s, id) = <<>>
<1>1. DOMAIN s = 1..Len(s) /\ Len(s) \in Nat
  OBVIOUS
<1>2. ASSUME NEW k \in DOMAIN s, s[k].id = id, NEW j \in 1..(k - 1) PROVE s[j].id # id
  <2>1. j \in 1..Len(s) /\ k \in 1..Len(s) /\ j # k
    BY <1>1
  <2> QED BY <1>2, <2>1
<1>3. Kept(s, id) = DOMAIN s
  BY <1>2 DEF Kept
<1>4. DOMAIN s \ Kept(s, id) = {}
  BY <1>3
<1> QED BY <1>3, <1>4, PickAll, PickNone DEF Dedup, Duplicates

(* Taking out the first duplicate.                                         *)
OnceBefore(s, p, id) ==
    \A j, k \in 1..(p - 1) : s[j].id = id /\ s[k].id = id => j = k

LEMMA DuplicateOut ==
    ASSUME NEW S, NEW s \in Seq(S), NEW t \in Seq(S), NEW id,
           NEW p \in 1..Len(s), IsWithout(t, s, p), s[p].id = id,
           NEW q \in 1..(p - 1), s[q].id = id,
           OnceBefore(s, p, id)
    PROVE  /\ Dedup(t, id) = Dedup(s, id)
           /\ Duplicates(s, id) = <<s[p]>> \o Duplicates(t, id)
           /\ Duplicates(t, id) \in Seq(S)
<1> DEFINE f(k) == Before(p, k)
           K == Kept(t, id)    L == Kept(s, id)
           E == DOMAIN t \ K   D == DOMAIN s \ L
<1>1. /\ DOMAIN s = 1..Len(s) /\ DOMAIN t = 1..Len(t) /\ Len(s) \in Nat /\ Len(t) = Len(s) - 1
      /\ K \in SUBSET Nat /\ E \in SUBSET Nat /\ L \in SUBSET Nat /\ D \in SUBSET Nat
      /\ IsFiniteSet(K) /\ IsFiniteSet(E)
  BY KeptTyped DEF IsWithout
<1>2. ASSUME NEW k \in DOMAIN t
      PROVE  f(k) \in DOMAIN s /\ f(k) # p /\ s[f(k)] = t[k] /\ k \in Nat
  BY <1>1 DEF IsWithout, Before
<1>3. ASSUME NEW m \in DOMAIN s, m # p PROVE \E k \in DOMAIN t : f(k) = m
  <2>1. CASE m < p
    <3>1. m \in DOMAIN t /\ f(m) = m
      BY <1>1, <2>1 DEF Before
    <3> QED BY <3>1
  <2>2. CASE m > p
    <3>1. m - 1 \in DOMAIN t /\ f(m - 1) = m
      BY <1>1, <2>2 DEF Before
    <3> QED BY <3>1
  <2> QED BY <1>1, <1>3, <2>1, <2>2
<1>4. ASSUME NEW j \in DOMAIN t, NEW k \in DOMAIN t, j < k PROVE f(j) < f(k)
  BY <1>1, <1>4 DEF Before
<1>5. ASSUME NEW k \in DOMAIN t PROVE k \in K <=> f(k) \in L
  <2>1. CASE k < p
    <3>1. f(k) = k /\ k \in Nat
      BY <1>1, <2>1 DEF Before
    <3>2. \A j \in 1..k : t[j] = s[j]
      BY <1>1, <2>1 DEF IsWithout
    <3>3. k \in 1..k /\ \A j \in 1..(k - 1) : j \in 1..k
      BY <1>1
    <3>4. k \in K <=> (t[k].id = id => \A j \in 1..(k - 1) : t[j].id # id)
      BY DEF Kept
    <3>5. k \in L <=> (s[k].id = id => \A j \in 1..(k - 1) : s[j].id # id)
      BY <1>2, <3>1 DEF Kept
    <3> QED BY <3>1, <3>2, <3>3, <3>4, <3>5
  <2>2. CASE ~(k < p)
    <3>1. f(k) = k + 1 /\ k \in Nat /\ k + 1 \in DOMAIN s /\ t[k] = s[k + 1]
      BY <1>1, <1>2, <2>2 DEF Before
    <3>2. q \in 1..(k - 1) /\ q \in 1..k /\ t[q] = s[q]
      BY <1>1, <2>2 DEF IsWithout
    <3>3. t[q].id = id
      BY <3>2
    <3>4. k \in K <=> t[k].id # id
      BY <3>2, <3>3 DEF Kept
    <3>5. (k + 1) - 1 = k
      BY <3>1
    <3>6. k + 1 \in L <=> s[k + 1].id # id
      BY <3>1, <3>2, <3>5 DEF Kept
    <3> QED BY <3>1, <3>4, <3>6
  <2> QED BY <2>1, <2>2
<1>6. p \notin L
  BY DEF Kept
<1>7. Dedup(t, id) = Dedup(s, id)
  <2> DEFINE g == [k \in K |-> f(k)]
  <2>1. K \in SUBSET DOMAIN t /\ L \in SUBSET DOMAIN s
    BY DEF Kept
  <2>2. g \in [K -> L] /\ \A k \in K : g[k] = f(k)
    BY <1>5, <2>1
  <2>7. K \in SUBSET Nat /\ L \in SUBSET Nat /\ IsFiniteSet(K)
    BY <1>1
  <2> HIDE DEF f, g, K, L, E, D
  <2>3. \A j, k \in K : j < k => g[j] < g[k]
    BY <1>4, <2>1, <2>2
  <2>4. \A m \in L : \E k \in K : g[k] = m
    BY <1>3, <1>5, <1>6, <2>1, <2>2
  <2>5. \A k \in K : s[g[k]] = t[k]
    BY <1>2, <2>1, <2>2
  <2>6. Pick(t, K) = Pick(s, L)
    BY <2>2, <2>3, <2>4, <2>5, <2>7, PickSame
  <2> QED BY <2>6 DEF Dedup, K, L
<1>8. Pick(t, E) = Pick(s, D \ {p})
  <2> DEFINE M == D \ {p}  g == [k \in E |-> f(k)]
  <2>1. E \in SUBSET DOMAIN t /\ M \in SUBSET Nat
    BY <1>1
  <2>2. g \in [E -> M] /\ \A k \in E : g[k] = f(k)
    BY <1>2, <1>5, <2>1
  <2>4. \A m \in M : \E k \in E : g[k] = m
    <3> SUFFICES ASSUME NEW m \in M PROVE \E k \in E : g[k] = m
      OBVIOUS
    <3>1. PICK k \in DOMAIN t : f(k) = m
      BY <1>3
    <3>2. k \in E
      BY <1>5, <3>1
    <3> QED BY <2>2, <3>1, <3>2
  <2>7. IsFiniteSet(E) /\ E \in SUBSET Nat /\ M \in SUBSET Nat
    BY <1>1
  <2> HIDE DEF f, g, E, M, K, L, D
  <2>3. \A j, k \in E : j < k => g[j] < g[k]
    BY <1>4, <2>1, <2>2
  <2>5. \A k \in E : s[g[k]] = t[k]
    BY <1>2, <2>1, <2>2
  <2>6. Pick(t, E) = Pick(s, M)
    BY <2>2, <2>3, <2>4, <2>5, <2>7, PickSame
  <2> QED BY <2>6 DEF M
<1>9. p \in D /\ \A k \in D : p <= k
  <2>1. p \in D
    BY <1>1, <1>6
  <2>2. ASSUME NEW k \in D PROVE p <= k
    <3>1. PICK j \in 1..(k - 1) : s[j].id = id /\ s[k].id = id /\ k \in 1..Len(s)
      BY <1>1 DEF Kept
    <3>2. ASSUME k < p PROVE FALSE
      <4>1. j \in 1..(p - 1) /\ k \in 1..(p - 1) /\ j # k
        BY <1>1, <3>1, <3>2
      <4> QED BY <3>1, <4>1 DEF OnceBefore
    <3> QED BY <1>1, <3>1, <3>2
  <2> QED BY <2>1, <2>2
<1>10. D \subseteq 1..Len(s)
  OBVIOUS
<1> HIDE DEF D, E, K, L, f
<1>11. Pick(s, D) = <<s[p]>> \o Pick(s, D \ {p}) /\ Pick(s, D \ {p}) \in Seq(S)
  BY <1>9, <1>10, PickFirst
<1> QED BY <1>7, <1>8, <1>11 DEF Duplicates, D, E, K, L

-----------------------------------------------------------------------------
(* The bubble sort.                                                        *)
(* Every set of natural numbers that is not empty has a least one.         *)
LEMMA Least ==
    ASSUME NEW T \in SUBSET Nat, T # {}
    PROVE  \E x \in T : \A y \in T : x <= y
<1> DEFINE R == OpToRel(<, Nat)
<1>1. IsWellFoundedOn(R, Nat)
  BY ONLY NatLessThanWellFounded, Zenon
<1>2. PICK x \in T : \A y \in T : ~(<<y, x>> \in R)
  <2> HIDE DEF R
  <2> QED BY <1>1, WFMin
<1>3. ASSUME NEW y \in T PROVE x <= y
  <2>1. ~(<<y, x>> \in R)
    BY <1>2
  <2>2. ~(y < x)
    BY <2>1 DEF OpToRel
  <2> QED BY <2>2
<1> QED BY <1>3

(* Taking m steps from a value of S, one after the other.                  *)
IsRun(f, S, m, start, step) ==
    /\ f \in [0..m -> S]
    /\ f[0] = start
    /\ \A k \in 1..m : f[k] = step[<<k, f[k - 1]>>]

LEMMA RunExists ==
    ASSUME NEW S, NEW m \in Nat, NEW start \in S, NEW step \in [(1..m) \X S -> S]
    PROVE  \E f : IsRun(f, S, m, start, step)
<1> DEFINE T == {k \in 0..m : ~ \E f : IsRun(f, S, k, start, step)}
<1>1. SUFFICES ASSUME T # {} PROVE FALSE
  BY DEF T
<1>2. PICK x \in T : \A y \in T : x <= y
  <2>1. T \in SUBSET Nat
    OBVIOUS
  <2> HIDE DEF T
  <2> QED BY <1>1, <2>1, Least
<1>3. x \in Nat /\ x <= m /\ ~ \E f : IsRun(f, S, x, start, step)
  OBVIOUS
<1>4. CASE x = 0
  <2> DEFINE f == [k \in 0..0 |-> start]
  <2>1. IsRun(f, S, 0, start, step)
    BY DEF IsRun
  <2> QED BY <1>3, <1>4, <2>1
<1>5. CASE x # 0
  <2>1. x - 1 \in 0..m /\ ~(x <= x - 1)
    BY <1>3, <1>5
  <2>2. PICK f : IsRun(f, S, x - 1, start, step)
    BY <1>2, <2>1
  <2> DEFINE g == [k \in 0..x |-> IF k = x THEN step[<<x, f[x - 1]>>] ELSE f[k]]
  <2>3. f[x - 1] \in S /\ x \in 1..m
    BY <1>3, <1>5, <2>1, <2>2 DEF IsRun
  <2>4. step[<<x, f[x - 1]>>] \in S
    BY <2>3
  <2>5. \A k \in 0..x : k # x => k \in 0..(x - 1) /\ f[k] \in S
    BY <1>3, <2>2 DEF IsRun
  <2>6. g \in [0..x -> S]
    BY <2>4, <2>5
  <2>7. g[0] = start
    BY <1>3, <1>5, <2>2 DEF IsRun
  <2>8. ASSUME NEW k \in 1..x PROVE g[k] = step[<<k, g[k - 1]>>]
    <3>1. k \in 0..x /\ k - 1 \in 0..x /\ k - 1 # x
      BY <1>3
    <3>2. g[k - 1] = f[k - 1]
      BY <3>1
    <3>3. CASE k = x
      BY <3>1, <3>2, <3>3
    <3>4. CASE k # x
      <4>1. k \in 1..(x - 1)
        BY <1>3, <3>4
      <4> QED BY <2>2, <3>1, <3>2, <3>4, <4>1 DEF IsRun
    <3> QED BY <3>3, <3>4
  <2> HIDE DEF g
  <2>9. IsRun(g, S, x, start, step)
    BY <2>6, <2>7, <2>8 DEF IsRun
  <2> QED BY <1>3, <2>9
<1> QED BY <1>4, <1>5

LEMMA OrderLaws ==
    /\ \A a, b \in Row : OutOfOrder(a, b) => InOrder(b, a)
    /\ \A a, b \in Row : ~OutOfOrder(a, b) => InOrder(a, b)
    /\ \A a, b, c \in Row : InOrder(a, b) /\ InOrder(b, c) => InOrder(a, c)
<1>1. \A a \in Row : a.exp \in Nat /\ a.name \in Nat
  BY DEF Row
<1> QED BY <1>1 DEF OutOfOrder, InOrder

Rows(N) == [1..N -> Row]
SameRecords(t, s) == \A r : Occurrences(r, t) = Occurrences(r, s)

LEMMA SwapIs ==
    ASSUME NEW N \in Nat, NEW u \in Rows(N), NEW j \in 1..(N - 1)
    PROVE  LET v == SwapIfNeeded(u, j) IN
           /\ v \in Rows(N)
           /\ \A k \in 1..N : k # j /\ k # j + 1 => v[k] = u[k]
           /\ OutOfOrder(u[j], u[j + 1]) => v[j] = u[j + 1] /\ v[j + 1] = u[j]
           /\ ~OutOfOrder(u[j], u[j + 1]) => v = u
<1>1. j \in 1..N /\ j + 1 \in 1..N /\ j # j + 1
  OBVIOUS
<1>2. u[j] \in Row /\ u[j + 1] \in Row
  BY <1>1 DEF Rows
<1>3. CASE OutOfOrder(u[j], u[j + 1])
  <2> DEFINE v == [u EXCEPT ![j] = u[j + 1], ![j + 1] = u[j]]
  <2>1. v \in Rows(N)
    BY <1>1, <1>2 DEF Rows
  <2>2. v[j] = u[j + 1] /\ v[j + 1] = u[j]
    BY <1>1 DEF Rows
  <2>3. \A k \in 1..N : k # j /\ k # j + 1 => v[k] = u[k]
    BY <1>1 DEF Rows
  <2>4. SwapIfNeeded(u, j) = v
    BY <1>3 DEF SwapIfNeeded
  <2> HIDE DEF v
  <2> QED BY <1>3, <2>1, <2>2, <2>3, <2>4
<1>4. CASE ~OutOfOrder(u[j], u[j + 1])
  BY <1>4 DEF SwapIfNeeded
<1> QED BY <1>3, <1>4

LEMMA SwapKeeps ==
    ASSUME NEW N \in Nat, NEW u \in Rows(N), NEW j \in 1..(N - 1)
    PROVE  SameRecords(SwapIfNeeded(u, j), u)
<1> DEFINE v == SwapIfNeeded(u, j)
           w(k) == IF k = j THEN j + 1 ELSE IF k = j + 1 THEN j ELSE k
<1>1. /\ v \in Rows(N)
      /\ \A k \in 1..N : k # j /\ k # j + 1 => v[k] = u[k]
      /\ OutOfOrder(u[j], u[j + 1]) => v[j] = u[j + 1] /\ v[j + 1] = u[j]
      /\ ~OutOfOrder(u[j], u[j + 1]) => v = u
  BY SwapIs
<1> HIDE DEF v
<1>2. CASE ~OutOfOrder(u[j], u[j + 1])
  BY <1>1, <1>2 DEF SameRecords, v
<1>3. CASE OutOfOrder(u[j], u[j + 1])
  <2>1. ASSUME NEW k \in 1..N PROVE w(k) \in 1..N /\ v[w(k)] = u[k] /\ u[w(k)] = v[k] /\ w(w(k)) = k
    BY <1>1, <1>3
  <2>2. DOMAIN u = 1..N /\ DOMAIN v = 1..N
    BY <1>1 DEF Rows
  <2> HIDE DEF w
  <2>3. ASSUME NEW r PROVE Occurrences(r, v) = Occurrences(r, u)
    <3> DEFINE A == {k \in 1..N : u[k] = r}  B == {k \in 1..N : v[k] = r}
               f == [k \in A |-> w(k)]
    <3>1. f \in [A -> B]
      BY <2>1
    <3>2. \A x, y \in A : f[x] = f[y] => x = y
      BY <2>1
    <3>3. ASSUME NEW y \in B PROVE \E x \in A : f[x] = y
      <4>1. w(y) \in A /\ w(w(y)) = y
        BY <2>1
      <4> QED BY <4>1
    <3>4. IsFiniteSet(A)
      <4>1. IsFiniteSet(1..N)
        BY FS_Interval
      <4> QED BY <4>1, FS_Subset
    <3> HIDE DEF A, B, f
    <3>5. Cardinality(B) = Cardinality(A)
      BY <3>1, <3>2, <3>3, <3>4, SameSize
    <3> QED BY <2>2, <3>5 DEF Occurrences, A, B
  <2> QED BY <2>3 DEF SameRecords, v
<1> QED BY <1>2, <1>3

(* How far a pass over the first m + 1 records of s has come after b       *)
(* comparisons.                                                            *)
Carried(u, s, b, m, N) ==
    /\ u \in Rows(N)
    /\ SameRecords(u, s)
    /\ \A k \in 1..b : InOrder(u[k], u[b + 1])
    /\ \A k \in (b + 2)..N : u[k] = s[k]
    /\ \A k \in 1..(m + 1) : \E l \in 1..(m + 1) : u[k] = s[l]

LEMMA CarryOn ==
    ASSUME NEW N \in Nat, NEW s \in Rows(N), NEW m \in 0..(N - 1), NEW b \in 1..m,
           NEW u, Carried(u, s, b - 1, m, N)
    PROVE  Carried(SwapIfNeeded(u, b), s, b, m, N)
<1> DEFINE v == SwapIfNeeded(u, b)
<1>1. /\ b \in 1..(N - 1) /\ b \in Nat /\ (b - 1) + 1 = b /\ (b - 1) + 2 = b + 1 /\ N \in Nat /\ m \in Nat
      /\ b \in 1..N /\ b + 1 \in 1..N /\ b \in 1..(m + 1) /\ b + 1 \in 1..(m + 1)
  OBVIOUS
<1>2. /\ u \in Rows(N) /\ SameRecords(u, s)
      /\ \A k \in 1..(b - 1) : InOrder(u[k], u[b])
      /\ \A k \in (b + 1)..N : u[k] = s[k]
      /\ \A k \in 1..(m + 1) : \E l \in 1..(m + 1) : u[k] = s[l]
  BY <1>1 DEF Carried
<1>3. /\ v \in Rows(N)
      /\ \A k \in 1..N : k # b /\ k # b + 1 => v[k] = u[k]
      /\ OutOfOrder(u[b], u[b + 1]) => v[b] = u[b + 1] /\ v[b + 1] = u[b]
      /\ ~OutOfOrder(u[b], u[b + 1]) => v = u
  BY <1>1, <1>2, SwapIs
<1>4. SameRecords(v, s)
  <2>1. SameRecords(v, u)
    BY <1>1, <1>2, SwapKeeps
  <2> QED BY <1>2, <2>1 DEF SameRecords
<1> HIDE DEF v
<1>5. \A k \in 1..N : u[k] \in Row
  BY <1>2 DEF Rows
<1>6. ASSUME NEW k \in 1..b PROVE InOrder(v[k], v[b + 1])
  <2>1. k \in 1..N /\ k # b + 1 /\ (k # b => k \in 1..(b - 1))
    BY <1>1
  <2>2. CASE OutOfOrder(u[b], u[b + 1])
    <3>1. CASE k = b
      <4>1. InOrder(u[b + 1], u[b])
        BY <1>1, <1>5, <2>2, OrderLaws
      <4> QED BY <1>3, <2>2, <3>1, <4>1
    <3>2. CASE k # b
      BY <1>2, <1>3, <2>1, <2>2, <3>2
    <3> QED BY <3>1, <3>2
  <2>3. CASE ~OutOfOrder(u[b], u[b + 1])
    <3>1. InOrder(u[b], u[b + 1])
      BY <1>1, <1>5, <2>3, OrderLaws
    <3>2. CASE k = b
      BY <1>3, <2>3, <3>1, <3>2
    <3>3. CASE k # b
      <4>1. InOrder(u[k], u[b])
        BY <1>2, <2>1, <3>3
      <4>2. InOrder(u[k], u[b + 1])
        BY <1>1, <1>5, <2>1, <3>1, <4>1, OrderLaws
      <4> QED BY <1>3, <2>3, <4>2
    <3> QED BY <3>2, <3>3
  <2> QED BY <2>2, <2>3
<1>7. ASSUME NEW k \in (b + 2)..N PROVE v[k] = s[k]
  <2>1. k \in 1..N /\ k # b /\ k # b + 1 /\ k \in (b + 1)..N
    BY <1>1
  <2> QED BY <1>2, <1>3, <2>1
<1>8. ASSUME NEW k \in 1..(m + 1) PROVE \E l \in 1..(m + 1) : v[k] = s[l]
  <2>1. k \in 1..N
    BY <1>1
  <2>2. \E x \in 1..(m + 1) : v[k] = u[x]
    BY <1>1, <1>3, <2>1
  <2> QED BY <1>2, <2>2
<1> QED BY <1>3, <1>4, <1>6, <1>7, <1>8 DEF Carried, v
(* A run is what a recursive definition of the same steps computes.        *)
Follows(h, S, m, start, step) ==
    /\ h[0] = start
    /\ \A k \in 1..m : h[k - 1] \in S => h[k] = step[<<k, h[k - 1]>>]

LEMMA RunIsRecursion ==
    ASSUME NEW S, NEW m \in Nat, NEW start, NEW step,
           NEW f, IsRun(f, S, m, start, step), NEW h, Follows(h, S, m, start, step)
    PROVE  \A k \in 0..m : h[k] = f[k]
<1> DEFINE T == {k \in 0..m : h[k] # f[k]}
<1>1. SUFFICES ASSUME T # {} PROVE FALSE
  BY DEF T
<1>2. PICK x \in T : \A y \in T : x <= y
  <2>1. T \in SUBSET Nat
    OBVIOUS
  <2> HIDE DEF T
  <2> QED BY <1>1, <2>1, Least
<1>3. x \in 0..m /\ h[x] # f[x]
  OBVIOUS
<1>4. x # 0
  BY <1>3 DEF IsRun, Follows
<1>5. x - 1 \in 0..m /\ x \in 1..m /\ ~(x <= x - 1)
  BY <1>3, <1>4
<1>6. h[x - 1] = f[x - 1]
  BY <1>2, <1>5
<1>7. f[x - 1] \in S
  BY <1>5 DEF IsRun
<1>8. h[x] = step[<<x, h[x - 1]>>] /\ f[x] = step[<<x, f[x - 1]>>]
  BY <1>5, <1>6, <1>7 DEF IsRun, Follows
<1> QED BY <1>3, <1>6, <1>8

LEMMA PassRuns ==
    ASSUME NEW N \in Nat, NEW s \in Rows(N), NEW m \in 0..(N - 1)
    PROVE  \E f : /\ f[0] = s /\ Pass(s, m) = f[m]
                  /\ \A j \in 1..m : f[j - 1] \in Rows(N) /\ f[j] = SwapIfNeeded(f[j - 1], j)
<1> DEFINE S == Rows(N)
           step == [x \in (1..m) \X S |-> SwapIfNeeded(x[2], x[1])]
           swapped(j) == [t \in Seq(Row) |-> SwapIfNeeded(t, j)]
           eq(g) == [j \in 0..m |-> IF j = 0 THEN s ELSE swapped(j)[g[j - 1]]]
           h == CHOOSE g : g = eq(g)
<1>0. m \in Nat
  OBVIOUS
<1>1. step \in [(1..m) \X S -> S] /\ \A j \in 1..m, u \in S : step[<<j, u>>] = SwapIfNeeded(u, j)
  <2>1. ASSUME NEW u \in S, NEW j \in 1..m PROVE SwapIfNeeded(u, j) \in S
    <3>1. j \in 1..(N - 1)
      OBVIOUS
    <3> QED BY <3>1, SwapIs
  <2> HIDE DEF S
  <2> QED BY <2>1
<1>a. \A u \in S, j \in 1..m : swapped(j)[u] = SwapIfNeeded(u, j)
  <2>1. \A u \in S : u \in Seq(Row)
    BY DEF Rows
  <2> QED BY <1>0, <2>1
<1> HIDE DEF step, S, swapped
<1>2. PICK f : IsRun(f, S, m, s, step)
  BY <1>0, <1>1, RunExists DEF S
<1>3. /\ f \in [0..m -> S] /\ f[0] = s
      /\ \A j \in 1..m : f[j - 1] \in S /\ f[j] = SwapIfNeeded(f[j - 1], j)
  <2>1. f \in [0..m -> S] /\ f[0] = s /\ \A j \in 1..m : f[j] = step[<<j, f[j - 1]>>]
    BY <1>2 DEF IsRun
  <2>2. ASSUME NEW j \in 1..m PROVE f[j - 1] \in S
    <3>1. j - 1 \in 0..m
      BY <1>0
    <3> QED BY <2>1, <3>1
  <2> QED BY <1>1, <2>1, <2>2
<1>4. f = eq(f)
  <2>1. \A j \in 0..m : j # 0 => j \in 1..m
    BY <1>0
  <2>2. \A j \in 0..m : f[j] = IF j = 0 THEN s ELSE swapped(j)[f[j - 1]]
    BY <1>3, <1>a, <2>1
  <2> QED BY <1>3, <2>2
<1>5. h = eq(h)
  <2> HIDE DEF eq
  <2> QED BY <1>4
<1>6. Pass(s, m) = h[m]
  BY DEF Pass, swapped
<1> HIDE DEF h
<1>7. h[0] = s /\ \A j \in 1..m : h[j] = swapped(j)[h[j - 1]]
  BY <1>0, <1>5
<1>8. \A j \in 0..m : h[j] = f[j]
  <2>1. \A j \in 1..m : h[j - 1] \in S => h[j] = step[<<j, h[j - 1]>>]
    BY <1>1, <1>7, <1>a
  <2> HIDE DEF eq
  <2>2. Follows(h, S, m, s, step)
    BY <1>7, <2>1 DEF Follows
  <2> QED BY <1>0, <1>2, <2>2, RunIsRecursion
<1>9. Pass(s, m) = f[m]
  BY <1>0, <1>6, <1>8
<1> QED BY <1>3, <1>9 DEF S

(* What a pass does.                                                       *)
LEMMA PassCarries ==
    ASSUME NEW N \in Nat, NEW s \in Rows(N), NEW m \in 0..(N - 1)
    PROVE  Carried(Pass(s, m), s, m, m, N)
<1>1. PICK f : /\ f[0] = s /\ Pass(s, m) = f[m]
               /\ \A j \in 1..m : f[j - 1] \in Rows(N) /\ f[j] = SwapIfNeeded(f[j - 1], j)
  BY PassRuns
<1> DEFINE T == {b \in 0..m : ~Carried(f[b], s, b, m, N)}
<1>2. SUFFICES ASSUME T # {} PROVE FALSE
  BY <1>1 DEF T
<1>3. PICK x \in T : \A y \in T : x <= y
  <2>1. T \in SUBSET Nat
    OBVIOUS
  <2> HIDE DEF T
  <2> QED BY <1>2, <2>1, Least
<1>4. x \in 0..m /\ ~Carried(f[x], s, x, m, N)
  OBVIOUS
<1>5. CASE x = 0
  <2>1. SameRecords(s, s)
    BY DEF SameRecords
  <2>2. Carried(s, s, 0, m, N)
    BY <2>1 DEF Carried
  <2> QED BY <1>1, <1>4, <1>5, <2>2
<1>6. CASE x # 0
  <2>1. x - 1 \in 0..m /\ x \in 1..m /\ ~(x <= x - 1)
    BY <1>4, <1>6
  <2>2. Carried(f[x - 1], s, x - 1, m, N)
    BY <1>3, <2>1
  <2>3. Carried(SwapIfNeeded(f[x - 1], x), s, x, m, N)
    BY <2>1, <2>2, CarryOn
  <2> QED BY <1>1, <1>4, <2>1, <2>3
<1> QED BY <1>5, <1>6

(* After a passes the last a records are where they belong.                *)
Settled(u, s, a, N) ==
    /\ u \in Rows(N)
    /\ SameRecords(u, s)
    /\ \A j, k \in 1..N : j < k /\ k > N - a => InOrder(u[j], u[k])

LEMMA PassSettles ==
    ASSUME NEW N \in Nat, NEW s, NEW a \in 1..N, NEW u, Settled(u, s, a - 1, N)
    PROVE  Settled(Pass(u, N - a), s, a, N)
<1> DEFINE m == N - a  v == Pass(u, m)
<1>1. m \in 0..(N - 1) /\ m \in Nat /\ N - (a - 1) = m + 1 /\ m + 1 \in 1..N
  OBVIOUS
<1>2. /\ u \in Rows(N) /\ SameRecords(u, s)
      /\ \A j, k \in 1..N : j < k /\ k > m + 1 => InOrder(u[j], u[k])
  BY <1>1 DEF Settled
<1>3. Carried(v, u, m, m, N)
  BY <1>1, <1>2, PassCarries
<1> HIDE DEF v, m
<1>4. /\ v \in Rows(N) /\ SameRecords(v, u)
      /\ \A k \in 1..m : InOrder(v[k], v[m + 1])
      /\ \A k \in (m + 2)..N : v[k] = u[k]
      /\ \A k \in 1..(m + 1) : \E l \in 1..(m + 1) : v[k] = u[l]
  BY <1>3 DEF Carried
<1>5. ASSUME NEW j \in 1..N, NEW k \in 1..N, j < k, k > m PROVE InOrder(v[j], v[k])
  <2>1. CASE k = m + 1
    <3>1. j \in 1..m
      BY <1>1, <1>5, <2>1
    <3> QED BY <1>4, <2>1, <3>1
  <2>2. CASE k # m + 1
    <3>1. k \in (m + 2)..N /\ k > m + 1
      BY <1>1, <1>5, <2>2
    <3>2. v[k] = u[k]
      BY <1>4, <3>1
    <3>3. CASE j > m + 1
      <4>1. j \in (m + 2)..N
        BY <1>1, <3>3
      <4>2. v[j] = u[j]
        BY <1>4, <4>1
      <4> QED BY <1>2, <1>5, <3>1, <3>2, <4>2
    <3>4. CASE ~(j > m + 1)
      <4>1. j \in 1..(m + 1)
        BY <1>1, <3>4
      <4>2. PICK l \in 1..(m + 1) : v[j] = u[l]
        BY <1>4, <4>1
      <4>3. l \in 1..N /\ l < k
        BY <1>1, <3>1
      <4> QED BY <1>2, <3>1, <3>2, <4>2, <4>3
    <3> QED BY <3>3, <3>4
  <2> QED BY <2>1, <2>2
<1>6. SameRecords(v, s)
  BY <1>2, <1>4 DEF SameRecords
<1>7. Settled(v, s, a, N)
  BY <1>4, <1>5, <1>6 DEF Settled, m
<1> QED BY <1>7 DEF v, m

LEMMA SortRuns ==
    ASSUME NEW N, N \in Nat, NEW s \in Rows(N), Len(s) = N
    PROVE  \E f : /\ f[0] = s /\ BubbleSort(s) = f[N]
                  /\ \A a \in 1..N : f[a - 1] \in Rows(N) /\ f[a] = Pass(f[a - 1], N - a)
<1> DEFINE S == Rows(N)
           step == [x \in (1..N) \X S |-> Pass(x[2], N - x[1])]
           eq(g) == [a \in 0..N |-> IF a = 0 THEN s ELSE Pass(g[a - 1], N - a)]
           h == CHOOSE g : g = eq(g)
<1>1. step \in [(1..N) \X S -> S] /\ \A a \in 1..N, u \in S : step[<<a, u>>] = Pass(u, N - a)
  <2>1. ASSUME NEW u \in S, NEW a \in 1..N PROVE Pass(u, N - a) \in S
    <3>1. N - a \in 0..(N - 1)
      OBVIOUS
    <3> QED BY <3>1, PassCarries DEF Carried
  <2> HIDE DEF S
  <2> QED BY <2>1
<1> HIDE DEF step, S
<1>2. PICK f : IsRun(f, S, N, s, step)
  BY <1>1, RunExists DEF S
<1>3. /\ f \in [0..N -> S] /\ f[0] = s
      /\ \A a \in 1..N : f[a - 1] \in S /\ f[a] = Pass(f[a - 1], N - a)
  <2>1. f \in [0..N -> S] /\ f[0] = s /\ \A a \in 1..N : f[a] = step[<<a, f[a - 1]>>]
    BY <1>2 DEF IsRun
  <2>2. ASSUME NEW a \in 1..N PROVE f[a - 1] \in S
    <3>1. a - 1 \in 0..N
      OBVIOUS
    <3> QED BY <2>1, <3>1
  <2> QED BY <1>1, <2>1, <2>2
<1>4. f = eq(f)
  <2>1. \A a \in 0..N : a # 0 => a \in 1..N
    OBVIOUS
  <2>2. \A a \in 0..N : f[a] = IF a = 0 THEN s ELSE Pass(f[a - 1], N - a)
    BY <1>3, <2>1
  <2> QED BY <1>3, <2>2
<1>5. h = eq(h)
  <2> HIDE DEF eq
  <2> QED BY <1>4
<1>6. BubbleSort(s) = h[N]
  <2>1. BubbleSort(s) =
          (CHOOSE g : g = [a \in 0..Len(s) |-> IF a = 0 THEN s ELSE Pass(g[a - 1], Len(s) - a)])[Len(s)]
    BY DEF BubbleSort
  <2> QED BY <2>1
<1> HIDE DEF h
<1>7. h[0] = s /\ \A a \in 1..N : h[a] = Pass(h[a - 1], N - a)
  BY <1>5
<1>8. \A a \in 0..N : h[a] = f[a]
  <2>1. \A a \in 1..N : h[a - 1] \in S => h[a] = step[<<a, h[a - 1]>>]
    BY <1>1, <1>7
  <2> HIDE DEF eq
  <2>2. Follows(h, S, N, s, step)
    BY <1>7, <2>1 DEF Follows
  <2> QED BY <1>2, <2>2, RunIsRecursion
<1>9. BubbleSort(s) = f[N]
  BY <1>6, <1>8
<1> QED BY <1>3, <1>9 DEF S

(* The bubble sort of a display lists the records it is given, in order.   *)
LEMMA BubbleSortSorts ==
    ASSUME NEW s \in Seq(Row)
    PROVE  IsSortedReport(BubbleSort(s), s)
<1> DEFINE N == Len(s)  t == BubbleSort(s)
<1>1. N \in Nat /\ s \in Rows(N)
  BY DEF Rows
<1> HIDE DEF N
<1>2. PICK f : /\ f[0] = s /\ t = f[N]
               /\ \A a \in 1..N : f[a - 1] \in Rows(N) /\ f[a] = Pass(f[a - 1], N - a)
  BY <1>1, SortRuns DEF N
<1> HIDE DEF t
<1>3. Settled(f[N], s, N, N)
  <2> DEFINE T == {a \in 0..N : ~Settled(f[a], s, a, N)}
  <2>1. SUFFICES ASSUME T # {} PROVE FALSE
    BY <1>1 DEF T
  <2>2. PICK x \in T : \A y \in T : x <= y
    <3>1. T \in SUBSET Nat
      OBVIOUS
    <3> HIDE DEF T
    <3> QED BY <2>1, <3>1, Least
  <2>3. x \in 0..N /\ ~Settled(f[x], s, x, N)
    OBVIOUS
  <2>4. CASE x = 0
    <3>1. Settled(s, s, 0, N)
      BY <1>1 DEF Settled, SameRecords
    <3> QED BY <1>2, <2>3, <2>4, <3>1
  <2>5. CASE x # 0
    <3>1. x - 1 \in 0..N /\ x \in 1..N /\ ~(x <= x - 1)
      BY <1>1, <2>3, <2>5
    <3>2. Settled(f[x - 1], s, x - 1, N)
      BY <2>2, <3>1
    <3>3. Settled(Pass(f[x - 1], N - x), s, x, N)
      BY <1>1, <3>1, <3>2, PassSettles
    <3> QED BY <1>2, <2>3, <3>1, <3>3
  <2> QED BY <2>4, <2>5
<1>4. t \in Rows(N) /\ SameRecords(t, s) /\ \A j, k \in 1..N : j < k => InOrder(t[j], t[k])
  <2>1. \A k \in 1..N : k > N - N
    BY <1>1
  <2> QED BY <1>2, <1>3, <2>1 DEF Settled
<1>5. DOMAIN t = 1..N
  BY <1>4 DEF Rows
<1>6. IsSortedReport(t, s)
  BY <1>4, <1>5 DEF IsSortedReport, SameRecords
<1> QED BY <1>6 DEF t

-----------------------------------------------------------------------------
(* The refinement: what AbstractRecords, AbstractOp, dupFile and reply do  *)
(* is a behaviour of EmployeeDB.                                           *)
(* What a child's variables hold at its place in handle_client: how far    *)
(* its copy of the database is, and that removed counts its stdio buffer.  *)
ProgressOf(c) ==
    /\ pc[c] = "scan" /\ seen[c] => \E j \in 0..(i[c] - 1) : HasId(j, req[c].id)
    /\ pc[c] \in {"wait", "read"} => i[c] = 0 /\ temp[c] = <<>>
    /\ pc[c] = "copy" =>
          /\ n[c] = count /\ i[c] <= count /\ Len(temp[c]) = i[c]
          /\ \A k \in 1..i[c] : temp[c][k] = db[k - 1]
    /\ pc[c] \notin {"scan", "post", "close"} => buf[c] = <<>>
    /\ pc[c] = "post" /\ req[c].kind # "R" => buf[c] = <<>>
    /\ pc[c] \notin {"recv", "send", "exit"} => removed[c] = Len(buf[c])

RefInv == /\ RemovalInv /\ CountRead
          /\ \A c \in Child : ProgressOf(c)
          /\ DOMAIN reply = Child /\ reply = [c \in Child |-> reply[c]]

(* What the step of one child leaves alone of another.                     *)
SameFor(d) ==
    /\ pc'[d] = pc[d] /\ req'[d] = req[d] /\ n'[d] = n[d] /\ i'[d] = i[d]
    /\ seen'[d] = seen[d] /\ removed'[d] = removed[d] /\ temp'[d] = temp[d] /\ buf'[d] = buf[d]

LEMMA OthersStay ==
    ASSUME Inv, NEW c \in Child, Handle(c), NEW d \in Child, d # c
    PROVE  SameFor(d) /\ (pc[d] \in Critical => UNCHANGED <<db, count>>)
<1> USE DEF Inv, TypeOK, LocalsTypeOK, SameFor
<1>1. CASE Recv(c)
  BY <1>1 DEF Recv, At, Goto, memory
<1>2. CASE Disconnected(c)
  BY <1>2 DEF Disconnected, At, Goto, memory, locals
<1>3. CASE Wait(c)
  BY <1>3 DEF Wait, At, Goto, locals
<1>4. CASE ReadCount(c)
  BY <1>4 DEF ReadCount, At, Goto, memory
<1>5. CASE Store(c)
  <2>1. pc[d] \notin Critical
    BY <1>5 DEF Store, At, MutualExclusion, Critical
  <2> QED BY <1>5, <2>1 DEF Store, At, Goto, locals
<1>6. CASE ScanOther(c)
  BY <1>6 DEF ScanOther, memory
<1>7. CASE ScanFirst(c)
  BY <1>7 DEF ScanFirst, memory
<1>8. CASE ScanDuplicate(c)
  <2>1. pc[d] \notin Critical
    BY <1>8 DEF ScanDuplicate, At, MutualExclusion, Critical
  <2> QED BY <1>8, <2>1 DEF ScanDuplicate
<1>9. CASE ScanEnd(c)
  BY <1>9 DEF ScanEnd, At, Goto, memory, locals
<1>10. CASE CopyNext(c)
  BY <1>10 DEF CopyNext, memory
<1>11. CASE CopyEnd(c)
  BY <1>11 DEF CopyEnd, At, Goto, memory, locals
<1>12. CASE Post(c)
  BY <1>12 DEF Post, At, Goto, locals
<1>13. CASE CloseFile(c)
  BY <1>13 DEF CloseFile, At, Goto, memory
<1>14. CASE Send(c)
  BY <1>14 DEF Send, At, Goto, memory, locals
<1> QED
  BY <1>1, <1>2, <1>3, <1>4, <1>5, <1>6, <1>7, <1>8, <1>9, <1>10, <1>11,
     <1>12, <1>13, <1>14 DEF Handle

LEMMA ProgressFrame ==
    ASSUME NEW d \in Child, ProgressOf(d), SameFor(d),
           pc[d] \in Critical => UNCHANGED <<db, count>>
    PROVE  ProgressOf(d)'
<1> USE DEF SameFor, ProgressOf
<1>1. CASE pc[d] \in {"scan", "copy"}
  <2>1. UNCHANGED <<db, count>>
    BY <1>1 DEF Critical
  <2> QED BY <2>1 DEF HasId
<1>2. CASE pc[d] \notin {"scan", "copy"}
  BY <1>2
<1> QED BY <1>1, <1>2

(* The child's own steps.                                                  *)
LEMMA OwnProgress ==
    ASSUME RefInv, TypeOK', NEW c \in Child, Handle(c)
    PROVE  ProgressOf(c)'
<1> USE DEF RefInv, RemovalInv, Inv, TypeOK, LocalsTypeOK
<1>0. ProgressOf(c) /\ c \in Child
  OBVIOUS
<1>1. CASE Recv(c)
  <2>1. /\ pc[c] = "recv" /\ pc'[c] = "wait" /\ buf'[c] = <<>> /\ i'[c] = 0
        /\ temp'[c] = <<>> /\ removed'[c] = 0
    BY <1>0, <1>1 DEF Recv, At, Goto, ProgressOf
  <2> QED BY <2>1 DEF ProgressOf
<1>2. CASE Disconnected(c)
  <2>1. pc'[c] = "exit" /\ buf'[c] = <<>>
    BY <1>0, <1>2 DEF Disconnected, At, Goto, ProgressOf, locals
  <2> QED BY <2>1 DEF ProgressOf
<1>3. CASE Wait(c)
  <2>1. /\ pc[c] = "wait" /\ pc'[c] \in {"scan", "read"} /\ buf'[c] = <<>> /\ i'[c] = 0
        /\ temp'[c] = <<>> /\ removed'[c] = 0 /\ ~seen'[c]
    BY <1>0, <1>3 DEF Wait, At, Goto, ProgressOf, locals, RequestFits
  <2> QED BY <2>1 DEF ProgressOf
<1>4. CASE ReadCount(c)
  <2>1. /\ pc[c] = "read" /\ pc'[c] \in {"write", "copy"} /\ buf'[c] = <<>> /\ i'[c] = 0
        /\ temp'[c] = <<>> /\ removed'[c] = Len(buf'[c]) /\ n'[c] = count' /\ count' \in Nat
    BY <1>0, <1>4, MaxEmpAssumption DEF ReadCount, At, Goto, ProgressOf, memory, MemoryTypeOK
  <2> QED BY <2>1 DEF ProgressOf
<1>5. CASE Store(c)
  <2>1. pc[c] = "write" /\ pc'[c] = "post" /\ buf'[c] = <<>> /\ removed'[c] = Len(buf'[c])
    BY <1>0, <1>5 DEF Store, At, Goto, ProgressOf, locals
  <2> QED BY <2>1 DEF ProgressOf
<1>6. CASE ScanOther(c)
  <2>1. /\ pc[c] = "scan" /\ pc'[c] = "scan" /\ i'[c] = i[c] + 1 /\ i[c] \in Nat
        /\ UNCHANGED <<db, count, req, seen, removed, buf>>
    BY <1>6, MaxEmpAssumption DEF ScanOther, At, memory
  <2>2. seen[c] => \E j \in 0..i[c] : HasId(j, req[c].id)
    BY <1>0, <2>1 DEF ProgressOf
  <2>3. seen'[c] => \E j \in 0..(i'[c] - 1) : HasId(j, req[c].id)'
    BY <2>1, <2>2 DEF HasId
  <2>4. removed'[c] = Len(buf'[c])
    BY <1>0, <2>1 DEF ProgressOf
  <2> QED BY <2>1, <2>3, <2>4 DEF ProgressOf, HasId
<1>7. CASE ScanFirst(c)
  <2>1. /\ pc[c] = "scan" /\ pc'[c] = "scan" /\ i'[c] = i[c] + 1 /\ i[c] \in Nat
        /\ UNCHANGED <<db, count, req, removed, buf>> /\ HasId(i[c], req[c].id)
    BY <1>7, MaxEmpAssumption DEF ScanFirst, At, memory, IsTarget, HasId
  <2>2. i[c] \in 0..(i'[c] - 1)
    BY <2>1
  <2>3. \E j \in 0..(i'[c] - 1) : HasId(j, req[c].id)'
    BY <2>1, <2>2 DEF HasId
  <2>4. removed'[c] = Len(buf'[c])
    BY <1>0, <2>1 DEF ProgressOf
  <2> QED BY <2>1, <2>3, <2>4 DEF ProgressOf, HasId
<1>8. CASE ScanDuplicate(c)
  <2>1. /\ pc[c] = "scan" /\ pc'[c] = "scan" /\ i'[c] = i[c] /\ i[c] \in Nat /\ seen[c] /\ i[c] < count
        /\ UNCHANGED <<req, seen>> /\ db' = ShiftedLeft(i[c])
    BY <1>8, MaxEmpAssumption DEF ScanDuplicate, At
  <2>2. PICK j \in 0..(i[c] - 1) : HasId(j, req[c].id)
    BY <1>0, <2>1 DEF ProgressOf
  <2>3. j \in Slot /\ j < i[c]
    BY <2>1, MaxEmpAssumption DEF Slot, MemoryTypeOK
  <2>4. db'[j] = db[j]
    BY <2>1, <2>3 DEF ShiftedLeft
  <2>5. \E k \in 0..(i'[c] - 1) : HasId(k, req[c].id)'
    BY <2>1, <2>2, <2>4 DEF HasId
  <2>6. removed'[c] = Len(buf'[c])
    <3>1. removed[c] = Len(buf[c]) /\ buf[c] \in Seq(Row)
      BY <1>0, <2>1 DEF ProgressOf
    <3>2. buf'[c] = Append(buf[c], db[i[c]]) /\ removed'[c] = removed[c] + 1
      BY <1>8 DEF ScanDuplicate
    <3>3. Len(Append(buf[c], db[i[c]])) = Len(buf[c]) + 1
      BY <3>1
    <3> QED BY <3>1, <3>2, <3>3
  <2> QED BY <2>1, <2>5, <2>6 DEF ProgressOf, HasId
<1>9. CASE ScanEnd(c)
  <2>1. /\ pc[c] = "scan" /\ pc'[c] = "post" /\ UNCHANGED <<req, buf, removed>> /\ req[c].kind = "R"
    BY <1>9 DEF ScanEnd, At, Goto, locals, RequestFits
  <2> QED BY <1>0, <2>1 DEF ProgressOf
<1>10. CASE CopyNext(c)
  <2>1. /\ pc[c] = "copy" /\ pc'[c] = "copy" /\ i'[c] = i[c] + 1 /\ i[c] \in Nat /\ count \in Nat
        /\ UNCHANGED <<db, count, req, n, removed, buf>> /\ i[c] < n[c] /\ n[c] = count
        /\ temp'[c] = Append(temp[c], db[i[c]])
    BY <1>0, <1>10, MaxEmpAssumption DEF CopyNext, At, memory, ProgressOf, MemoryTypeOK
  <2>2. temp[c] \in Seq(Row) /\ Len(temp[c]) = i[c] /\ \A k \in 1..i[c] : temp[c][k] = db[k - 1]
    BY <1>0, <2>1 DEF ProgressOf
  <2>3. /\ Len(temp'[c]) = i[c] + 1 /\ temp'[c][i[c] + 1] = db[i[c]]
        /\ \A k \in 1..i[c] : temp'[c][k] = temp[c][k]
    BY <2>1, <2>2
  <2>4. ASSUME NEW k \in 1..(i[c] + 1) PROVE temp'[c][k] = db[k - 1]
    <3>1. CASE k \in 1..i[c]
      BY <2>2, <2>3, <3>1
    <3>2. CASE k = i[c] + 1
      <4>1. k - 1 = i[c]
        BY <2>1, <3>2
      <4> QED BY <2>3, <3>2, <4>1
    <3>3. k \in 1..i[c] \/ k = i[c] + 1
      <4>1. i[c] \in Nat
        BY <2>1
      <4> QED BY <4>1
    <3> QED BY <3>1, <3>2, <3>3
  <2>5. buf'[c] = <<>> /\ removed'[c] = Len(buf'[c])
    BY <1>0, <2>1 DEF ProgressOf
  <2>6. i'[c] <= count
    BY <2>1
  <2> QED BY <2>1, <2>3, <2>4, <2>5, <2>6 DEF ProgressOf
<1>11. CASE CopyEnd(c)
  <2>1. pc[c] = "copy" /\ pc'[c] = "post" /\ UNCHANGED <<buf, removed>>
    BY <1>11 DEF CopyEnd, At, Goto, locals
  <2> QED BY <1>0, <2>1 DEF ProgressOf
<1>12. CASE Post(c)
  <2>1. /\ pc[c] = "post" /\ pc'[c] = (IF req[c].kind = "R" THEN "close" ELSE "send")
        /\ UNCHANGED <<buf, removed, req>>
    BY <1>12 DEF Post, At, Goto, locals
  <2> QED BY <1>0, <2>1 DEF ProgressOf
<1>13. CASE CloseFile(c)
  <2>1. pc'[c] = "send" /\ buf'[c] = <<>>
    BY <1>13 DEF CloseFile, At, Goto
  <2> QED BY <2>1 DEF ProgressOf
<1>14. CASE Send(c)
  <2>1. pc[c] = "send" /\ pc'[c] \in {"recv", "exit"} /\ UNCHANGED buf
    BY <1>14 DEF Send, At, Goto, locals
  <2> QED BY <1>0, <2>1 DEF ProgressOf
<1> QED
  BY <1>1, <1>2, <1>3, <1>4, <1>5, <1>6, <1>7, <1>8, <1>9, <1>10, <1>11,
     <1>12, <1>13, <1>14 DEF Handle

LEMMA HandleOrNot ==
    ASSUME Inv, [Next]_vars
    PROVE  \/ \E c \in Child : Handle(c)
           \/ UNCHANGED <<memory, pc, locals, dupFile, reply>>
<1>1. ASSUME NEW c \in Child, \/ \E r \in Request : SendRequest(c, r)
                              \/ HangUp(c) \/ Kill(c)
      PROVE  UNCHANGED <<memory, pc, locals, dupFile, reply>>
  BY <1>1 DEF SendRequest, HangUp, Kill
<1>2. CASE ThirdClient \/ UNCHANGED vars
  BY <1>2 DEF ThirdClient, vars
<1> QED BY <1>1, <1>2 DEF Next

LEMMA ReplyNext ==
    ASSUME RefInv, NEW c \in Child, Handle(c)
    PROVE  reply' = reply \/ reply' = [reply EXCEPT ![c] = Response(c)]
BY DEF Handle, Recv, Disconnected, Wait, ReadCount, Store, ScanOther, ScanFirst,
       ScanDuplicate, ScanEnd, CopyNext, CopyEnd, Post, CloseFile, Send

LEMMA RefNext == ASSUME RefInv, [Next]_vars PROVE RefInv'
<1> USE DEF RefInv
<1>1. RemovalInv'
  BY TypeNext, RequestNext, MutexNext, RemovalNext DEF RemovalInv, Inv
<1>2. CountRead'
  BY CountReadNext DEF RemovalInv
<1>3. TypeOK'
  BY <1>1 DEF RemovalInv, Inv
<1>4. CASE \E c \in Child : Handle(c)
  <2>1. PICK c \in Child : Handle(c)
    BY <1>4
  <2>2. ProgressOf(c)'
    BY <1>3, <2>1, OwnProgress
  <2>3. ASSUME NEW d \in Child, d # c PROVE ProgressOf(d)'
    <3>1. SameFor(d) /\ (pc[d] \in Critical => UNCHANGED <<db, count>>)
      BY <2>1, <2>3, OthersStay DEF RemovalInv
    <3> QED BY <3>1, ProgressFrame
  <2>4. \A d \in Child : ProgressOf(d)'
    BY <2>2, <2>3
  <2>5. DOMAIN reply' = Child /\ reply' = [d \in Child |-> reply'[d]]
    BY <2>1, ReplyNext
  <2> QED BY <1>1, <1>2, <2>4, <2>5
<1>5. CASE UNCHANGED <<memory, pc, locals, dupFile, reply>>
  <2>1. ASSUME NEW d \in Child PROVE ProgressOf(d)'
    <3>1. SameFor(d) /\ UNCHANGED <<db, count>>
      BY <1>5 DEF SameFor, memory, locals
    <3> QED BY <3>1, ProgressFrame
  <2> QED BY <1>1, <1>2, <1>5, <2>1
<1> QED BY <1>4, <1>5, HandleOrNot DEF RemovalInv

LEMMA RefInit == Init => RefInv
<1> SUFFICES ASSUME Init PROVE RefInv
  OBVIOUS
<1>1. RemovalInv
  BY InitInv DEF RemovalInv, Init, ScannedPrefix, RemovalLeavesOne
<1>2. CountRead
  BY DEF Init, CountRead
<1>3. ASSUME NEW c \in Child PROVE ProgressOf(c)
  BY DEF Init, ProgressOf
<1>4. DOMAIN reply = Child /\ reply = [c \in Child |-> reply[c]]
  BY DEF Init
<1> QED BY <1>1, <1>2, <1>3, <1>4 DEF RefInv

Step == [Promise!Next]_(Promise!vars)

LEMMA OpFrame ==
    ASSUME NEW d \in Child, SameFor(d), pc[d] \in Critical => UNCHANGED <<db, count>>
    PROVE  AbstractOp(d)' = AbstractOp(d)
<1> USE DEF SameFor
<1>1. CASE pc[d] \in Critical
  <2>1. Contents' = Contents
    BY <1>1 DEF Contents
  <2> QED BY <2>1 DEF AbstractOp
<1>2. CASE pc[d] \notin Critical
  BY <1>2 DEF AbstractOp, Critical
<1> QED BY <1>1, <1>2

(* While a child is in the removal loop, its removal counts as done.       *)
LEMMA RecordsScanning ==
    ASSUME MutualExclusion, NEW c \in Child, pc[c] = "scan"
    PROVE  AbstractRecords = Dedup(Contents, req[c].id)
<1>1. \A d \in Child : pc[d] = "scan" => d = c
  BY DEF MutualExclusion, Critical
<1>2. (CHOOSE d \in Child : pc[d] = "scan") = c
  BY <1>1
<1> QED BY <1>2 DEF AbstractRecords

LEMMA RecordsScanningNext ==
    ASSUME MutualExclusion', NEW c \in Child, pc'[c] = "scan"
    PROVE  AbstractRecords' = Dedup(Contents', req'[c].id)
<1>1. \A d \in Child : pc'[d] = "scan" => d = c
  BY DEF MutualExclusion, Critical
<1>2. (CHOOSE d \in Child : pc'[d] = "scan") = c
  BY <1>1
<1> QED BY <1>2 DEF AbstractRecords

LEMMA RecordsResting ==
    /\ (\A c \in Child : pc[c] # "scan") => AbstractRecords = Contents
    /\ (\A c \in Child : pc'[c] # "scan") => AbstractRecords' = Contents'
BY DEF AbstractRecords

LEMMA RecordsSame ==
    ASSUME MutualExclusion, MutualExclusion', Contents' = Contents,
           \A d \in Child : (pc'[d] = "scan" <=> pc[d] = "scan")
                            /\ (pc[d] = "scan" => req'[d] = req[d])
    PROVE  AbstractRecords' = AbstractRecords
<1>1. CASE \E c \in Child : pc[c] = "scan"
  <2>1. PICK c \in Child : pc[c] = "scan"
    BY <1>1
  <2>2. AbstractRecords = Dedup(Contents, req[c].id)
    BY <2>1, RecordsScanning
  <2>3. AbstractRecords' = Dedup(Contents', req'[c].id)
    BY <2>1, RecordsScanningNext
  <2> QED BY <2>1, <2>2, <2>3
<1>2. CASE ~ \E c \in Child : pc[c] = "scan"
  BY <1>2, RecordsResting
<1> QED BY <1>1, <1>2

(* The operators of EmployeeDB are those of EmployeeRecords.               *)
LEMMA SameOperators ==
    /\ \A s, id : Promise!Dedup(s, id) = Dedup(s, id)
    /\ \A s, id : Promise!Duplicates(s, id) = Duplicates(s, id)
    /\ \A t, s : Promise!IsSortedReport(t, s) <=> IsSortedReport(t, s)
<1>0. \A S : Promise!Cardinality(S) = Cardinality(S)
  BY DEF Promise!Cardinality, Cardinality
<1>1. \A s, id : Promise!Kept(s, id) = Kept(s, id)
  BY DEF Promise!Kept, Kept
<1>2. \A K, j : Promise!Nth(K, j) = Nth(K, j)
  BY <1>0 DEF Promise!Nth, Nth
<1>3. \A s, K : Promise!Pick(s, K) = Pick(s, K)
  BY <1>0, <1>2 DEF Promise!Pick, Pick
<1>4. \A s, id : Promise!Dedup(s, id) = Dedup(s, id)
  BY <1>1, <1>3 DEF Promise!Dedup, Dedup
<1>5. \A s, id : Promise!Duplicates(s, id) = Duplicates(s, id)
  BY <1>1, <1>3 DEF Promise!Duplicates, Duplicates
<1>6. \A r, s : Promise!Occurrences(r, s) = Occurrences(r, s)
  BY <1>0 DEF Promise!Occurrences, Occurrences
<1>7. \A a, b : Promise!InOrder(a, b) <=> InOrder(a, b)
  BY DEF Promise!InOrder, InOrder
<1>9. \A s : Promise!ToSet(s) = ToSet(s)
  BY DEF Promise!ToSet, ToSet
<1>8. \A t, s : Promise!IsSortedReport(t, s) <=> IsSortedReport(t, s)
  BY <1>6, <1>7, <1>9 DEF Promise!IsSortedReport, IsSortedReport
<1> QED BY <1>4, <1>5, <1>8

(* A step that the clients cannot tell from none.                          *)
LEMMA Stutters ==
    ASSUME UNCHANGED <<AbstractRecords, dupFile, reply>>,
           \A d \in Child : AbstractOp(d)' = AbstractOp(d)
    PROVE  Step
BY DEF Step, Promise!vars

(* What each step of a child starts from, and leaves to the others.        *)
LEMMA StepFacts ==
    ASSUME RefInv, Inv', NEW c \in Child, Handle(c)
    PROVE  /\ TypeOK /\ RequestFits /\ MutualExclusion /\ MutualExclusion' /\ ProgressOf(c)
           /\ pc \in [Child -> Place]
           /\ \A d \in Child : d # c => SameFor(d) /\ AbstractOp(d)' = AbstractOp(d)
<1>1. /\ TypeOK /\ RequestFits /\ MutualExclusion /\ MutualExclusion' /\ ProgressOf(c)
      /\ pc \in [Child -> Place]
  BY DEF RefInv, RemovalInv, Inv, TypeOK
<1>2. ASSUME NEW d \in Child, d # c PROVE SameFor(d) /\ AbstractOp(d)' = AbstractOp(d)
  <2>1. SameFor(d) /\ (pc[d] \in Critical => UNCHANGED <<db, count>>)
    BY <1>2, OthersStay DEF RefInv, RemovalInv
  <2> QED BY <2>1, OpFrame
<1> QED BY <1>1, <1>2

(* A step outside the removal loop that leaves the array alone.            *)
LEMMA RecordsKeep ==
    ASSUME RefInv, Inv', NEW c \in Child, Handle(c), UNCHANGED <<db, count>>,
           pc[c] # "scan", pc'[c] # "scan"
    PROVE  AbstractRecords' = AbstractRecords
<1>1. /\ MutualExclusion /\ MutualExclusion'
      /\ \A d \in Child : d # c => SameFor(d)
  BY StepFacts
<1>2. Contents' = Contents
  BY DEF Contents
<1>3. \A d \in Child : (pc'[d] = "scan" <=> pc[d] = "scan") /\ (pc[d] = "scan" => req'[d] = req[d])
  BY <1>1 DEF SameFor
<1> QED BY <1>1, <1>2, <1>3, RecordsSame

(* What the clients can tell has changed: the operation of one child.      *)
OpBecomes(c, o) ==
    /\ AbstractOp(c)' = o
    /\ \A d \in Child : d # c => AbstractOp(d)' = AbstractOp(d)

LEMMA OpUpdate ==
    ASSUME NEW c \in Child, NEW o, OpBecomes(c, o)
    PROVE  [d \in Child |-> AbstractOp(d)]' = [[d \in Child |-> AbstractOp(d)] EXCEPT ![c] = o]
BY DEF OpBecomes

LEMMA RecvCalls == ASSUME RefInv, Inv', NEW c \in Child, Recv(c) PROVE Step
<1> DEFINE r == Head(inbox[c])
<1>0. Handle(c)
  BY DEF Handle
<1>1. /\ pc[c] = "recv" /\ pc'[c] = "wait" /\ req'[c] = r /\ UNCHANGED <<db, count, dupFile, reply>>
  BY <1>0, StepFacts DEF Recv, At, Goto, memory, TypeOK, LocalsTypeOK
<1>2. r \in Request
  <2>1. inbox[c] \in Seq(Request) /\ inbox[c] # <<>>
    BY <1>0, StepFacts DEF Recv, TypeOK, OutsideTypeOK
  <2> QED BY <2>1
<1> HIDE DEF r
<1>3. AbstractRecords' = AbstractRecords
  BY <1>0, <1>1, RecordsKeep
<1>4. AbstractOp(c) = [phase |-> "idle"]
  BY <1>1 DEF AbstractOp
<1>5. AbstractOp(c)' = [phase |-> "called", req |-> r]
  BY <1>1 DEF AbstractOp
<1>6. OpBecomes(c, [phase |-> "called", req |-> r])
  BY <1>0, <1>5, StepFacts DEF OpBecomes
<1>7. Promise!Call(c, r)
  BY <1>1, <1>3, <1>4, <1>6, OpUpdate DEF Promise!Call, Promise!Idle, Promise!Called
<1> QED BY <1>2, <1>7 DEF Step, Promise!Next

LEMMA StepHidden ==
    ASSUME RefInv, Inv', NEW c \in Child, Handle(c), AbstractRecords' = AbstractRecords,
           AbstractOp(c)' = AbstractOp(c), UNCHANGED <<dupFile, reply>>
    PROVE  Step
<1>1. \A d \in Child : AbstractOp(d)' = AbstractOp(d)
  BY StepFacts
<1> QED BY <1>1, Stutters

LEMMA DisconnectedHidden == ASSUME RefInv, Inv', NEW c \in Child, Disconnected(c) PROVE Step
<1>0. Handle(c)
  BY DEF Handle
<1>1. /\ pc[c] = "recv" /\ pc'[c] = "exit" /\ UNCHANGED <<db, count, dupFile, reply>>
  BY <1>0, StepFacts DEF Disconnected, At, Goto, memory
<1>2. AbstractRecords' = AbstractRecords
  BY <1>0, <1>1, RecordsKeep
<1>3. AbstractOp(c)' = AbstractOp(c)
  BY <1>1 DEF AbstractOp
<1> QED BY <1>0, <1>1, <1>2, <1>3, StepHidden

LEMMA DuplicatesTyped ==
    ASSUME NEW s \in Seq(Row), NEW id
    PROVE  Duplicates(s, id) \in Seq(Row)
<1>1. DOMAIN s \ Kept(s, id) \subseteq 1..Len(s)
  OBVIOUS
<1> QED BY <1>1, PickTyped DEF Duplicates

(* Getting the semaphore is the moment a removal or a display takes effect.*)
LEMMA WaitApplies == ASSUME RefInv, Inv', NEW c \in Child, Wait(c) PROVE Step
<1> DEFINE C == Contents  id == req[c].id  d == Duplicates(C, id)
<1>0. Handle(c)
  BY DEF Handle
<1>1. /\ pc[c] = "wait" /\ pc'[c] = (IF req[c].kind = "R" THEN "scan" ELSE "read")
      /\ lock > 0 /\ UNCHANGED <<db, count, dupFile, reply>>
      /\ req' = req /\ buf' = buf /\ temp' = temp
  BY <1>0, StepFacts DEF Wait, At, Goto, locals
<1>2. req[c] \in Request /\ buf[c] = <<>>
  BY <1>0, <1>1, StepFacts DEF RequestFits, ProgressOf
<1>3. \A e \in Child : pc[e] # "scan"
  BY <1>0, <1>1, StepFacts DEF MutualExclusion, Critical
<1>4. C' = C /\ C \in Seq(Row) /\ AbstractRecords = C
  BY <1>0, <1>1, <1>3, StepFacts, ContentsTyped, RecordsResting DEF Contents
<1>5. AbstractOp(c) = [phase |-> "called", req |-> req[c]]
  BY <1>1 DEF AbstractOp
<1>6. CASE req[c].kind = "A"
  <2>1. pc'[c] = "read"
    BY <1>1, <1>6
  <2>2. AbstractRecords' = AbstractRecords
    BY <1>0, <1>1, <2>1, RecordsKeep
  <2>3. AbstractOp(c)' = AbstractOp(c)
    BY <1>1, <1>5, <1>6, <2>1 DEF AbstractOp
  <2> QED BY <1>0, <1>1, <2>2, <2>3, StepHidden
<1>7. CASE req[c].kind = "D"
  <2>1. pc'[c] = "read"
    BY <1>1, <1>7
  <2>2. AbstractRecords' = AbstractRecords
    BY <1>0, <1>1, <2>1, RecordsKeep
  <2>3. AbstractOp(c)' = [phase |-> "applied", req |-> req[c], rows |-> C]
    BY <1>1, <1>4, <1>7, <2>1 DEF AbstractOp
  <2>4. OpBecomes(c, [phase |-> "applied", req |-> req[c], rows |-> C])
    BY <1>0, <2>3, StepFacts DEF OpBecomes
  <2>5. Promise!TakeSnapshot(c)
    BY <1>1, <1>4, <1>5, <1>7, <2>2, <2>4, OpUpdate DEF Promise!TakeSnapshot, Promise!Applied
  <2> QED BY <2>5 DEF Step, Promise!Next
<1>8. CASE req[c].kind = "R"
  <2>1. pc'[c] = "scan"
    BY <1>1, <1>8
  <2>2. AbstractRecords' = Dedup(C, id)
    BY <1>0, <1>1, <1>4, <2>1, StepFacts, RecordsScanningNext
  <2>3. <<>> \o d = d
    BY <1>4, DuplicatesTyped, ConcatEmptySeq
  <2>4. AbstractOp(c)' = [phase |-> "applied", req |-> req[c], rows |-> d]
    <3>1. AbstractOp(c)' = [phase |-> "applied", req |-> req'[c],
                            rows |-> buf'[c] \o Duplicates(Contents', req'[c].id)]
      BY <2>1 DEF AbstractOp
    <3> QED BY <1>1, <1>2, <1>4, <2>3, <3>1
  <2> HIDE DEF d, C
  <2>5. OpBecomes(c, [phase |-> "applied", req |-> req[c], rows |-> d])
    BY <1>0, <2>4, StepFacts DEF OpBecomes
  <2>6. d = Promise!Duplicates(AbstractRecords, id) /\ AbstractRecords' = Promise!Dedup(AbstractRecords, id)
    BY <1>4, <2>2, SameOperators DEF d
  <2>7. Promise!RemoveDuplicates(c)
    BY <1>1, <1>5, <1>8, <2>5, <2>6, OpUpdate DEF Promise!RemoveDuplicates, Promise!Applied
  <2> QED BY <2>7 DEF Step, Promise!Next
<1>9. req[c].kind \in {"A", "D", "R"}
  BY <1>2 DEF Request
<1> QED BY <1>6, <1>7, <1>8, <1>9

LEMMA ReadCountHidden == ASSUME RefInv, Inv', NEW c \in Child, ReadCount(c) PROVE Step
<1>0. Handle(c)
  BY DEF Handle
<1>1. /\ pc[c] = "read" /\ pc'[c] = (IF req[c].kind = "A" THEN "write" ELSE "copy")
      /\ UNCHANGED <<db, count, dupFile, reply, req>>
  BY <1>0, StepFacts DEF ReadCount, At, Goto, memory
<1>2. req[c].kind \in {"A", "D"} /\ Contents' = Contents
  BY <1>0, <1>1, StepFacts DEF RequestFits, Contents
<1>3. AbstractRecords' = AbstractRecords
  BY <1>0, <1>1, RecordsKeep
<1>4. AbstractOp(c)' = AbstractOp(c)
  BY <1>1, <1>2 DEF AbstractOp
<1> QED BY <1>0, <1>1, <1>3, <1>4, StepHidden

(* Writing the slot and the count is the moment an add takes effect.       *)
LEMMA StoreAdds == ASSUME RefInv, Inv', NEW c \in Child, Store(c) PROVE Step
<1> DEFINE o == [phase |-> "applied", req |-> req[c], rows |-> <<>>]
<1>0. Handle(c)
  BY DEF Handle
<1>1. /\ pc[c] = "write" /\ pc'[c] = "post" /\ UNCHANGED <<dupFile, reply, req>>
  BY <1>0, StepFacts DEF Store, At, Goto, locals
<1>2. req[c].kind = "A"
  BY <1>0, <1>1, StepFacts DEF RequestFits
<1>3. \A e \in Child : pc[e] # "scan" /\ pc'[e] # "scan"
  BY <1>0, <1>1, StepFacts DEF MutualExclusion, Critical, SameFor
<1>4. AbstractRecords = Contents /\ AbstractRecords' = Contents'
  BY <1>3, RecordsResting
<1>5. Contents' = Append(Contents, req[c].emp)
  BY StoreAppends DEF RefInv, RemovalInv
<1>6. AbstractOp(c) = [phase |-> "called", req |-> req[c]]
  BY <1>1, <1>2 DEF AbstractOp
<1>7. AbstractOp(c)' = o
  BY <1>1, <1>2 DEF AbstractOp
<1>8. OpBecomes(c, o)
  BY <1>0, <1>7, StepFacts DEF OpBecomes
<1>9. Promise!Add(c)
  BY <1>1, <1>2, <1>4, <1>5, <1>6, <1>8, OpUpdate DEF Promise!Add, Promise!Applied
<1> QED BY <1>9 DEF Step, Promise!Next

LEMMA ScanPassHidden ==
    ASSUME RefInv, Inv', NEW c \in Child, ScanOther(c) \/ ScanFirst(c) PROVE Step
<1>0. Handle(c)
  BY DEF Handle
<1>1. pc[c] = "scan" /\ UNCHANGED <<db, count, pc, req, buf, dupFile, reply>>
  BY DEF ScanOther, ScanFirst, At, memory
<1>2. Contents' = Contents
  BY <1>1 DEF Contents
<1>3. AbstractRecords' = AbstractRecords
  BY <1>0, <1>1, <1>2, StepFacts, RecordsSame
<1>4. AbstractOp(c)' = AbstractOp(c)
  BY <1>1, <1>2 DEF AbstractOp
<1> QED BY <1>0, <1>1, <1>3, <1>4, StepHidden

(* What the removal loop knows of the records before its index, in terms   *)
(* of the sequence the clients see.                                        *)
LEMMA ScannedSoFar ==
    ASSUME RefInv, NEW c \in Child, pc[c] = "scan"
    PROVE  /\ Contents \in Seq(Row) /\ Len(Contents) = count /\ count \in Nat /\ i[c] \in Nat
           /\ \A j, k \in 1..count : j <= i[c] /\ k <= i[c] /\ Contents[j].id = req[c].id
                                         /\ Contents[k].id = req[c].id => j = k
           /\ seen[c] /\ i[c] < count => \E q \in 1..i[c] : Contents[q].id = req[c].id
<1> USE DEF RefInv, RemovalInv, Inv
<1>1. /\ Contents \in Seq(Row) /\ Len(Contents) = count /\ count \in Nat /\ i[c] \in Nat
      /\ \A k \in 1..count : Contents[k] = db[k - 1]
  BY ContentsTyped, MaxEmpAssumption DEF TypeOK, LocalsTypeOK
<1>2. ASSUME NEW j \in 1..count, NEW k \in 1..count, j <= i[c], k <= i[c],
             Contents[j].id = req[c].id, Contents[k].id = req[c].id
      PROVE  j = k
  <2>1. j - 1 \in 0..(i[c] - 1) /\ k - 1 \in 0..(i[c] - 1)
    BY <1>1, <1>2
  <2>2. HasId(j - 1, req[c].id) /\ HasId(k - 1, req[c].id)
    BY <1>1, <1>2 DEF HasId
  <2>3. j - 1 = k - 1
    BY <2>1, <2>2 DEF ScannedPrefix
  <2> QED BY <1>1, <2>3
<1>3. ASSUME seen[c], i[c] < count PROVE \E q \in 1..i[c] : Contents[q].id = req[c].id
  <2>1. PICK j \in 0..(i[c] - 1) : HasId(j, req[c].id)
    BY <1>3 DEF ProgressOf
  <2>2. j + 1 \in 1..i[c] /\ j + 1 \in 1..count /\ (j + 1) - 1 = j
    BY <1>1, <1>3
  <2>3. Contents[j + 1] = db[j]
    BY <1>1, <2>2
  <2> QED BY <2>1, <2>2, <2>3 DEF HasId
<1> QED BY <1>1, <1>2, <1>3

LEMMA ScanDuplicateHidden == ASSUME RefInv, Inv', NEW c \in Child, ScanDuplicate(c) PROVE Step
<1> DEFINE C == Contents  D == Contents'  id == req[c].id  p == i[c] + 1  x == db[i[c]]
           e == Duplicates(C, id)  f == Duplicates(D, id)
<1>0. Handle(c)
  BY DEF Handle
<1>1. /\ pc[c] = "scan" /\ UNCHANGED <<pc, req, dupFile, reply>> /\ i[c] < count /\ seen[c]
      /\ x.id = id /\ buf'[c] = Append(buf[c], x)
  BY <1>0, StepFacts DEF ScanDuplicate, At, IsTarget, TypeOK, LocalsTypeOK
<1>2. /\ C \in Seq(Row) /\ D \in Seq(Row) /\ p \in 1..Len(C) /\ C[p] = x /\ IsWithout(D, C, p)
  BY ShiftTakesOut, ScannedSoFar, <1>1 DEF RefInv, RemovalInv
<1>3. p - 1 = i[c] /\ Len(C) = count /\ i[c] \in Nat /\ count \in Nat
  BY <1>1, ScannedSoFar
<1>4. PICK q \in 1..i[c] : C[q].id = id
  BY <1>1, ScannedSoFar
<1>5. ASSUME NEW j \in 1..(p - 1), NEW k \in 1..(p - 1), C[j].id = id, C[k].id = id
      PROVE  j = k
  <2>1. j \in 1..count /\ k \in 1..count /\ j <= i[c] /\ k <= i[c]
    BY <1>1, <1>3
  <2> QED BY <1>1, <1>5, <2>1, ScannedSoFar
<1>6. C[p].id = id /\ q \in 1..(p - 1)
  BY <1>1, <1>2, <1>3, <1>4
<1> HIDE DEF C, D, p, x, id
<1>7. Dedup(D, id) = Dedup(C, id) /\ e = <<C[p]>> \o f /\ f \in Seq(Row)
  <2>1. OnceBefore(C, p, id)
    BY <1>5 DEF OnceBefore
  <2>2. /\ C \in Seq(Row) /\ D \in Seq(Row) /\ p \in 1..Len(C) /\ IsWithout(D, C, p)
        /\ q \in 1..(p - 1) /\ C[q].id = id /\ C[p].id = id
    BY <1>2, <1>4, <1>6
  <2>3. /\ Dedup(D, id) = Dedup(C, id)
        /\ Duplicates(C, id) = <<C[p]>> \o Duplicates(D, id)
        /\ Duplicates(D, id) \in Seq(Row)
    BY ONLY <2>1, <2>2, DuplicateOut
  <2> QED BY <2>3
<1>8. AbstractRecords' = AbstractRecords
  <2>1. AbstractRecords = Dedup(C, id)
    BY <1>0, <1>1, StepFacts, RecordsScanning DEF C, id
  <2>2. AbstractRecords' = Dedup(D, req'[c].id)
    BY <1>0, <1>1, StepFacts, RecordsScanningNext DEF D
  <2> QED BY <1>1, <1>7, <2>1, <2>2 DEF id
<1>9. AbstractOp(c)' = AbstractOp(c)
  <2>1. AbstractOp(c) = [phase |-> "applied", req |-> req[c], rows |-> buf[c] \o e]
    BY <1>1 DEF AbstractOp, C, id
  <2>2. AbstractOp(c)' = [phase |-> "applied", req |-> req'[c],
                          rows |-> buf'[c] \o Duplicates(Contents', req'[c].id)]
    BY <1>1 DEF AbstractOp
  <2>3. buf[c] \in Seq(Row)
    BY <1>0, StepFacts DEF TypeOK, LocalsTypeOK
  <2>4. x \in Row /\ C[p] = x
    BY <1>2
  <2>5. <<x>> \in Seq(Row)
    BY <2>4
  <2>6. Append(buf[c], x) = buf[c] \o <<x>>
    BY <2>3, <2>4, AppendIsConcat
  <2> HIDE DEF e, f
  <2>7. (buf[c] \o <<x>>) \o f = buf[c] \o (<<x>> \o f)
    <3> DEFINE b == buf[c]  v == <<x>>
    <3>1. b \in Seq(Row) /\ v \in Seq(Row) /\ f \in Seq(Row)
      BY <2>3, <2>5, <1>7
    <3> HIDE DEF b, v
    <3>2. (b \o v) \o f = b \o (v \o f)
      BY <3>1, ConcatAssociative
    <3> QED BY <3>2 DEF b, v
  <2>8. buf'[c] \o f = buf[c] \o e
    BY <1>1, <1>7, <2>4, <2>6, <2>7
  <2> QED BY <1>1, <2>1, <2>2, <2>8 DEF f, D, id
<1> QED BY <1>0, <1>1, <1>8, <1>9, StepHidden

LEMMA ScanEndHidden == ASSUME RefInv, Inv', NEW c \in Child, ScanEnd(c) PROVE Step
<1> DEFINE C == Contents  id == req[c].id
<1>0. Handle(c)
  BY DEF Handle
<1>1. /\ pc[c] = "scan" /\ pc'[c] = "post" /\ UNCHANGED <<db, count, req, buf, dupFile, reply>>
      /\ i[c] >= count
  BY <1>0, StepFacts DEF ScanEnd, At, Goto, memory, locals
<1>2. req[c].kind = "R" /\ buf[c] \in Seq(Row) /\ C' = C
  BY <1>0, <1>1, StepFacts DEF RequestFits, TypeOK, LocalsTypeOK, Contents
<1>3. C \in Seq(Row) /\ Len(C) = count /\ count \in Nat
      /\ \A j, k \in 1..Len(C) : C[j].id = id /\ C[k].id = id => j = k
  BY <1>1, ScannedSoFar
<1> HIDE DEF C, id
<1>4. Dedup(C, id) = C /\ Duplicates(C, id) = <<>>
  BY <1>3, NoDuplicates
<1>5. AbstractRecords' = AbstractRecords
  <2>1. AbstractRecords = C
    BY <1>0, <1>1, <1>4, StepFacts, RecordsScanning DEF C, id
  <2>2. \A d \in Child : pc'[d] # "scan"
    BY <1>0, <1>1, StepFacts DEF MutualExclusion, Critical, SameFor
  <2>3. AbstractRecords' = C'
    BY <2>2, RecordsResting DEF C
  <2> QED BY <1>2, <2>1, <2>3
<1>6. AbstractOp(c)' = AbstractOp(c)
  <2>1. AbstractOp(c) = [phase |-> "applied", req |-> req[c], rows |-> buf[c] \o Duplicates(C, id)]
    BY <1>1 DEF AbstractOp, C, id
  <2>2. AbstractOp(c)' = [phase |-> "applied", req |-> req[c], rows |-> buf[c]]
    BY <1>1, <1>2 DEF AbstractOp
  <2>3. buf[c] \o <<>> = buf[c]
    BY <1>2, ConcatEmptySeq
  <2> QED BY <1>4, <2>1, <2>2, <2>3
<1> QED BY <1>0, <1>1, <1>5, <1>6, StepHidden

LEMMA CopyNextHidden == ASSUME RefInv, Inv', NEW c \in Child, CopyNext(c) PROVE Step
<1>0. Handle(c)
  BY DEF Handle
<1>1. pc[c] = "copy" /\ UNCHANGED <<db, count, pc, req, buf, dupFile, reply>>
  BY DEF CopyNext, At, memory
<1>2. req[c].kind = "D" /\ Contents' = Contents
  BY <1>0, <1>1, StepFacts DEF RequestFits, Contents
<1>3. AbstractRecords' = AbstractRecords
  BY <1>0, <1>1, RecordsKeep
<1>4. AbstractOp(c)' = AbstractOp(c)
  BY <1>1, <1>2 DEF AbstractOp
<1> QED BY <1>0, <1>1, <1>3, <1>4, StepHidden

LEMMA CopyEndHidden == ASSUME RefInv, Inv', NEW c \in Child, CopyEnd(c) PROVE Step
<1>0. Handle(c)
  BY DEF Handle
<1>1. /\ pc[c] = "copy" /\ pc'[c] = "post" /\ i[c] >= n[c]
      /\ UNCHANGED <<db, count, req, temp, dupFile, reply>>
  BY <1>0, StepFacts DEF CopyEnd, At, Goto, memory, locals
<1>2. req[c].kind = "D" /\ temp[c] \in Seq(Row) /\ i[c] \in Nat
  BY <1>0, <1>1, StepFacts, MaxEmpAssumption DEF RequestFits, TypeOK, LocalsTypeOK
<1>3. /\ Contents \in Seq(Row) /\ Len(Contents) = count /\ count \in Nat
      /\ \A k \in 1..count : Contents[k] = db[k - 1]
  BY <1>0, StepFacts, ContentsTyped, MaxEmpAssumption
<1>4. /\ Len(temp[c]) = count /\ \A k \in 1..count : temp[c][k] = db[k - 1]
  <2>1. n[c] = count /\ i[c] <= count /\ Len(temp[c]) = i[c]
        /\ \A k \in 1..i[c] : temp[c][k] = db[k - 1]
    BY <1>0, <1>1, StepFacts DEF ProgressOf
  <2>2. i[c] = count
    BY <1>1, <1>2, <1>3, <2>1
  <2> QED BY <2>1, <2>2
<1>5. temp[c] = Contents
  <2> DEFINE t == temp[c]
  <2>1. t \in Seq(Row) /\ Len(t) = Len(Contents) /\ \A k \in 1..Len(t) : t[k] = Contents[k]
    BY <1>2, <1>3, <1>4
  <2> HIDE DEF t
  <2>2. t = Contents
    BY <1>3, <2>1, SeqEqual
  <2> QED BY <2>2 DEF t
<1>6. AbstractRecords' = AbstractRecords
  BY <1>0, <1>1, RecordsKeep
<1>7. AbstractOp(c)' = AbstractOp(c)
  BY <1>1, <1>2, <1>5 DEF AbstractOp
<1> QED BY <1>0, <1>1, <1>6, <1>7, StepHidden

LEMMA PostHidden == ASSUME RefInv, Inv', NEW c \in Child, Post(c) PROVE Step
<1>0. Handle(c)
  BY DEF Handle
<1>1. /\ pc[c] = "post" /\ pc'[c] = (IF req[c].kind = "R" THEN "close" ELSE "send")
      /\ UNCHANGED <<db, count, req, temp, buf, dupFile, reply>>
  BY <1>0, StepFacts DEF Post, At, Goto, locals
<1>2. req[c].kind \in {"A", "D", "R"}
  BY <1>0, <1>1, StepFacts DEF RequestFits, Request
<1>3. AbstractRecords' = AbstractRecords
  BY <1>0, <1>1, RecordsKeep
<1>4. AbstractOp(c)' = AbstractOp(c)
  BY <1>1, <1>2 DEF AbstractOp
<1> QED BY <1>0, <1>1, <1>3, <1>4, StepHidden

(* fclose is the moment the removed records reach dup.txt.                 *)
LEMMA CloseSaves == ASSUME RefInv, Inv', NEW c \in Child, CloseFile(c) PROVE Step
<1> DEFINE o == [phase |-> "saved", req |-> req[c], removed |-> removed[c]]
<1>0. Handle(c)
  BY DEF Handle
<1>1. /\ pc[c] = "close" /\ pc'[c] = "send" /\ dupFile' = dupFile \o buf[c]
      /\ UNCHANGED <<db, count, req, removed, reply>>
  BY <1>0, StepFacts DEF CloseFile, At, Goto, memory
<1>2. req[c].kind = "R" /\ removed[c] = Len(buf[c])
  BY <1>0, <1>1, StepFacts DEF RequestFits, ProgressOf
<1>3. AbstractRecords' = AbstractRecords
  BY <1>0, <1>1, RecordsKeep
<1>4. AbstractOp(c) = [phase |-> "applied", req |-> req[c], rows |-> buf[c]]
  BY <1>1, <1>2 DEF AbstractOp
<1>5. AbstractOp(c)' = o
  BY <1>1, <1>2 DEF AbstractOp
<1>6. OpBecomes(c, o)
  BY <1>0, <1>5, StepFacts DEF OpBecomes
<1>7. o = Promise!Saved(AbstractOp(c).req, Len(AbstractOp(c).rows))
  BY <1>2, <1>4 DEF Promise!Saved
<1> HIDE DEF o
<1>8. Promise!SaveDuplicates(c)
  <2> DEFINE op == [d \in Child |-> AbstractOp(d)]
  <2>1. op[c] = AbstractOp(c)
    OBVIOUS
  <2>2. op' = [op EXCEPT ![c] = o]
    BY <1>6, OpUpdate
  <2> HIDE DEF op
  <2>3. op[c].phase = "applied" /\ op[c].req.kind = "R" /\ dupFile' = dupFile \o op[c].rows
    BY <1>1, <1>2, <1>4, <2>1
  <2>4. op' = [op EXCEPT ![c] = Promise!Saved(op[c].req, Len(op[c].rows))]
    BY <1>7, <2>1, <2>2
  <2> QED BY <1>1, <1>3, <2>3, <2>4 DEF Promise!SaveDuplicates, op
<1> QED BY <1>8 DEF Step, Promise!Next

LEMMA SendReturns == ASSUME RefInv, Inv', NEW c \in Child, Send(c) PROVE Step
<1> DEFINE a == Response(c)
<1>0. Handle(c)
  BY DEF Handle
<1>1. /\ pc[c] = "send" /\ pc'[c] \in {"recv", "exit"}
      /\ UNCHANGED <<db, count, dupFile>>
  BY <1>0, StepFacts DEF Send, At, Goto, memory
<1>2. req[c].kind \in {"A", "D", "R"} /\ temp[c] \in Seq(Row)
  BY <1>0, <1>1, StepFacts DEF RequestFits, Request, TypeOK, LocalsTypeOK
<1>3. reply'[c] = a /\ \A d \in Child \ {c} : reply'[d] = reply[d]
  BY DEF Send, RefInv
<1>4. AbstractRecords' = AbstractRecords
  BY <1>0, <1>1, RecordsKeep
<1>5. AbstractOp(c)' = [phase |-> "idle"]
  BY <1>1 DEF AbstractOp
<1>6. OpBecomes(c, [phase |-> "idle"])
  BY <1>0, <1>5, StepFacts DEF OpBecomes
<1>7. Promise!IsAnswer(a, AbstractOp(c))
  <2>1. CASE req[c].kind = "A"
    <3>1. a = [kind |-> "added"]
      BY <2>1 DEF Response
    <3>2. AbstractOp(c) = [phase |-> "applied", req |-> req[c], rows |-> <<>>]
      BY <1>1, <2>1 DEF AbstractOp
    <3> QED BY <2>1, <3>1, <3>2 DEF Promise!IsAnswer
  <2>2. CASE req[c].kind = "R"
    <3>1. a = [kind |-> "removed", n |-> removed[c]]
      BY <2>2 DEF Response
    <3>2. AbstractOp(c) = [phase |-> "saved", req |-> req[c], removed |-> removed[c]]
      BY <1>1, <2>2 DEF AbstractOp
    <3> QED BY <3>1, <3>2 DEF Promise!IsAnswer
  <2>3. CASE req[c].kind = "D"
    <3>1. a = [kind |-> "list", rows |-> BubbleSort(temp[c])]
      BY <2>3 DEF Response
    <3>2. AbstractOp(c) = [phase |-> "applied", req |-> req[c], rows |-> temp[c]]
      BY <1>1, <2>3 DEF AbstractOp
    <3>3. Promise!IsSortedReport(BubbleSort(temp[c]), temp[c])
      BY <1>2, BubbleSortSorts, SameOperators
    <3> QED BY <2>3, <3>1, <3>2, <3>3 DEF Promise!IsAnswer
  <2> QED BY <1>2, <2>1, <2>2, <2>3
<1> HIDE DEF a
<1>8. Promise!Return(c)
  BY <1>1, <1>3, <1>4, <1>6, <1>7, OpUpdate DEF Promise!Return, Promise!Idle
<1> QED BY <1>8 DEF Step, Promise!Next

LEMMA StepMaps == ASSUME RefInv, Inv', [Next]_vars PROVE Step
<1>1. ASSUME NEW c \in Child, Handle(c) PROVE Step
  BY <1>1, RecvCalls, DisconnectedHidden, WaitApplies, ReadCountHidden, StoreAdds,
     ScanPassHidden, ScanDuplicateHidden, ScanEndHidden, CopyNextHidden, CopyEndHidden,
     PostHidden, CloseSaves, SendReturns DEF Handle
<1>2. CASE UNCHANGED <<memory, pc, locals, dupFile, reply>>
  <2>1. Contents' = Contents
    BY <1>2 DEF memory, Contents
  <2>2. \A d \in Child : SameFor(d) /\ UNCHANGED <<db, count>>
    BY <1>2 DEF memory, locals, SameFor
  <2>3. \A d \in Child : AbstractOp(d)' = AbstractOp(d)
    BY <2>2, OpFrame
  <2>4. AbstractRecords' = AbstractRecords
    BY <1>2, <2>1, RecordsSame DEF RefInv, RemovalInv, Inv, locals
  <2> QED BY <1>2, <2>3, <2>4, Stutters
<1> QED BY <1>1, <1>2, HandleOrNot DEF RefInv, RemovalInv

LEMMA InitMaps == Init => Promise!Init
<1> SUFFICES ASSUME Init PROVE Promise!Init
  OBVIOUS
<1>1. Contents = Initial
  BY InitInv, ContentsInit DEF Inv
<1>2. AbstractRecords = Initial
  BY <1>1, RecordsResting DEF Init
<1>3. \A c \in Child : AbstractOp(c) = [phase |-> "idle"]
  BY DEF Init, AbstractOp
<1>4. dupFile = <<>> /\ reply = [c \in Child |-> NoReply]
  BY DEF Init
<1> QED BY <1>2, <1>3, <1>4 DEF Promise!Init, Promise!Idle, Promise!NoReply, NoReply

(* The server of midsem/server.c implements EmployeeDB: whatever the       *)
(* children interleave, whoever is killed and wherever, each request takes *)
(* effect in one step between its receipt and its answer, dup.txt receives *)
(* exactly what removals took out, and a display is a sorted snapshot.     *)
THEOREM Refines == Spec => ImplementsEmployeeDB
<1>1. RefInv /\ [Next]_vars => Step
  <2> SUFFICES ASSUME RefInv, [Next]_vars PROVE Step
    OBVIOUS
  <2>1. Inv'
    BY RefNext DEF RefInv, RemovalInv
  <2> QED BY <2>1, StepMaps
<1>2. RefInv /\ [Next]_vars => RefInv'
  BY RefNext
<1> QED
  BY <1>1, <1>2, RefInit, InitMaps, PTL DEF Spec, ImplementsEmployeeDB, Promise!Spec, Step
=============================================================================
