--------------------------- MODULE AnagramServers ---------------------------
(***************************************************************************)
(* The two servers of Lab05/quo2.  The concurrent one forks a child for    *)
(* each conversation; the iterative one holds it itself and accepts the    *)
(* next client only when the conversation is over.                         *)
(***************************************************************************)
EXTENDS AnagramConversation

Busy == \E d \in Client : Conversing(d)

(* The parent closes its copy of the socket and goes back to accept; the   *)
(* child has it.                                                           *)
AcceptAndFork ==
    /\ server = "concurrent" /\ queue # <<>>
    /\ srv' = [srv EXCEPT ![Head(queue)] = "read1"]
    /\ queue' = Tail(queue)
    /\ UNCHANGED <<clientVars, toServer, toClient, str1, str2, setting>>

(* fork returns -1, which is not 0: the parent closes the only copy. *)
ForkFails ==
    /\ server = "concurrent" /\ queue # <<>>
    /\ srv' = [srv EXCEPT ![Head(queue)] = "closed"]
    /\ queue' = Tail(queue)
    /\ UNCHANGED <<clientVars, toServer, toClient, str1, str2, setting>>

Accept ==
    /\ server = "iterative" /\ queue # <<>> /\ ~Busy
    /\ srv' = [srv EXCEPT ![Head(queue)] = "read1"]
    /\ queue' = Tail(queue)
    /\ UNCHANGED <<clientVars, toServer, toClient, str1, str2, setting>>

AcceptStep == AcceptAndFork \/ ForkFails \/ Accept
CanAccept  == queue # <<>> /\ (server = "iterative" => ~Busy)

NoDelay == TRUE     \* usleep left out

(* When the pause between the two sends is long enough, the server has     *)
(* done by its end all it can with what has arrived.                       *)
PauseOver == longPause => ~CanAccept /\ \A d \in Client : NothingToDo(d)

Next ==
    \/ AcceptStep
    \/ \E c \in Client : User(c) \/ ClientRuns(c, PauseOver) \/ Converse(c)

(* Server processes and clients are scheduled; users need not type.  In    *)
(* the iterative server at most one conversation can take a step, and the  *)
(* accept is not enabled then, so one condition for each part is no more   *)
(* than one for the process.                                               *)
Spec ==
    /\ Init /\ [][Next]_vars
    /\ WF_vars(AcceptStep)
    /\ \A c \in Client : WF_vars(Converse(c)) /\ WF_vars(ClientRuns(c, PauseOver))

-----------------------------------------------------------------------------
(* An answer a client reads compares exactly the two strings of the round  *)
(* the client is in, in their order: no string of another round, of        *)
(* another client, and no two strings run together, however short the      *)
(* pause and whichever the server.                                         *)
AnswersMatch ==
    \A c \in Client : cl[c] = "prompt" /\ rounds[c] > 0 =>
        answer[c] = <<<<pair[c][1]>>, <<pair[c][2]>>>>

OneStringPerRead == \A c \in Client : Len(str1[c]) <= 1 /\ Len(str2[c]) <= 1

(* With the pause each read of the concurrent server returns one string.   *)
ReadsSeparate == server = "concurrent" /\ longPause => OneStringPerRead

(* What the conversation keeps to in every state.                          *)
ConversationSafe == TypeOK /\ AnswersMatch /\ ReadsSeparate

(* The pause ensures separate reads, as client.c says of it.               *)
PauseSeparatesReads == longPause => OneStringPerRead

(* With the pause a client of the concurrent server that waits for an      *)
(* answer gets it, or is disconnected.                                     *)
RoundAnswered ==
    \A c \in Client :
        (cl[c] = "waiting" /\ server = "concurrent" /\ longPause) ~> cl[c] # "waiting"

(* Once the server has read the first string by itself the round is        *)
(* answered, whoever else is connected, whatever the pause and the server. *)
SeparatedRoundAnswered ==
    \A c \in Client :
        (srv[c] = "read2" /\ Len(str1[c]) = 1) ~> srv[c] \in {"read1", "closed"}

(* Both: who sends two strings that are read one by one is answered.       *)
RoundsAnswered == RoundAnswered /\ SeparatedRoundAnswered
=============================================================================
