------------------------ MODULE AnagramConversation ------------------------
(***************************************************************************)
(* The anagram client of Lab05/quo2 and the conversation a server holds    *)
(* with it: read a string, read another, answer.  AnagramServers has the    *)
(* two servers, which hold the same conversation.                           *)
(***************************************************************************)
EXTENDS Naturals, Sequences

CONSTANTS Client,        \* the client programs
          Word,          \* the strings users type
          MaxRounds      \* bound on the rounds of one client

ASSUME MaxRoundsAssumption == MaxRounds \in Nat

VARIABLES cl,         \* where each client stands
          pair,       \* str1 and str2 of its current round
          rounds,     \* rounds it has started (bounds the model)
          answer,     \* the last answer it read
          toServer,   \* the strings sent to the server and not read
          toClient,   \* the answers sent to the client and not read
          queue,      \* connections waiting to be accepted
          srv,        \* where the server stands in each conversation
          str1, str2, \* what its two reads returned, each a run of strings
          server,     \* which of the two servers runs
          longPause   \* whether the client's usleep(1000) outlasts what the
                      \* server can do in the meantime

clientVars == <<cl, pair, rounds, answer>>
serverVars == <<srv, str1, str2>>
setting    == <<server, longPause>>
vars == <<clientVars, toServer, toClient, queue, serverVars, setting>>

None == <<>>

Init ==
    /\ cl = [c \in Client |-> "off"]
    /\ pair = [c \in Client |-> None]
    /\ rounds = [c \in Client |-> 0]
    /\ answer = [c \in Client |-> None]
    /\ toServer = [c \in Client |-> <<>>]
    /\ toClient = [c \in Client |-> <<>>]
    /\ queue = <<>>
    /\ srv = [c \in Client |-> "none"]
    /\ str1 = [c \in Client |-> <<>>]
    /\ str2 = [c \in Client |-> <<>>]
    /\ server \in {"concurrent", "iterative"}
    /\ longPause \in BOOLEAN

-----------------------------------------------------------------------------
(* The client. *)
Connect(c) ==
    /\ cl[c] = "off"
    /\ cl' = [cl EXCEPT ![c] = "prompt"]
    /\ queue' = Append(queue, c)
    /\ UNCHANGED <<pair, rounds, answer, toServer, toClient, serverVars, setting>>

SendFirst(c, v, w) ==
    /\ cl[c] = "prompt" /\ rounds[c] < MaxRounds
    /\ cl' = [cl EXCEPT ![c] = "pausing"]
    /\ pair' = [pair EXCEPT ![c] = <<v, w>>]
    /\ rounds' = [rounds EXCEPT ![c] = @ + 1]
    /\ toServer' = [toServer EXCEPT ![c] = Append(@, v)]
    /\ UNCHANGED <<answer, toClient, queue, serverVars, setting>>

SendSecond(c, delay) ==
    /\ cl[c] = "pausing" /\ srv[c] # "closed"
    /\ delay
    /\ cl' = [cl EXCEPT ![c] = "waiting"]
    /\ toServer' = [toServer EXCEPT ![c] = Append(@, pair[c][2])]
    /\ UNCHANGED <<pair, rounds, answer, toClient, queue, serverVars, setting>>

ReadAnswer(c) ==
    /\ cl[c] = "waiting" /\ toClient[c] # <<>>
    /\ answer' = [answer EXCEPT ![c] = toClient[c][1]]
    /\ toClient' = [toClient EXCEPT ![c] = Tail(@)]
    /\ cl' = [cl EXCEPT ![c] = "prompt"]
    /\ UNCHANGED <<pair, rounds, toServer, queue, serverVars, setting>>

(* The server has closed the connection: read returns 0, or the second of  *)
(* two sends raises SIGPIPE.                                               *)
ServerGone(c) ==
    /\ cl[c] \in {"pausing", "waiting"}
    /\ srv[c] = "closed" /\ toClient[c] = <<>>
    /\ cl' = [cl EXCEPT ![c] = "done"]
    /\ UNCHANGED <<pair, rounds, answer, toServer, toClient, queue, serverVars, setting>>

Exit(c) ==
    /\ cl[c] = "prompt"
    /\ cl' = [cl EXCEPT ![c] = "done"]
    /\ UNCHANGED <<pair, rounds, answer, toServer, toClient, queue, serverVars, setting>>

Interrupt(c) ==
    /\ cl[c] \in {"pausing", "waiting"}
    /\ cl' = [cl EXCEPT ![c] = "done"]
    /\ UNCHANGED <<pair, rounds, answer, toServer, toClient, queue, serverVars, setting>>

-----------------------------------------------------------------------------
(* The conversation.  A read returns whatever run of sends has arrived.    *)
ReadFirst(c) ==
    /\ srv[c] = "read1"
    /\ \E m \in 1..Len(toServer[c]) :
          /\ str1' = [str1 EXCEPT ![c] = SubSeq(toServer[c], 1, m)]
          /\ toServer' = [toServer EXCEPT ![c] = SubSeq(@, m + 1, Len(@))]
    /\ srv' = [srv EXCEPT ![c] = "read2"]
    /\ UNCHANGED <<clientVars, toClient, queue, str2, setting>>

ReadFirstEnds(c) ==
    /\ srv[c] = "read1" /\ toServer[c] = <<>> /\ cl[c] = "done"
    /\ srv' = [srv EXCEPT ![c] = "closed"]
    /\ UNCHANGED <<clientVars, toServer, toClient, queue, str1, str2, setting>>

ReadSecondLost(c) ==    \* the second read's buffer is not the one compared
    /\ srv[c] = "read2"
    /\ \E m \in 1..Len(toServer[c]) :
          toServer' = [toServer EXCEPT ![c] = SubSeq(@, m + 1, Len(@))]
    /\ srv' = [srv EXCEPT ![c] = "answer"]
    /\ UNCHANGED <<clientVars, toClient, queue, str1, str2, setting>>

ReadSecond(c) ==
    /\ srv[c] = "read2"
    /\ \E m \in 1..Len(toServer[c]) :
          /\ str2' = [str2 EXCEPT ![c] = SubSeq(toServer[c], 1, m)]
          /\ toServer' = [toServer EXCEPT ![c] = SubSeq(@, m + 1, Len(@))]
    /\ srv' = [srv EXCEPT ![c] = "answer"]
    /\ UNCHANGED <<clientVars, toClient, queue, str1, setting>>

ReadSecondRetries(c) ==     \* an empty second read is tried again
    /\ srv[c] = "read2" /\ toServer[c] = <<>> /\ cl[c] = "done"
    /\ str2' = [str2 EXCEPT ![c] = <<>>]
    /\ UNCHANGED <<clientVars, toServer, toClient, queue, srv, str1, setting>>

(* The second read is not checked: end of file is an empty string. *)
ReadSecondEnds(c) ==
    /\ srv[c] = "read2" /\ toServer[c] = <<>> /\ cl[c] = "done"
    /\ str2' = [str2 EXCEPT ![c] = <<>>]
    /\ srv' = [srv EXCEPT ![c] = "answer"]
    /\ UNCHANGED <<clientVars, toServer, toClient, queue, str1, setting>>

AnswerFirstOnly(c) ==   \* the second string left out of the comparison
    /\ srv[c] = "answer"
    /\ toClient' = [toClient EXCEPT ![c] = Append(@, str1[c])]
    /\ srv' = [srv EXCEPT ![c] = "read1"]
    /\ UNCHANGED <<clientVars, toServer, queue, str1, str2, setting>>

(* The verdict is a function of the two strings compared, so the answer is *)
(* represented by them.                                                    *)
Answer(c) ==
    /\ srv[c] = "answer"
    /\ toClient' = [toClient EXCEPT ![c] = Append(@, <<str1[c], str2[c]>>)]
    /\ srv' = [srv EXCEPT ![c] = "read1"]
    /\ UNCHANGED <<clientVars, toServer, queue, str1, str2, setting>>

-----------------------------------------------------------------------------
User(c) == Connect(c) \/ Exit(c) \/ Interrupt(c)
           \/ \E v, w \in Word : SendFirst(c, v, w)
ClientRuns(c, delay) == SendSecond(c, delay) \/ ReadAnswer(c) \/ ServerGone(c)
Converse(c) == ReadFirst(c) \/ ReadFirstEnds(c) \/ ReadSecond(c)
               \/ ReadSecondEnds(c) \/ Answer(c)

Conversing(c) == srv[c] \in {"read1", "read2", "answer"}

(* Nothing the server can do about c: no answer to send, no data and no    *)
(* end of file to read.                                                    *)
NothingToDo(c) ==
    /\ srv[c] # "answer"
    /\ Conversing(c) => toServer[c] = <<>> /\ cl[c] # "done"

-----------------------------------------------------------------------------
TypeOK ==
    /\ cl \in [Client -> {"off", "prompt", "pausing", "waiting", "done"}]
    /\ pair \in [Client -> {None} \cup Word \X Word]
    /\ rounds \in [Client -> 0..MaxRounds]
    /\ answer \in [Client -> {None} \cup Seq(Word) \X Seq(Word)]
    /\ toServer \in [Client -> Seq(Word)]
    /\ toClient \in [Client -> Seq(Seq(Word) \X Seq(Word))]
    /\ queue \in Seq(Client)
    /\ srv \in [Client -> {"none", "read1", "read2", "answer", "closed"}]
    /\ str1 \in [Client -> Seq(Word)]
    /\ str2 \in [Client -> Seq(Word)]
    /\ server \in {"concurrent", "iterative"}
    /\ longPause \in BOOLEAN
=============================================================================
