---------------------------- MODULE MCConversations ----------------------------
(* All conversations, one of them in each behaviour.                       *)
EXTENDS Chat, TurnTaking, Exchanges

Init == ChatInit \/ TurnInit \/ ExchangeInit

Next == ChatNext \/ TurnNext \/ ExchangeNext

(* As long as some process can go on without its user, one does.           *)
Spec ==
    /\ Init
    /\ [][Next]_vars
    /\ WF_vars(Next /\ said' = said)

-----------------------------------------------------------------------------
(* The programs that take turns stay in turn: words and answers belong     *)
(* together, it is always somebody's turn, and the echoes are as many as   *)
(* the characters.                                                         *)
TurnsKept == WordsInStep /\ SomebodysTurn /\ EchoRoundsFit

(* The end of one side is noticed by the other, in the chats and in the    *)
(* single exchanges.                                                       *)
EndSeen == ExitSeen /\ EndNoticed
=============================================================================
