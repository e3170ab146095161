---------------------------- MODULE MCAlgorithms ----------------------------
(***************************************************************************)
(* The sequential algorithms, one of them in each behaviour: the anagram   *)
(* check of Lab05/quo2, the codes of Lab06, the buckets of Lab07, and the  *)
(* computations of the request servers on a text typed letter by letter.   *)
(***************************************************************************)
EXTENDS AnagramCheck, TrafficShaping, ErrorControl

CONSTANTS TextChars,    \* the characters a text is typed of
          MaxText,      \* bound on the length of a text
          Spare         \* characters that replace_string asks for beyond
                        \* twice the file: 1000, here the least that will do

VARIABLE typed

Letters == {[lower |-> 1, capital |-> FALSE], [lower |-> 1, capital |-> TRUE],
            [lower |-> 2, capital |-> FALSE]}

(* Strings of which no step compares anything: the check is over. *)
NoCheck == /\ str = [k \in 1..2 |-> <<CHOOSE c \in Char : TRUE>>]
           /\ s = str /\ which = 1 /\ i = 1 /\ j = 2 /\ verdict = "anagrams"

(* The numbers quo1/code.c and quo2/code.c are written with. *)
MCArrivalTimes == <<1, 2, 3, 5, 6, 8, 11, 12, 15, 16, 19>>

Lab == INSTANCE LabAlgorithms

(* No text: 0 is not a character. *)
NoText == typed = <<0>>
TextInit == typed = <<>>
TextNext ==
    /\ ~NoText
    /\ Len(typed) < MaxText
    /\ \E c \in TextChars : typed' = Append(typed, c)

all == <<checkVars, controlVars, leaky, token, typed>>

AlgorithmsInit ==
    \/ CheckInit /\ NotRun /\ LeakyOff /\ TokenOff /\ NoText
    \/ NoCheck /\ ControlInit /\ LeakyOff /\ TokenOff /\ NoText
    \/ NoCheck /\ NotRun /\ LeakyInit /\ TokenOff /\ NoText
    \/ NoCheck /\ NotRun /\ LeakyOff /\ TokenInit /\ NoText
    \/ NoCheck /\ NotRun /\ LeakyOff /\ TokenOff /\ TextInit

AlgorithmsNext ==
    \/ CheckNext /\ UNCHANGED <<controlVars, leaky, token, typed>>
    \/ ControlNext /\ UNCHANGED <<checkVars, leaky, token, typed>>
    \/ LeakyNext /\ UNCHANGED <<checkVars, controlVars, token, typed>>
    \/ TokenNext /\ UNCHANGED <<checkVars, controlVars, leaky, typed>>
    \/ TextNext /\ UNCHANGED <<checkVars, controlVars, leaky, token>>

AlgorithmsSpec ==
    AlgorithmsInit /\ [][AlgorithmsNext]_all /\ WF_all(AlgorithmsNext)

-----------------------------------------------------------------------------
Text == typed # <<>> /\ ~NoText

(* The two sorts of the servers, one that exchanges neighbours and one that *)
(* exchanges each place with the later ones, put any array in order.        *)
SortsAgree ==
    Text => /\ Lab!BubbleSort(typed, TRUE) = Lab!Ascending(typed)
            /\ Lab!BubbleSort(typed, FALSE) = Lab!Descending(typed)
            /\ Lab!ExchangeSort(typed) = Lab!Ascending(typed)

(* replace_string of Lab02/quo1 does not count the matches before it asks   *)
(* for memory, and it is enough for every file and every word only as long  *)
(* as the new word is at most twice as long as the old one: then the text   *)
(* and its NUL fit whatever matches.  (A new word that is longer still      *)
(* overruns the memory if it replaces enough matches.)  What was replaced   *)
(* can be told from the result: with a character that was not in the file,  *)
(* to replace it back gives the file again.                                 *)
Fresh(length) == [k \in 1 .. length |-> 0]

ReplacementFits ==
    Text => \A k \in DOMAIN typed : \A length \in 1 .. 2 * k :
              LET word == SubSeq(typed, 1, k)
                  result == Lab!Replaced(typed, word, Fresh(length))
              IN /\ Len(result) + 1 <= Lab!Allocated(Len(typed), Spare)
                 /\ Lab!Replaced(result, Fresh(length), word) = typed

(* A file that fits the buffer has as many lines as places where one        *)
(* begins, whether or not the last of them is ended by a newline.           *)
LinesCounted ==
    Text => \A st \in Lab!Statistics(typed, MaxText) :
              st[6] = Cardinality({k \in DOMAIN typed : k = 1 \/ typed[k - 1] = Lab!Newline})

(* permute prints every arrangement of the letters, as many times as there  *)
(* are ways to come by it, and leaves the string as it was.                 *)
Orders == {p \in [DOMAIN typed -> DOMAIN typed] : \A k, l \in DOMAIN typed : p[k] = p[l] => k = l}

ArrangementsPrinted ==
    Text =>
    LET printed == Lab!Permuted(typed)
        arranged(p) == [k \in DOMAIN typed |-> typed[p[k]]]
    IN \A t \in {arranged(p) : p \in Orders} :
         Cardinality({k \in DOMAIN printed : printed[k] = t})
           = Cardinality({p \in Orders : arranged(p) = t})

-----------------------------------------------------------------------------
(* What the servers compute with is right: sorts, replacement, counts and   *)
(* arrangements.                                                            *)
ComputationsRight == SortsAgree /\ ReplacementFits /\ LinesCounted /\ ArrangementsPrinted

=============================================================================
