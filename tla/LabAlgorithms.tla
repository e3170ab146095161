---------------------------- MODULE LabAlgorithms ----------------------------
(***************************************************************************)
(* The computations of the request servers.  A text is a sequence of       *)
(* character codes.                                                        *)
(***************************************************************************)
EXTENDS Integers, Sequences
LOCAL INSTANCE SequencesExt
LOCAL INSTANCE TLC

Space == 32

Exchanged(s, i, j) == [s EXCEPT ![i] = s[j], ![j] = s[i]]
UpTo(n) == [i \in 1 .. n |-> i]

(* What each of the sorts must give; the servers are modelled with it.     *)
Ascending(s) == SortSeq(s, <)
Descending(s) == SortSeq(s, >)

(* A fault: the inner loop is one position short.                          *)
BubbleSortShort(s, ascending) ==
    LET step(t, j) == IF (IF ascending THEN t[j] > t[j + 1] ELSE t[j] < t[j + 1])
                      THEN Exchanged(t, j, j + 1) ELSE t
        pass(t, i) == FoldLeft(step, t, UpTo(Len(s) - i - 1))
    IN FoldLeft(pass, s, UpTo(Len(s) - 1))

BubbleSort(s, ascending) ==
    LET step(t, j) == IF (IF ascending THEN t[j] > t[j + 1] ELSE t[j] < t[j + 1])
                      THEN Exchanged(t, j, j + 1) ELSE t
        pass(t, i) == FoldLeft(step, t, UpTo(Len(s) - i))
    IN FoldLeft(pass, s, UpTo(Len(s) - 1))

ExchangeSort(s) ==
    LET row(t, i) == FoldLeft(LAMBDA u, j : IF j > i /\ u[i] > u[j]
                                            THEN Exchanged(u, i, j) ELSE u,
                              t, UpTo(Len(s)))
    IN FoldLeft(row, s, UpTo(Len(s) - 1))

(* Place of the first n, from 1, or -1.                                    *)
Position(s, n) ==
    IF n \in Range(s) THEN CHOOSE i \in DOMAIN s : s[i] = n /\ \A j \in 1 .. i - 1 : s[j] # n
    ELSE -1

(* strstr from position i on: does t begin there?                           *)
Begins(s, t, i) == i + Len(t) - 1 <= Len(s) /\ SubSeq(s, i, i + Len(t) - 1) = t

Occurrences(s, t) ==
    LET count[i \in 1 .. Len(s) + 1] ==
          IF i > Len(s) THEN 0
          ELSE IF Begins(s, t, i) THEN 1 + count[i + Len(t)] ELSE count[i + 1]
    IN count[1]

(* A fault: the search goes on one character after a match.                *)
ReplacedOverlapping(s, t, by) ==
    LET rest[i \in 1 .. Len(s) + 1] ==
          IF i > Len(s) THEN <<>>
          ELSE IF Begins(s, t, i) THEN by \o rest[i + 1] ELSE <<s[i]>> \o rest[i + 1]
    IN rest[1]

Replaced(s, t, by) ==
    LET rest[i \in 1 .. Len(s) + 1] ==
          IF i > Len(s) THEN <<>>
          ELSE IF Begins(s, t, i) THEN by \o rest[i + Len(t)] ELSE <<s[i]>> \o rest[i + 1]
    IN rest[1]

(* A fault: memory for one copy of the file.                                *)
AllocatedOnce(fsize, spare) == fsize + spare

(* The memory replace_string asks for, for a file of fsize characters: it   *)
(* does not look at the matches, nor at the length of the new word.        *)
Allocated(fsize, spare) == fsize * 2 + spare

(* The words fscanf reads.                                                 *)
Word(s, k) ==
    SubSeq(s, k, CHOOSE n \in k .. Len(s) : /\ \A i \in k .. n : s[i] # Space
                                            /\ n = Len(s) \/ s[n + 1] = Space)
Starts(s) == {k \in DOMAIN s : s[k] # Space /\ (k = 1 \/ s[k - 1] = Space)}
Tokens(s) ==
    LET start == SetToSortSeq(Starts(s), <) IN [k \in DOMAIN start |-> Word(s, start[k])]

Written(words) == FlattenSeq([k \in DOMAIN words |-> Append(words[k], Space)])

TokensEqual(s, t) == Len(SelectSeq(Tokens(s), LAMBDA w : w = t))

TokensReplaced(s, t, by) ==
    Written([k \in DOMAIN Tokens(s) |-> IF Tokens(s)[k] = t THEN by ELSE Tokens(s)[k]])

isalpha(c) == c \in 65 .. 90 \cup 97 .. 122
isdigit(c) == c \in 48 .. 57
Newline == 10
EOF == 255      \* a byte that a char makes equal to EOF

(* The last character as the statistics servers see it: the text is cut to *)
(* cap characters and a NUL, and the size of the whole text is the index.   *)
LastSeen(s, cap) ==
    IF Len(s) <= cap THEN {s[Len(s)]} ELSE IF Len(s) = cap + 1 THEN {0} ELSE {0, Newline}

(* A fault: a text without a newline at its end has one line fewer.        *)
StatisticsNoLastLine(file, cap) ==
    LET count(is(_)) == Len(SelectSeq(file, is))
    IN {<<"statistics", Len(file), count(isalpha), count(isdigit),
          count(LAMBDA c : c = Space), count(LAMBDA c : c = Newline)>>}

(* Size, letters, digits, spaces and lines of the file: all that may come  *)
(* out of it.                                                              *)
Statistics(file, cap) ==
    LET ends == {k \in DOMAIN file : file[k] = EOF}
        s == IF ends = {} THEN file
             ELSE SubSeq(file, 1, (CHOOSE k \in ends : \A l \in ends : k <= l) - 1)
        count(is(_)) == Len(SelectSeq(s, is))
        newlines == count(LAMBDA c : c = Newline)
        lines == IF s = <<>> THEN {0}
                 ELSE {IF c = Newline THEN newlines ELSE newlines + 1 : c \in LastSeen(s, cap)}
    IN {<<"statistics", Len(s), count(isalpha), count(isdigit),
          count(LAMBDA c : c = Space), n>> : n \in lines}

(* Lab03/quo3: what the child and the parent make of a text.               *)
Digits(s) == Ascending(SelectSeq(s, isdigit))
Letters(s) == Descending(SelectSeq(s, isalpha))

(* Lab01 quo2.                                                             *)
checkPalindrome(s) ==
    \A k \in 1 .. Len(s) \div 2 : s[k] = s[Len(s) + 1 - k]

(* A fault: the exchange is not undone, and always with the place before.  *)
PermutedNeighbours(s) ==
    LET from[l \in 1 .. Len(s), t \in [DOMAIN s -> Range(s)]] ==
          IF l = Len(s) THEN <<t>>
          ELSE FlattenSeq([k \in 1 .. Len(s) - l + 1 |->
                             from[l + 1, IF k = 1 THEN t ELSE Exchanged(t, l + k - 2, l + k - 1)]])
    IN from[1, s]

(* The permutations that permute prints, in its order.                     *)
Permuted(s) ==
    LET from[l \in 1 .. Len(s), t \in [DOMAIN s -> Range(s)]] ==
          IF l = Len(s) THEN <<t>>
          ELSE FlattenSeq([k \in 1 .. Len(s) - l + 1 |->
                             from[l + 1, Exchanged(t, l, l + k - 1)]])
    IN from[1, s]
=============================================================================
