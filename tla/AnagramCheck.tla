---------------------------- MODULE AnagramCheck ----------------------------
(***************************************************************************)
(* check_anagram and sort_string of Lab05/quo2: copies of the two strings  *)
(* are sorted in place without regard to case and then compared exactly.   *)
(* One step is one iteration of the inner loop.                            *)
(***************************************************************************)
EXTENDS Naturals, FiniteSets, Sequences

CONSTANTS Char,     \* the characters, records [lower, capital]
          MaxLen    \* bound on the length of a string

ASSUME CharAssumption == Char \subseteq [lower : Nat, capital : BOOLEAN]
ASSUME MaxLenAssumption == MaxLen \in Nat

VARIABLES str,      \* the two strings as received
          s,        \* the copies s1 and s2
          which,    \* the copy being sorted, 3 when both are
          i, j,     \* the loop indices, from 1
          verdict   \* what check_anagram returns

checkVars == <<str, s, which, i, j, verdict>>

tolower(c) == c.lower

Strings == UNION {[1..n -> Char] : n \in 1..MaxLen}

CheckInit ==
    /\ str \in [1..2 -> Strings]
    /\ s = str
    /\ which = 1
    /\ i = 1 /\ j = 2
    /\ verdict = "none"

(* Strings of different length are told apart before anything is copied. *)
DifferentLength ==
    /\ verdict = "none" /\ Len(str[1]) # Len(str[2])
    /\ verdict' = "different"
    /\ UNCHANGED <<str, s, which, i, j>>

Sorting == verdict = "none" /\ Len(str[1]) = Len(str[2]) /\ which <= 2
n == Len(s[which])

Greater(a, b) == tolower(a) > tolower(b)

CopiedOver(t, a, b) == [t EXCEPT ![a] = t[b]]   \* temp left out of the swap
Swapped(t, a, b) == [t EXCEPT ![a] = t[b], ![b] = t[a]]

InnerLoop ==
    /\ Sorting /\ i < n /\ j <= n
    /\ s' = IF Greater(s[which][i], s[which][j])
            THEN [s EXCEPT ![which] = Swapped(@, i, j)]
            ELSE s
    /\ j' = j + 1
    /\ UNCHANGED <<str, which, i, verdict>>

OuterFromStart ==       \* j started at 1 instead of i + 1
    /\ Sorting /\ i < n /\ j > n
    /\ i' = i + 1
    /\ j' = 1
    /\ UNCHANGED <<str, s, which, verdict>>

OuterLoop ==
    /\ Sorting /\ i < n /\ j > n
    /\ i' = i + 1
    /\ j' = i + 2
    /\ UNCHANGED <<str, s, which, verdict>>

SortFirstOnly ==        \* sort_string(s2) left out
    /\ Sorting /\ i >= n
    /\ which' = 3
    /\ i' = 1 /\ j' = 2
    /\ UNCHANGED <<str, s, verdict>>

SortDone ==
    /\ Sorting /\ i >= n
    /\ which' = which + 1
    /\ i' = 1 /\ j' = 2
    /\ UNCHANGED <<str, s, verdict>>

CompareFolded ==        \* strcasecmp for strcmp
    /\ verdict = "none" /\ which = 3
    /\ verdict' = IF \A k \in DOMAIN s[1] : tolower(s[1][k]) = tolower(s[2][k])
                  THEN "anagrams" ELSE "different"
    /\ UNCHANGED <<str, s, which, i, j>>

Compare ==
    /\ verdict = "none" /\ which = 3
    /\ verdict' = IF s[1] = s[2] THEN "anagrams" ELSE "different"
    /\ UNCHANGED <<str, s, which, i, j>>

CheckNext == DifferentLength \/ InnerLoop \/ OuterLoop \/ SortDone \/ Compare

CheckSpec == CheckInit /\ [][CheckNext]_checkVars /\ WF_checkVars(CheckNext)

-----------------------------------------------------------------------------
CheckTypeOK ==
    /\ str \in [1..2 -> Strings] /\ s \in [1..2 -> Strings]
    /\ which \in 1..3
    /\ i \in 1..MaxLen /\ j \in 2..(MaxLen + 1)
    /\ verdict \in {"none", "anagrams", "different"}

Occurrences(c, t) == Cardinality({k \in DOMAIN t : t[k] = c})
SameCharacters(t, u) == \A c \in Char : Occurrences(c, t) = Occurrences(c, u)

(* Sorting moves characters about and loses none. *)
SortPermutes == \A k \in 1..2 : SameCharacters(s[k], str[k])

(* While a copy is sorted, every place before i holds its final character: *)
(* the places are in order and nothing behind them is smaller.             *)
SortedPrefix ==
    \A a \in 1..(i - 1) : which <= 2 =>
        \A b \in (a + 1)..Len(s[which]) : tolower(s[which][a]) <= tolower(s[which][b])

(* The program calls no two strings anagrams that are not. *)
AnagramsAreAnagrams == verdict = "anagrams" => SameCharacters(str[1], str[2])

(* And it does call them anagrams when they are, and no letter occurs in   *)
(* both cases in them.                                                     *)
OneCase == \A k, l \in 1..2 : \A a \in DOMAIN str[k], b \in DOMAIN str[l] :
               tolower(str[k][a]) = tolower(str[l][b]) => str[k][a] = str[l][b]

AnagramsFound ==
    verdict = "different" /\ OneCase => ~SameCharacters(str[1], str[2])

(* The two sorts and the comparison together: nothing is lost on the way,  *)
(* and the verdict is right up to the case of letters.                     *)
ComparisonRight ==
    CheckTypeOK /\ SortPermutes /\ SortedPrefix /\ AnagramsAreAnagrams /\ AnagramsFound
=============================================================================
