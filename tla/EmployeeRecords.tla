--------------------------- MODULE EmployeeRecords ---------------------------
(***************************************************************************)
(* What it means to deduplicate a sequence of employee records and to      *)
(* report it in order, stated without saying how either is computed.       *)
(***************************************************************************)
EXTENDS Naturals, FiniteSets, Sequences, SequencesExt

(* The positions of s that a removal of id keeps: every other id, and the  *)
(* first record with this one.                                             *)
Kept(s, id) ==
    {k \in DOMAIN s : s[k].id = id => \A j \in 1..(k - 1) : s[j].id # id}

(* The j-th of the numbers K, and the elements of s at the positions K, in *)
(* their order in s.                                                       *)
Nth(K, j) == CHOOSE k \in K : Cardinality({x \in K : x <= k}) = j
Pick(s, K) == [j \in 1..Cardinality(K) |-> s[Nth(K, j)]]

Dedup(s, id) == Pick(s, Kept(s, id))
Duplicates(s, id) == Pick(s, DOMAIN s \ Kept(s, id))

(* Descending experience, ascending names among equals. *)
InOrder(a, b) == a.exp > b.exp \/ (a.exp = b.exp /\ a.name <= b.name)

Occurrences(r, s) == Cardinality({k \in DOMAIN s : s[k] = r})

IsSortedReport(report, s) ==
    /\ \A j, k \in DOMAIN report : j < k => InOrder(report[j], report[k])
    /\ \A r \in ToSet(report \o s) : Occurrences(r, report) = Occurrences(r, s)
=============================================================================
