--------------------------- MODULE AlgorithmsProofs ---------------------------
(***************************************************************************)
(* Theorems about the algorithms the labs work out, and about the servers  *)
(* that use one of them.  The leaky and the token bucket of Lab07, for     *)
(* every list of arrival times and every size and rate; the comparison of  *)
(* Lab05/quo2, for strings of any length over any characters: the two      *)
(* sorts lose nothing and sort, and the verdict of check_anagram is right  *)
(* up to the case of letters; the parity and the Hamming code of Lab06,    *)
(* for data of any length; and the servers of Lab05/quo2, for any clients, *)
(* words and rounds: an answer is about the two strings of its round, and  *)
(* a pause that is long enough separates the reads of the concurrent one.  *)
(***************************************************************************)
EXTENDS AnagramServers, AnagramCheck, TrafficShaping, ErrorControl, SequenceTheorems, FiniteSetTheorems, TLAPS

-----------------------------------------------------------------------------
(* The buckets.                                                            *)

(* The clock never runs ahead of the next arrival. *)
ClockOK ==
    /\ last_time \in Nat
    /\ \A p \in Packets : /\ p >= packet => last_time <= arrival_times[p]
                          /\ p < packet => arrival_times[p] <= last_time

LeakyTypeOK ==
    /\ packet \in Nat \ {0}
    /\ since \in [Packets -> Nat]
    /\ \A p \in Packets : p >= packet => since[p] = 0

(* The invariant behind OutputBounded: what has been accepted since packet *)
(* p and has not leaked out is still in the bucket.                        *)
Retained ==
    \A p \in Packets : p < packet =>
        since[p] <= bucket_content + outgoing_rate * (last_time - arrival_times[p])

LeakyInv == LeakyTypeOK /\ ClockOK /\ BucketWithinSize /\ Retained

LEMMA ArrivalFacts ==
    /\ \A p \in Packets : arrival_times[p] \in Nat /\ p \in Nat \ {0}
    /\ \A p, k \in Packets : p <= k => arrival_times[p] <= arrival_times[k]
  BY ArrivalAssumption DEF Packets

(* Leaking takes outgoing_rate from the bucket for every second, unless it *)
(* runs empty.                                                             *)
LEMMA LeakFacts ==
    ASSUME LeakyInv, Arriving
    PROVE  /\ Leaked \in 0..bucket_size
           /\ bucket_content <= Leaked + outgoing_rate * (arrival_times[packet] - last_time)
<1> DEFINE dt == arrival_times[packet] - last_time
<1>1. dt \in Nat
  BY ArrivalFacts DEF LeakyInv, ClockOK, LeakyTypeOK, Arriving
<1>2. dt * outgoing_rate \in Nat /\ outgoing_rate * dt = dt * outgoing_rate
  BY <1>1, LeakyAssumption
<1>3. bucket_content \in Nat /\ bucket_content <= bucket_size
  BY LeakyAssumption DEF LeakyInv, BucketWithinSize
<1> QED
  BY <1>1, <1>2, <1>3, LeakyAssumption DEF Leaked, NotBelowZero

LEMMA LeakyInitially == LeakyInit => LeakyInv
  BY ArrivalFacts, LeakyAssumption
  DEF LeakyInit, LeakyInv, LeakyTypeOK, ClockOK, BucketWithinSize, Retained

(* A step moves the clock to the packet that arrives. *)
LEMMA ClockStep ==
    ASSUME LeakyInv, Arriving, NextPacket
    PROVE  ClockOK' /\ packet' \in Nat \ {0}
  BY ArrivalFacts DEF LeakyInv, LeakyTypeOK, ClockOK, Arriving, NextPacket, Packets

(* Moving the clock on adds to the allowance of each packet what leaks in  *)
(* the meantime.                                                           *)
LEMMA AllowanceGrows ==
    ASSUME LeakyInv, Arriving, NextPacket, NEW p \in Packets, p < packet
    PROVE  /\ last_time' - arrival_times[p] \in Nat
           /\ since[p] <= Leaked + outgoing_rate * (last_time' - arrival_times[p])
<1> DEFINE old == last_time - arrival_times[p]
           dt  == arrival_times[packet] - last_time
<1>1. old \in Nat /\ dt \in Nat
  BY ArrivalFacts DEF LeakyInv, ClockOK, LeakyTypeOK, Arriving
<1>2. last_time' - arrival_times[p] = old + dt
  BY <1>1, ArrivalFacts DEF NextPacket, LeakyInv, ClockOK, Arriving
<1>3. outgoing_rate * (old + dt) = outgoing_rate * old + outgoing_rate * dt
  BY <1>1, LeakyAssumption
<1>4. since[p] <= bucket_content + outgoing_rate * old
  BY DEF LeakyInv, Retained
<1>5. /\ bucket_content <= Leaked + outgoing_rate * dt
      /\ Leaked \in Nat
  BY LeakFacts, LeakyAssumption
<1>6. /\ outgoing_rate * old \in Nat /\ outgoing_rate * dt \in Nat
      /\ since[p] \in Nat /\ bucket_content \in Nat
  BY <1>1, LeakyAssumption DEF LeakyInv, LeakyTypeOK, BucketWithinSize
<1> HIDE DEF old, dt
<1> QED
  BY <1>1, <1>2, <1>3, <1>4, <1>5, <1>6

LEMMA LeakyStep == LeakyInv /\ [LeakyNext]_leaky => LeakyInv'
<1> SUFFICES ASSUME LeakyInv, [LeakyNext]_leaky PROVE LeakyInv'
  OBVIOUS
<1>1. CASE Conforming
  <2>1. Arriving /\ NextPacket /\ Leaked \in Nat /\ packet \in Packets
    BY <1>1, LeakFacts, LeakyAssumption DEF Conforming, Arriving
  <2>2. ClockOK' /\ packet' \in Nat \ {0}
    BY <2>1, ClockStep
  <2>3. BucketWithinSize'
    BY <1>1, <2>1, LeakyAssumption DEF Conforming, Fits, BucketWithinSize
  <2>4. LeakyTypeOK'
    BY <1>1, <2>1, <2>2, LeakyAssumption, ArrivalFacts
    DEF Conforming, LeakyInv, LeakyTypeOK, NextPacket
  <2>5. ASSUME NEW p \in Packets, p < packet'
        PROVE  since'[p] <= bucket_content' + outgoing_rate * (last_time' - arrival_times[p])
    <3>1. CASE p < packet
      <4>1. /\ last_time' - arrival_times[p] \in Nat
            /\ since[p] <= Leaked + outgoing_rate * (last_time' - arrival_times[p])
        BY <2>1, <3>1, AllowanceGrows
      <4>2. since'[p] = since[p] + packet_size /\ bucket_content' = Leaked + packet_size
        BY <1>1, <3>1, <2>1, ArrivalFacts DEF Conforming, LeakyInv, LeakyTypeOK
      <4>3. outgoing_rate * (last_time' - arrival_times[p]) \in Nat /\ since[p] \in Nat
        BY <4>1, LeakyAssumption DEF LeakyInv, LeakyTypeOK
      <4> QED
        BY <4>1, <4>2, <4>3, <2>1, LeakyAssumption
    <3>2. CASE p = packet
      <4>1. since'[p] = packet_size /\ bucket_content' = Leaked + packet_size
        BY <1>1, <3>2, <2>1, ArrivalFacts, LeakyAssumption DEF Conforming, LeakyInv, LeakyTypeOK
      <4>2. last_time' - arrival_times[p] = 0
        BY <3>2, <2>1, ArrivalFacts DEF NextPacket
      <4> QED
        BY <4>1, <4>2, <2>1, LeakyAssumption
    <3> QED
      BY <2>1, <2>5, <3>1, <3>2, ArrivalFacts DEF NextPacket, LeakyInv, LeakyTypeOK
  <2> QED
    BY <2>2, <2>3, <2>4, <2>5 DEF LeakyInv, Retained
<1>2. CASE Nonconforming
  <2>1. /\ Arriving /\ NextPacket /\ Leaked \in 0..bucket_size /\ packet \in Packets
        /\ since' = since /\ bucket_content' = Leaked
    BY <1>2, LeakFacts DEF Nonconforming, Arriving
  <2>2. ClockOK' /\ packet' \in Nat \ {0}
    BY <2>1, ClockStep
  <2>3. BucketWithinSize' /\ LeakyTypeOK'
    BY <2>1, <2>2, ArrivalFacts DEF BucketWithinSize, LeakyInv, LeakyTypeOK, NextPacket
  <2>4. ASSUME NEW p \in Packets, p < packet'
        PROVE  since'[p] <= bucket_content' + outgoing_rate * (last_time' - arrival_times[p])
    <3>1. CASE p < packet
      BY <2>1, <3>1, AllowanceGrows
    <3>2. CASE p = packet
      <4>1. since'[p] = 0 /\ last_time' - arrival_times[p] = 0
        BY <3>2, <2>1, ArrivalFacts DEF NextPacket, LeakyInv, LeakyTypeOK
      <4> QED
        BY <4>1, <2>1, LeakyAssumption
    <3> QED
      BY <2>1, <2>4, <3>1, <3>2, ArrivalFacts DEF NextPacket, LeakyInv, LeakyTypeOK
  <2> QED
    BY <2>2, <2>3, <2>4 DEF LeakyInv, Retained
<1>3. CASE UNCHANGED leaky
  BY <1>3 DEF leaky, LeakyInv, LeakyTypeOK, ClockOK, BucketWithinSize, Retained
<1> QED
  BY <1>1, <1>2, <1>3 DEF LeakyNext

LEMMA LeakyInvariant == LeakySpec => []LeakyInv
  BY LeakyInitially, LeakyStep, PTL DEF LeakySpec

(* The leaky bucket never overflows and never holds less than nothing,     *)
(* whatever the arrival times, sizes and rate.                             *)
THEOREM BucketCorrect == LeakySpec => []BucketWithinSize
<1>1. LeakyInv => BucketWithinSize
  BY DEF LeakyInv
<1> QED
  BY LeakyInvariant, <1>1, PTL

(* The leaky bucket keeps its contract: the traffic it lets through from   *)
(* any packet on is bounded by its size plus what leaks out.               *)
THEOREM OutputIsBounded == LeakySpec => []OutputBounded
<1>1. ASSUME LeakyInv PROVE OutputBounded
  <2> SUFFICES ASSUME NEW p \in Packets, p < packet
               PROVE  since[p] <= bucket_size
                          + outgoing_rate * (last_time - arrival_times[p])
    BY DEF OutputBounded
  <2>1. last_time - arrival_times[p] \in Nat
    BY <1>1, ArrivalFacts DEF LeakyInv, ClockOK
  <2>2. outgoing_rate * (last_time - arrival_times[p]) \in Nat
    BY <2>1, LeakyAssumption
  <2> QED
    BY <1>1, <2>2, LeakyAssumption DEF LeakyInv, Retained, BucketWithinSize, LeakyTypeOK
<1> QED
  BY LeakyInvariant, <1>1, PTL

(* The token bucket never holds more tokens than its size, nor less than   *)
(* none, whatever its rate and the size of the packets.                    *)
THEOREM TokensCorrect == TokenSpec => []TokensWithinSize
<1>1. TokenInit => TokensWithinSize
  BY TokenAssumption DEF TokenInit, TokensWithinSize
<1>2. TokensWithinSize /\ [TokenNext]_token => TokensWithinSize'
  <2> SUFFICES ASSUME TokensWithinSize, [TokenNext]_token PROVE TokensWithinSize'
    OBVIOUS
  <2>1. Refilled \in 0..max_bucket_size
    BY TokenAssumption DEF Refilled, TokensWithinSize
  <2>2. CASE SendPacket
    BY <2>1, <2>2, TokenAssumption DEF SendPacket, TokensWithinSize
  <2>3. CASE Queue
    BY <2>1, <2>3, TokenAssumption DEF Queue, TokensWithinSize
  <2>4. CASE UNCHANGED token
    BY <2>4 DEF token, TokensWithinSize
  <2> QED
    BY <2>2, <2>3, <2>4 DEF TokenNext
<1> QED
  BY <1>1, <1>2, PTL DEF TokenSpec

-----------------------------------------------------------------------------
(* Strings, and where a character occurs in one.                           *)
LEMMA StringsAre ==
    ASSUME NEW t
    PROVE  t \in Strings <=> t \in Seq(Char) /\ Len(t) \in 1..MaxLen
<1>1. ASSUME t \in Strings PROVE t \in Seq(Char) /\ Len(t) \in 1..MaxLen
  <2>1. PICK m \in 1..MaxLen : t \in [1..m -> Char]
    BY <1>1 DEF Strings
  <2>2. m \in Nat
    BY <2>1, MaxLenAssumption
  <2> QED
    BY <2>1, <2>2
<1>2. ASSUME t \in Seq(Char), Len(t) \in 1..MaxLen PROVE t \in Strings
  BY <1>2 DEF Strings
<1> QED
  BY <1>1, <1>2

Where(c, t) == {k \in DOMAIN t : t[k] = c}

LEMMA WhereFinite ==
    ASSUME NEW t \in Seq(Char), NEW c
    PROVE  /\ IsFiniteSet(Where(c, t)) /\ Occurrences(c, t) = Cardinality(Where(c, t))
           /\ DOMAIN t = 1..Len(t) /\ Len(t) \in Nat /\ IsFiniteSet(1..Len(t))
<1>1. DOMAIN t = 1..Len(t) /\ Len(t) \in Nat
  OBVIOUS
<1>2. IsFiniteSet(1..Len(t))
  BY <1>1, FS_Interval
<1>3. Where(c, t) \subseteq 1..Len(t)
  BY <1>1 DEF Where
<1> QED
  BY <1>1, <1>2, <1>3, FS_Subset DEF Occurrences, Where

(* Exchanging two characters moves the places of each, one to one.         *)
LEMMA SwapPermutes ==
    ASSUME NEW t \in Seq(Char), NEW a \in 1..Len(t), NEW b \in 1..Len(t)
    PROVE  /\ Swapped(t, a, b) \in Seq(Char) /\ Len(Swapped(t, a, b)) = Len(t)
           /\ SameCharacters(Swapped(t, a, b), t)
<1> DEFINE u == Swapped(t, a, b)
<1>1. /\ u \in Seq(Char) /\ Len(u) = Len(t) /\ DOMAIN u = DOMAIN t /\ DOMAIN t = 1..Len(t)
      /\ u[a] = t[b] /\ u[b] = t[a]
      /\ \A k \in 1..Len(t) : k # a /\ k # b => u[k] = t[k]
  BY DEF Swapped
<1> HIDE DEF u
<1>2. ASSUME NEW c \in Char PROVE Occurrences(c, u) = Occurrences(c, t)
  <2> DEFINE f == [k \in Where(c, t) |-> IF k = a THEN b ELSE IF k = b THEN a ELSE k]
             A == Where(c, t)  B == Where(c, u)
  <2>1. f \in [A -> B]
    BY <1>1 DEF Where
  <2>2. \A x, y \in A : f[x] = f[y] => x = y
    OBVIOUS
  <2>3. \A y \in B : \E x \in A : f[x] = y
    <3> SUFFICES ASSUME NEW y \in B PROVE \E x \in A : f[x] = y
      OBVIOUS
    <3>1. CASE y = a
      <4>1. b \in A
        BY <1>1, <3>1 DEF Where
      <4> QED
        BY <3>1, <4>1
    <3>2. CASE y = b
      <4>1. a \in A
        BY <1>1, <3>2 DEF Where
      <4> QED
        BY <3>2, <4>1
    <3>3. CASE y # a /\ y # b
      <4>1. y \in A
        BY <1>1, <3>3 DEF Where
      <4> QED
        BY <3>3, <4>1
    <3> QED
      BY <3>1, <3>2, <3>3
  <2>4. IsFiniteSet(A) /\ Occurrences(c, t) = Cardinality(A) /\ Occurrences(c, u) = Cardinality(B)
    BY <1>1, WhereFinite
  <2> HIDE DEF f, A, B
  <2>5. f \in Bijection(A, B)
    BY <2>1, <2>2, <2>3 DEF Bijection, Injection, Surjection, IsInjective
  <2>6. Cardinality(B) = Cardinality(A)
    <3>1. ExistsBijection(A, B)
      BY <2>5 DEF ExistsBijection
    <3> QED
      BY <2>4, <3>1, FS_Bijection
  <2> QED
    BY <2>4, <2>6
<1> QED
  BY <1>1, <1>2 DEF SameCharacters, u

(* Two strings with the same characters match place for place: the places  *)
(* of each character correspond one to one, and so do all of them.         *)
LEMMA Matching ==
    ASSUME NEW t \in Seq(Char), NEW u \in Seq(Char), SameCharacters(t, u)
    PROVE  \E F \in Bijection(1..Len(t), 1..Len(u)) :
              \A k \in 1..Len(t) : u[F[k]] = t[k]
<1> DEFINE G == [c \in Char |-> CHOOSE f : f \in Bijection(Where(c, t), Where(c, u))]
           F == [k \in 1..Len(t) |-> G[t[k]][k]]
<1>1. DOMAIN t = 1..Len(t) /\ DOMAIN u = 1..Len(u)
      /\ (\A k \in 1..Len(t) : t[k] \in Char) /\ (\A k \in 1..Len(u) : u[k] \in Char)
  OBVIOUS
<1>2. ASSUME NEW c \in Char PROVE G[c] \in Bijection(Where(c, t), Where(c, u))
  <2>1. /\ IsFiniteSet(Where(c, t)) /\ IsFiniteSet(Where(c, u))
        /\ Cardinality(Where(c, t)) = Cardinality(Where(c, u))
    BY WhereFinite DEF SameCharacters
  <2>2. ExistsBijection(Where(c, t), Where(c, u))
    BY <2>1, FS_SameCardinalityBij
  <2>3. \E f : f \in Bijection(Where(c, t), Where(c, u))
    BY <2>2 DEF ExistsBijection
  <2> QED
    BY <2>3
<1> HIDE DEF G
<1>3. ASSUME NEW c \in Char
      PROVE  /\ G[c] \in [Where(c, t) -> Where(c, u)]
             /\ \A x, y \in Where(c, t) : G[c][x] = G[c][y] => x = y
             /\ \A y \in Where(c, u) : \E x \in Where(c, t) : G[c][x] = y
  BY <1>2 DEF Bijection, Injection, Surjection, IsInjective
<1>4. ASSUME NEW k \in 1..Len(t) PROVE F[k] \in 1..Len(u) /\ u[F[k]] = t[k]
  <2>1. t[k] \in Char /\ k \in Where(t[k], t)
    BY <1>1 DEF Where
  <2>2. G[t[k]][k] \in Where(t[k], u)
    BY <1>3, <2>1
  <2> QED
    BY <1>1, <2>2 DEF Where
<1>5. ASSUME NEW x \in 1..Len(t), NEW y \in 1..Len(t), F[x] = F[y] PROVE x = y
  <2>1. t[x] = t[y]
    BY <1>4, <1>5
  <2>2. t[x] \in Char /\ x \in Where(t[x], t) /\ y \in Where(t[x], t)
    BY <1>1, <2>1 DEF Where
  <2> QED
    BY <1>3, <1>5, <2>1, <2>2
<1>6. ASSUME NEW y \in 1..Len(u) PROVE \E x \in 1..Len(t) : F[x] = y
  <2>1. u[y] \in Char /\ y \in Where(u[y], u)
    BY <1>1 DEF Where
  <2>2. PICK x \in Where(u[y], t) : G[u[y]][x] = y
    BY <1>3, <2>1
  <2> QED
    BY <1>1, <2>2 DEF Where
<1>7. F \in [1..Len(t) -> 1..Len(u)]
  BY <1>4
<1> HIDE DEF F
<1>8. F \in Bijection(1..Len(t), 1..Len(u))
  BY <1>5, <1>6, <1>7 DEF Bijection, Injection, Surjection, IsInjective
<1> QED
  BY <1>4, <1>8

LEMMA Counting ==
    ASSUME NEW m \in Nat
    PROVE  IsFiniteSet(1..m) /\ Cardinality(1..m) = m
<1>1. 1 \in Int /\ m \in Int
  OBVIOUS
<1> QED
  BY <1>1, FS_Interval

LEMMA SameLength ==
    ASSUME NEW t \in Seq(Char), NEW u \in Seq(Char), SameCharacters(t, u)
    PROVE  Len(t) = Len(u)
<1>1. ExistsBijection(1..Len(t), 1..Len(u))
  BY Matching DEF ExistsBijection
<1>2. Len(t) \in Nat /\ Len(u) \in Nat
  OBVIOUS
<1>3. IsFiniteSet(1..Len(t)) /\ Cardinality(1..Len(t)) = Len(t)
      /\ Cardinality(1..Len(u)) = Len(u)
  BY <1>2, Counting
<1> QED
  BY <1>1, <1>3, FS_Bijection

-----------------------------------------------------------------------------
(* Sorted strings with the same characters agree at every place, up to the *)
(* case of letters: otherwise the d places up to some d of one would have  *)
(* to be matched with the fewer places before d of the other.              *)
Sorted(t) == \A a, b \in 1..Len(t) : a < b => tolower(t[a]) <= tolower(t[b])

LEMMA LowerIsNat == ASSUME NEW c \in Char PROVE tolower(c) \in Nat
BY CharAssumption DEF tolower

LEMMA NoneSmaller ==
    ASSUME NEW t \in Seq(Char), NEW u \in Seq(Char), SameCharacters(t, u),
           Sorted(t), Sorted(u), NEW d \in 1..Len(t), d \in 1..Len(u)
    PROVE  ~(tolower(t[d]) < tolower(u[d]))
<1> SUFFICES ASSUME tolower(t[d]) < tolower(u[d]) PROVE FALSE
  OBVIOUS
<1>1. PICK F \in Bijection(1..Len(t), 1..Len(u)) : \A k \in 1..Len(t) : u[F[k]] = t[k]
  BY Matching
<1>2. /\ F \in [1..Len(t) -> 1..Len(u)]
      /\ \A x, y \in 1..Len(t) : F[x] = F[y] => x = y
  BY DEF Bijection, Injection, IsInjective
<1>3. d \in Nat /\ 1..d \subseteq 1..Len(t)
  OBVIOUS
<1>4. ASSUME NEW k \in 1..d PROVE F[k] \in 1..(d - 1)
  <2>1. k \in 1..Len(t) /\ F[k] \in 1..Len(u) /\ u[F[k]] = t[k]
    BY <1>1, <1>2, <1>3
  <2>2. t[k] \in Char /\ t[d] \in Char /\ u[d] \in Char
    BY <2>1
  <2>3. tolower(t[k]) <= tolower(t[d])
    <3>1. CASE k = d
      BY <2>2, <3>1, LowerIsNat
    <3>2. CASE k # d
      BY <1>3, <2>1, <3>2 DEF Sorted
    <3> QED
      BY <3>1, <3>2
  <2>4. tolower(u[F[k]]) < tolower(u[d])
    <3>1. tolower(t[k]) \in Nat /\ tolower(t[d]) \in Nat /\ tolower(u[d]) \in Nat
      BY <2>2, LowerIsNat
    <3>2. tolower(t[k]) < tolower(u[d])
      BY <2>3, <3>1
    <3> QED
      BY <2>1, <3>2
  <2>5. CASE F[k] = d
    <3>1. tolower(u[d]) \in Nat
      BY <2>2, LowerIsNat
    <3> QED
      BY <2>4, <2>5, <3>1
  <2>6. CASE d < F[k]
    <3>1. tolower(u[d]) <= tolower(u[F[k]])
      BY <2>1, <2>6 DEF Sorted
    <3>2. tolower(u[d]) \in Nat /\ tolower(u[F[k]]) \in Nat
      BY <2>1, <2>2, LowerIsNat
    <3> QED
      BY <2>4, <3>1, <3>2
  <2> QED
    BY <1>3, <2>1, <2>5, <2>6
<1> DEFINE f == [k \in 1..d |-> F[k]]
<1>5. f \in Injection(1..d, 1..(d - 1))
  BY <1>2, <1>3, <1>4 DEF Injection, IsInjective
<1> HIDE DEF f
<1>6. IsFiniteSet(1..(d - 1)) /\ Cardinality(1..(d - 1)) = d - 1 /\ Cardinality(1..d) = d
  <2>1. d - 1 \in Nat
    BY <1>3
  <2> QED
    BY <1>3, <2>1, Counting
<1>7. Cardinality(1..d) <= Cardinality(1..(d - 1))
  BY <1>5, <1>6, FS_Injection
<1> QED
  BY <1>3, <1>6, <1>7

-----------------------------------------------------------------------------
(* The sort's invariant: the copies keep their lengths and characters, the *)
(* indices stay within the copy being sorted, every place before i is      *)
(* final, nothing between i and j is smaller than what is at i, and the    *)
(* copies before this one are sorted.                                      *)
LenKept == \A k \in 1..2 : Len(s[k]) = Len(str[k])

IndexOK == i < j /\ (which <= 2 => i <= Len(s[which]) /\ j <= Len(s[which]) + 1)

LeastSoFar ==
    which <= 2 => \A b \in (i + 1)..(j - 1) : tolower(s[which][i]) <= tolower(s[which][b])

DoneSorted == \A k \in 1..2 : k < which /\ Len(str[1]) = Len(str[2]) => Sorted(s[k])

VerdictOK ==
    /\ verdict = "anagrams" => s[1] = s[2]
    /\ verdict = "different" =>
          \/ Len(str[1]) # Len(str[2])
          \/ which = 3 /\ Len(str[1]) = Len(str[2]) /\ s[1] # s[2]

CheckInv == /\ CheckTypeOK /\ LenKept /\ IndexOK /\ SortPermutes
        /\ SortedPrefix /\ LeastSoFar /\ DoneSorted /\ VerdictOK

LEMMA CopiesTyped ==
    ASSUME CheckTypeOK
    PROVE  \A k \in 1..2 :
              /\ s[k] \in Seq(Char) /\ Len(s[k]) \in 1..MaxLen
              /\ str[k] \in Seq(Char) /\ Len(str[k]) \in 1..MaxLen
<1>1. \A k \in 1..2 : s[k] \in Strings /\ str[k] \in Strings
  BY DEF CheckTypeOK
<1> QED
  BY <1>1, StringsAre

LEMMA SameReflexive == ASSUME NEW t PROVE SameCharacters(t, t)
BY DEF SameCharacters

LEMMA CheckInvInit == CheckInit => CheckInv
<1> SUFFICES ASSUME CheckInit PROVE CheckInv
  OBVIOUS
<1>1. str \in [1..2 -> Strings] /\ s = str /\ which = 1 /\ i = 1 /\ j = 2 /\ verdict = "none"
  BY DEF CheckInit
<1>2. \A k \in 1..2 : s[k] \in Strings /\ Len(s[k]) \in 1..MaxLen
  BY <1>1, StringsAre
<1>3. MaxLen \in Nat /\ 1 <= MaxLen
  BY <1>2, MaxLenAssumption
<1>4. CheckTypeOK
  BY <1>1, <1>3 DEF CheckTypeOK
<1>5. LenKept /\ IndexOK
  BY <1>1, <1>2 DEF LenKept, IndexOK
<1>6. SortPermutes
  BY <1>1, SameReflexive DEF SortPermutes
<1>7. SortedPrefix /\ LeastSoFar /\ DoneSorted /\ VerdictOK
  BY <1>1 DEF SortedPrefix, LeastSoFar, DoneSorted, VerdictOK
<1> QED
  BY <1>4, <1>5, <1>6, <1>7 DEF CheckInv

LEMMA InnerLoopKeeps == ASSUME CheckInv, InnerLoop PROVE CheckInv'
<1> DEFINE t == s[which]  u == s'[which]  m == Len(t)
<1>1. /\ verdict = "none" /\ Len(str[1]) = Len(str[2]) /\ which \in 1..2
      /\ i < m /\ j <= m /\ j' = j + 1
      /\ UNCHANGED <<str, which, i, verdict>>
  BY DEF CheckInv, CheckTypeOK, InnerLoop, Sorting, n
<1>2. t \in Seq(Char) /\ m \in 1..MaxLen
  BY <1>1, CopiesTyped DEF CheckInv
<1>3. i \in 1..m /\ j \in 1..m /\ i < j
  BY <1>1, <1>2, MaxLenAssumption DEF CheckInv, CheckTypeOK, IndexOK
<1>4. s' = IF Greater(t[i], t[j]) THEN [s EXCEPT ![which] = Swapped(t, i, j)] ELSE s
  BY DEF InnerLoop
<1>5. s' \in [1..2 -> Strings] /\ \A k \in 1..2 : k # which => s'[k] = s[k]
  <2>1. Swapped(t, i, j) \in Strings
    BY <1>2, <1>3, SwapPermutes, StringsAre
  <2> QED
    BY <1>4, <2>1 DEF CheckInv, CheckTypeOK
<1>6. /\ u \in Seq(Char) /\ Len(u) = m /\ SameCharacters(u, t)
      /\ \A a \in 1..m : a # i /\ a # j => u[a] = t[a]
      /\ \/ tolower(t[i]) > tolower(t[j]) /\ u[i] = t[j] /\ u[j] = t[i]
         \/ ~(tolower(t[i]) > tolower(t[j])) /\ u[i] = t[i] /\ u[j] = t[j]
  <2>1. CASE Greater(t[i], t[j])
    <3>1. u = Swapped(t, i, j)
      BY <1>1, <1>4, <2>1 DEF CheckInv, CheckTypeOK
    <3>2. /\ u[i] = t[j] /\ u[j] = t[i]
          /\ \A a \in 1..m : a # i /\ a # j => u[a] = t[a]
      BY <1>2, <1>3, <3>1 DEF Swapped
    <3> QED
      BY <1>2, <1>3, <2>1, <3>1, <3>2, SwapPermutes DEF Greater
  <2>2. CASE ~Greater(t[i], t[j])
    <3>1. u = t
      BY <1>1, <1>4, <2>2
    <3> QED
      BY <1>2, <2>2, <3>1, SameReflexive DEF Greater
  <2> QED
    BY <2>1, <2>2
<1>7. /\ SortedPrefix /\ LeastSoFar /\ LenKept /\ SortPermutes /\ DoneSorted
  BY DEF CheckInv
<1>8. \A a \in 1..m : tolower(t[a]) \in Nat /\ tolower(u[a]) \in Nat
  <2>1. \A a \in 1..m : t[a] \in Char /\ u[a] \in Char
    BY <1>2, <1>6
  <2> QED
    BY <2>1, LowerIsNat
<1> HIDE DEF t, u, m
<1>9. CheckTypeOK'
  <2>1. j + 1 \in 2..(MaxLen + 1)
    BY <1>2, <1>3, MaxLenAssumption
  <2> QED
    BY <1>1, <1>5, <2>1 DEF CheckInv, CheckTypeOK
<1>10. LenKept' /\ IndexOK'
  BY <1>1, <1>2, <1>3, <1>5, <1>6, <1>7 DEF LenKept, IndexOK, u, m, t
<1>11. SortPermutes'
  <2>1. ASSUME NEW k \in 1..2 PROVE SameCharacters(s'[k], str[k])
    <3>1. CASE k = which
      BY <1>6, <1>7, <3>1 DEF SortPermutes, SameCharacters, t, u
    <3>2. CASE k # which
      BY <1>5, <1>7, <3>2 DEF SortPermutes
    <3> QED
      BY <3>1, <3>2
  <2> QED
    BY <1>1, <2>1 DEF SortPermutes
<1>12. \A a \in 1..(i - 1) : \A b \in (a + 1)..m : tolower(t[a]) <= tolower(t[b])
  BY <1>1, <1>7 DEF SortedPrefix, t, m
<1>13. \A b \in (i + 1)..(j - 1) : tolower(t[i]) <= tolower(t[b])
  BY <1>1, <1>7 DEF LeastSoFar, t
<1>14. SortedPrefix'
  <2>1. ASSUME NEW a \in 1..(i - 1), NEW b \in (a + 1)..m
        PROVE  tolower(u[a]) <= tolower(u[b])
    <3>1. a \in 1..m /\ a # i /\ a # j /\ u[a] = t[a] /\ b \in 1..m
          /\ i \in (a + 1)..m /\ j \in (a + 1)..m
      BY <1>2, <1>3, <1>6
    <3>2. tolower(t[a]) <= tolower(t[i]) /\ tolower(t[a]) <= tolower(t[j])
          /\ tolower(t[a]) <= tolower(t[b])
      BY <1>12, <3>1
    <3>3. u[b] = t[b] \/ u[b] = t[i] \/ u[b] = t[j]
      BY <1>6, <3>1
    <3> QED
      BY <3>1, <3>2, <3>3
  <2> QED
    BY <1>1, <1>6, <2>1 DEF SortedPrefix, u
<1>15. LeastSoFar'
  <2>1. ASSUME NEW b \in (i + 1)..j PROVE tolower(u[i]) <= tolower(u[b])
    <3>1. b \in 1..m /\ b # i /\ (b = j \/ b \in (i + 1)..(j - 1))
      BY <1>2, <1>3
    <3>2. CASE b = j
      BY <1>3, <1>6, <1>8, <3>2
    <3>3. CASE b \in (i + 1)..(j - 1)
      <4>1. u[b] = t[b] /\ tolower(t[i]) <= tolower(t[b])
        BY <1>3, <1>6, <1>13, <3>1, <3>3
      <4>2. tolower(u[i]) <= tolower(t[i])
        BY <1>3, <1>6, <1>8
      <4> QED
        BY <1>3, <1>8, <3>1, <4>1, <4>2
    <3> QED
      BY <3>1, <3>2, <3>3
  <2>2. (j + 1) - 1 = j
    BY <1>3
  <2> QED
    BY <1>1, <2>1, <2>2 DEF LeastSoFar, u
<1>16. DoneSorted'
  <2>1. \A k \in 1..2 : k < which => k # which
    BY <1>1
  <2> QED
    BY <1>1, <1>5, <1>7, <2>1 DEF DoneSorted
<1>17. VerdictOK'
  BY <1>1 DEF VerdictOK
<1> QED
  BY <1>9, <1>10, <1>11, <1>14, <1>15, <1>16, <1>17 DEF CheckInv

LEMMA OuterLoopKeeps == ASSUME CheckInv, OuterLoop PROVE CheckInv'
<1> DEFINE t == s[which]  m == Len(t)
<1>1. /\ verdict = "none" /\ Len(str[1]) = Len(str[2]) /\ which \in 1..2
      /\ i < m /\ j > m /\ i' = i + 1 /\ j' = i + 2
      /\ UNCHANGED <<str, s, which, verdict>>
  BY DEF CheckInv, CheckTypeOK, OuterLoop, Sorting, n
<1>2. t \in Seq(Char) /\ m \in 1..MaxLen /\ m \in Nat
  BY <1>1, CopiesTyped DEF CheckInv
<1>3. i \in Nat /\ 1 <= i /\ j \in Nat
  BY MaxLenAssumption DEF CheckInv, CheckTypeOK
<1>4. \A a \in 1..(i - 1) : \A b \in (a + 1)..m : tolower(t[a]) <= tolower(t[b])
  BY <1>1 DEF CheckInv, SortedPrefix
<1>5. \A b \in (i + 1)..(j - 1) : tolower(t[i]) <= tolower(t[b])
  BY <1>1 DEF CheckInv, LeastSoFar
<1>6. LenKept /\ SortPermutes /\ DoneSorted /\ VerdictOK
  BY DEF CheckInv
<1> HIDE DEF t, m
<1>7. CheckTypeOK'
  BY <1>1, <1>2, <1>3, MaxLenAssumption DEF CheckInv, CheckTypeOK
<1>8. LenKept' /\ IndexOK'
  BY <1>1, <1>2, <1>3, <1>6 DEF LenKept, IndexOK, t, m
<1>9. SortPermutes' /\ DoneSorted' /\ VerdictOK'
  BY <1>1, <1>6 DEF SortPermutes, DoneSorted, VerdictOK
<1>10. SortedPrefix'
  <2>1. ASSUME NEW a \in 1..i, NEW b \in (a + 1)..m PROVE tolower(t[a]) <= tolower(t[b])
    <3>1. a \in 1..(i - 1) \/ (a = i /\ b \in (i + 1)..(j - 1))
      BY <1>1, <1>2, <1>3
    <3> QED
      BY <1>4, <1>5, <3>1
  <2>2. (i + 1) - 1 = i
    BY <1>3
  <2> QED
    BY <1>1, <2>1, <2>2 DEF SortedPrefix, t, m
<1>11. LeastSoFar'
  BY <1>1, <1>3 DEF LeastSoFar
<1> QED
  BY <1>7, <1>8, <1>9, <1>10, <1>11 DEF CheckInv

LEMMA SortDoneKeeps == ASSUME CheckInv, SortDone PROVE CheckInv'
<1> DEFINE t == s[which]  m == Len(t)
<1>1. /\ verdict = "none" /\ Len(str[1]) = Len(str[2]) /\ which \in 1..2
      /\ i >= m /\ which' = which + 1 /\ i' = 1 /\ j' = 2
      /\ UNCHANGED <<str, s, verdict>>
  BY DEF CheckInv, CheckTypeOK, SortDone, Sorting, n
<1>2. t \in Seq(Char) /\ m \in 1..MaxLen /\ m \in Nat
  BY <1>1, CopiesTyped DEF CheckInv
<1>3. i \in Nat
  BY MaxLenAssumption DEF CheckInv, CheckTypeOK
<1>4. \A a \in 1..(i - 1) : \A b \in (a + 1)..m : tolower(t[a]) <= tolower(t[b])
  BY <1>1 DEF CheckInv, SortedPrefix
<1>5. LenKept /\ SortPermutes /\ DoneSorted /\ VerdictOK
  BY DEF CheckInv
<1>6. \A k \in 1..2 : Len(s[k]) \in Nat /\ 1 <= Len(s[k])
  BY CopiesTyped DEF CheckInv
<1> HIDE DEF t, m
<1>7. CheckTypeOK'
  BY <1>1, <1>2, <1>3, MaxLenAssumption DEF CheckInv, CheckTypeOK
<1>8. LenKept' /\ IndexOK'
  BY <1>1, <1>5, <1>6 DEF LenKept, IndexOK
<1>9. SortPermutes' /\ VerdictOK'
  BY <1>1, <1>5 DEF SortPermutes, VerdictOK
<1>10. SortedPrefix' /\ LeastSoFar'
  BY <1>1 DEF SortedPrefix, LeastSoFar
<1>11. DoneSorted'
  <2>1. Sorted(t)
    <3>1. ASSUME NEW a \in 1..m, NEW b \in 1..m, a < b PROVE tolower(t[a]) <= tolower(t[b])
      <4>1. a \in 1..(i - 1) /\ b \in (a + 1)..m
        BY <1>1, <1>2, <1>3, <3>1
      <4> QED
        BY <1>4, <4>1
    <3> QED
      BY <3>1 DEF Sorted, m
  <2>2. \A k \in 1..2 : k < which + 1 => k < which \/ k = which
    BY <1>1
  <2> QED
    BY <1>1, <1>5, <2>1, <2>2 DEF DoneSorted, t
<1> QED
  BY <1>7, <1>8, <1>9, <1>10, <1>11 DEF CheckInv

LEMMA CheckInvNext == CheckInv /\ [CheckNext]_checkVars => CheckInv'
<1> SUFFICES ASSUME CheckInv, [CheckNext]_checkVars PROVE CheckInv'
  OBVIOUS
<1>1. CASE DifferentLength \/ Compare
  <2>1. UNCHANGED <<str, s, which, i, j>>
    BY <1>1 DEF DifferentLength, Compare
  <2>2. verdict' \in {"none", "anagrams", "different"}
    BY <1>1 DEF DifferentLength, Compare
  <2>3. VerdictOK'
    <3>1. CASE DifferentLength
      BY <2>1, <3>1 DEF DifferentLength, VerdictOK
    <3>2. CASE Compare /\ Len(str[1]) = Len(str[2])
      BY <2>1, <3>2 DEF Compare, VerdictOK
    <3>3. CASE Compare /\ Len(str[1]) # Len(str[2])
      BY <2>1, <3>3 DEF Compare, VerdictOK
    <3> QED
      BY <1>1, <3>1, <3>2, <3>3
  <2> QED
    BY <2>1, <2>2, <2>3 DEF CheckInv, CheckTypeOK, LenKept, IndexOK, SortPermutes, SortedPrefix,
       LeastSoFar, DoneSorted
<1>2. CASE UNCHANGED checkVars
  BY <1>2 DEF checkVars, CheckInv, CheckTypeOK, LenKept, IndexOK, SortPermutes, SortedPrefix, LeastSoFar,
     DoneSorted, VerdictOK
<1> QED
  BY <1>1, <1>2, InnerLoopKeeps, OuterLoopKeeps, SortDoneKeeps DEF CheckNext

-----------------------------------------------------------------------------
(* What the invariant says of the verdict.                                 *)
LEMMA FoundRight == ASSUME CheckInv, verdict = "anagrams" PROVE SameCharacters(str[1], str[2])
<1>1. s[1] = s[2] /\ SameCharacters(s[1], str[1]) /\ SameCharacters(s[2], str[2])
  BY DEF CheckInv, VerdictOK, SortPermutes
<1> QED
  BY <1>1 DEF SameCharacters

LEMMA DifferentRight ==
    ASSUME CheckInv, verdict = "different", OneCase PROVE ~SameCharacters(str[1], str[2])
<1> SUFFICES ASSUME SameCharacters(str[1], str[2]) PROVE FALSE
  OBVIOUS
<1>1. \A k \in 1..2 : s[k] \in Seq(Char) /\ str[k] \in Seq(Char) /\ Len(s[k]) = Len(str[k])
                      /\ SameCharacters(s[k], str[k])
  BY CopiesTyped DEF CheckInv, LenKept, SortPermutes
<1>2. Len(str[1]) = Len(str[2])
  BY <1>1, SameLength
<1>3. which = 3 /\ s[1] # s[2]
  BY <1>2 DEF CheckInv, VerdictOK
<1>4. Sorted(s[1]) /\ Sorted(s[2])
  BY <1>2, <1>3 DEF CheckInv, DoneSorted
<1>5. SameCharacters(s[1], s[2]) /\ SameCharacters(s[2], s[1])
  BY <1>1 DEF SameCharacters
<1>6. PICK d \in 1..Len(s[1]) : s[1][d] # s[2][d]
  <2>1. Len(s[1]) = Len(s[2])
    BY <1>1, <1>2
  <2> QED
    BY <1>1, <1>3, <2>1, SeqEqual
<1>7. d \in 1..Len(s[2])
  BY <1>1, <1>2, <1>6
<1>8. ~(tolower(s[1][d]) < tolower(s[2][d])) /\ ~(tolower(s[2][d]) < tolower(s[1][d]))
  BY <1>1, <1>4, <1>5, <1>6, <1>7, NoneSmaller
<1>9. tolower(s[1][d]) = tolower(s[2][d])
  <2>1. s[1][d] \in Char /\ s[2][d] \in Char
    BY <1>1, <1>6, <1>7
  <2>2. tolower(s[1][d]) \in Nat /\ tolower(s[2][d]) \in Nat
    BY <2>1, LowerIsNat
  <2> QED
    BY <1>8, <2>2
<1>10. ASSUME NEW k \in 1..2, NEW b \in 1..Len(s[k])
       PROVE  \E a \in DOMAIN str[k] : str[k][a] = s[k][b]
  <2>1. PICK F \in Bijection(1..Len(s[k]), 1..Len(str[k])) :
           \A a \in 1..Len(s[k]) : str[k][F[a]] = s[k][a]
    BY <1>1, Matching
  <2>2. F[b] \in 1..Len(str[k])
    BY DEF Bijection, Injection
  <2>3. DOMAIN str[k] = 1..Len(str[k])
    BY <1>1
  <2> QED
    BY <2>1, <2>2, <2>3
<1>11. PICK a \in DOMAIN str[1], b \in DOMAIN str[2] :
          str[1][a] = s[1][d] /\ str[2][b] = s[2][d]
  BY <1>6, <1>7, <1>10
<1>12. str[1][a] = str[2][b]
  BY <1>9, <1>11 DEF OneCase
<1> QED
  BY <1>6, <1>11, <1>12

(* In every state the two copies hold the characters of the strings        *)
(* received, the places the sort has passed are final, and the verdict,    *)
(* when there is one, is right: the strings are anagrams when it says so,  *)
(* and are not when it says they differ and no letter has both cases.      *)
THEOREM ComparisonAlwaysRight == CheckSpec => []ComparisonRight
<1>1. CheckInv => ComparisonRight
  BY FoundRight, DifferentRight DEF CheckInv, ComparisonRight, AnagramsAreAnagrams, AnagramsFound
<1> QED
  BY <1>1, CheckInvInit, CheckInvNext, PTL DEF CheckSpec

-----------------------------------------------------------------------------
(* The codes of Lab06.                                                     *)

(* Bits that are flipped in a finite set of ones. *)
Changed(A, B) == (A \ B) \cup (B \ A)

LEMMA ChangedParity ==
    ASSUME NEW A, NEW B, IsFiniteSet(A), IsFiniteSet(B)
    PROVE  /\ IsFiniteSet(Changed(A, B))
           /\ Cardinality(A) \in Nat /\ Cardinality(B) \in Nat
           /\ Cardinality(Changed(A, B)) \in Nat
           /\ Cardinality(Changed(A, B)) % 2 = (Cardinality(A) + Cardinality(B)) % 2
<1> DEFINE C == A \cap B
<1>1. /\ IsFiniteSet(A \ B) /\ IsFiniteSet(B \ A) /\ IsFiniteSet(C)
  BY FS_Difference, FS_Intersection
<1>2. /\ Cardinality(A \ B) \in Nat /\ Cardinality(B \ A) \in Nat /\ Cardinality(C) \in Nat
      /\ Cardinality(A) \in Nat /\ Cardinality(B) \in Nat
  BY <1>1, FS_CardinalityType
<1>3. Cardinality(A \ B) = Cardinality(A) - Cardinality(C)
  BY FS_Difference
<1>4. Cardinality(B \ A) = Cardinality(B) - Cardinality(C)
  <2>1. B \cap A = C
    OBVIOUS
  <2> QED BY <2>1, FS_Difference
<1>5. (A \ B) \cap (B \ A) = {}
  OBVIOUS
<1>6. /\ IsFiniteSet((A \ B) \cup (B \ A))
      /\ Cardinality((A \ B) \cup (B \ A)) = Cardinality(A \ B) + Cardinality(B \ A)
  <2> DEFINE D == A \ B  E == B \ A
  <2>1. IsFiniteSet(D) /\ IsFiniteSet(E) /\ D \cap E = {}
    BY <1>1, <1>5
  <2>2. Cardinality(D) \in Nat /\ Cardinality(E) \in Nat
    BY <1>2
  <2>3. Cardinality({}) = 0
    BY FS_EmptySet
  <2> HIDE DEF D, E
  <2>4. IsFiniteSet(D \cup E)
        /\ Cardinality(D \cup E) = Cardinality(D) + Cardinality(E) - Cardinality(D \cap E)
    BY <2>1, FS_Union
  <2>5. Cardinality(D \cap E) = 0
    BY <2>1, <2>3
  <2>6. \A a, b, c \in Nat : c = 0 => a + b - c = a + b
    OBVIOUS
  <2>7. Cardinality(D \cup E) = Cardinality(D) + Cardinality(E)
    BY <2>2, <2>4, <2>5, <2>6
  <2> QED BY <2>4, <2>7 DEF D, E
<1>7. \A a, b, c, d \in Nat : d = (a - c) + (b - c) => d % 2 = (a + b) % 2
  OBVIOUS
<1> QED BY <1>2, <1>3, <1>4, <1>6, <1>7, FS_CardinalityType DEF Changed

LEMMA Division ==
    ASSUME NEW a \in Nat, NEW b \in Nat \ {0}, NEW c \in Nat, NEW d \in 0..(b - 1),
           a = b * c + d
    PROVE  a \div b = c /\ a % b = d
  OBVIOUS

(* The ones of a word, of which f is a flipped copy. *)
Places(f) == {k \in DOMAIN f : f[k] = 1}
IsWord(f, num) == num \in Nat /\ f \in [1..num -> Bit]
IsFlipped(g, f, S) ==
    /\ S \subseteq DOMAIN f
    /\ g = [k \in DOMAIN f |-> IF k \in S THEN 1 - f[k] ELSE f[k]]

LEMMA WordFacts ==
    ASSUME NEW num, NEW f, IsWord(f, num)
    PROVE  /\ num \in Nat /\ DOMAIN f = 1..num /\ Len(f) = num /\ f \in Seq(Bit)
           /\ IsFiniteSet(Places(f))
           /\ \A k \in 1..num : f[k] \in Bit
<1>1. DOMAIN f = 1..num /\ num \in Nat
  BY DEF IsWord
<1>2. f \in Seq(Bit) /\ Len(f) = num
  BY <1>1 DEF IsWord
<1>3. IsFiniteSet(Places(f))
  <2>1. IsFiniteSet(1..num) /\ Places(f) \subseteq 1..num
    <3>1. IsFiniteSet(1..num)
      BY <1>1, FS_Interval
    <3> QED BY <1>1, <3>1 DEF Places
  <2> QED BY <2>1, FS_Subset
<1> QED BY <1>1, <1>2, <1>3 DEF IsWord

LEMMA FlippedFacts ==
    ASSUME NEW num, NEW f, IsWord(f, num), NEW S, NEW g, IsFlipped(g, f, S)
    PROVE  /\ IsWord(g, num)
           /\ IsFiniteSet(S)
           /\ \A k \in 1..num : g[k] = 1 <=> ~(f[k] = 1 <=> k \in S)
           /\ Places(g) = Changed(Places(f), S)
<1>1. DOMAIN f = 1..num /\ num \in Nat /\ S \subseteq 1..num
  BY WordFacts DEF IsFlipped
<1>2. \A k \in 1..num : f[k] \in {0, 1}
  BY WordFacts DEF Bit
<1>3. DOMAIN g = 1..num /\ \A k \in 1..num : g[k] = IF k \in S THEN 1 - f[k] ELSE f[k]
  BY <1>1 DEF IsFlipped
<1>4. \A k \in 1..num : g[k] \in {0, 1} /\ (g[k] = 1 <=> ~(f[k] = 1 <=> k \in S))
  BY <1>2, <1>3
<1>5. IsWord(g, num)
  BY <1>1, <1>4 DEF IsFlipped, IsWord, Bit
<1>6. IsFiniteSet(S)
  <2>1. IsFiniteSet(1..num)
    BY <1>1, FS_Interval
  <2> QED BY <1>1, <2>1, FS_Subset
<1>7. Places(g) = Changed(Places(f), S)
  BY <1>1, <1>3, <1>4 DEF Places, Changed
<1> QED BY <1>4, <1>5, <1>6, <1>7

LEMMA FlippedParity ==
    ASSUME NEW num, NEW f, IsWord(f, num), NEW S, NEW g, IsFlipped(g, f, S)
    PROVE  /\ count_ones(f) \in Nat /\ count_ones(g) \in Nat /\ Cardinality(S) \in Nat
           /\ count_ones(g) % 2 = (count_ones(f) + Cardinality(S)) % 2
<1>1. count_ones(f) = Cardinality(Places(f)) /\ count_ones(g) = Cardinality(Places(g))
  BY DEF count_ones, Places
<1>2. IsFiniteSet(Places(f)) /\ IsFiniteSet(S) /\ Places(g) = Changed(Places(f), S)
  BY WordFacts, FlippedFacts
<1> QED BY <1>1, <1>2, ChangedParity

(* The parity bit makes the number of ones what the receiver expects. *)
LEMMA ParityFrame ==
    ASSUME NEW num, NEW d, IsWord(d, num), NEW choice
    PROVE  /\ IsWord(Append(d, ParityBit(d, choice)), num + 1)
           /\ ParityAccepts(Append(d, ParityBit(d, choice)), choice)
<1> DEFINE b == ParityBit(d, choice)  f == Append(d, b)
<1>1. d \in Seq(Bit) /\ Len(d) = num /\ num \in Nat /\ DOMAIN d = 1..num /\ IsFiniteSet(Places(d))
  BY WordFacts
<1>2. Cardinality(Places(d)) \in Nat /\ count_ones(d) = Cardinality(Places(d))
  BY <1>1, FS_CardinalityType DEF Places, count_ones
<1>3. b \in {0, 1}
  BY <1>2 DEF ParityBit
<1>4. DOMAIN f = 1..(num + 1) /\ f[num + 1] = b /\ \A k \in 1..num : f[k] = d[k]
  BY <1>1, <1>3
<1>5. \A k \in 1..(num + 1) : f[k] \in Bit
  <2>1. \A k \in 1..num : d[k] \in Bit
    BY WordFacts
  <2> QED BY <1>1, <1>3, <1>4, <2>1 DEF Bit
<1>6. IsWord(f, num + 1)
  <2>1. f \in Seq(Bit)
    BY <1>1, <1>3 DEF Bit
  <2>2. num + 1 \in Nat /\ f \in [1..(num + 1) -> Bit]
    <3>1. f \in [1..Len(f) -> Bit] /\ DOMAIN f = 1..Len(f)
      BY <2>1, LenProperties
    <3>2. f \in [DOMAIN f -> Bit]
      BY <3>1
    <3> QED BY <1>1, <1>4, <3>2
  <2> QED BY <2>2 DEF IsWord
<1>7. num + 1 \notin Places(d)
  BY <1>1 DEF Places
<1>8. Places(f) = IF b = 1 THEN Places(d) \cup {num + 1} ELSE Places(d)
  <2> HIDE DEF f, b
  <2> QED BY <1>1, <1>4 DEF Places
<1>9. count_ones(f) = Cardinality(Places(d)) + b
  <2>1. count_ones(f) = Cardinality(Places(f))
    BY DEF count_ones, Places
  <2>2. Cardinality(Places(d) \cup {num + 1}) = Cardinality(Places(d)) + 1
    BY <1>1, <1>7, FS_AddElement
  <2> HIDE DEF f, b
  <2> QED BY <1>2, <1>3, <1>8, <2>1, <2>2
<1>10. ParityAccepts(f, choice)
  <2> DEFINE c == Cardinality(Places(d))
  <2>1. count_ones(f) = c + b /\ c \in Nat /\ b = IF choice = 1 THEN c % 2 ELSE (c + 1) % 2
    BY <1>2, <1>9 DEF ParityBit
  <2> HIDE DEF f, b, c
  <2>2. (c + (c % 2)) % 2 = 0 /\ (c + ((c + 1) % 2)) % 2 # 0
    BY <2>1
  <2> QED BY <2>1, <2>2 DEF ParityAccepts
<1> QED BY <1>6, <1>10

LEMMA Lowest ==
    ASSUME NEW T \in SUBSET Nat, T # {}
    PROVE  \E x \in T : \A y \in T : x <= y
<1> DEFINE R == OpToRel(<, Nat)
<1>1. IsWellFoundedOn(R, Nat)
  BY ONLY NatLessThanWellFounded, Zenon
<1>2. PICK x \in T : \A y \in T : ~(<<y, x>> \in R)
  <2> HIDE DEF R
  <2> QED BY <1>1, WFMin
<1>3. ASSUME NEW y \in T PROVE x <= y
  <2>1. ~(<<y, x>> \in R)
    BY <1>2
  <2>2. ~(y < x)
    BY <2>1 DEF OpToRel
  <2> QED BY <2>2
<1> QED BY <1>3

(* Induction, for a set of numbers. *)
LEMMA UpwardsClosed ==
    ASSUME NEW T, 0 \in T, \A q \in Nat : q \in T => q + 1 \in T
    PROVE  Nat \subseteq T
<1> DEFINE U == {q \in Nat : q \notin T}
<1>1. SUFFICES ASSUME U # {} PROVE FALSE
  OBVIOUS
<1>2. PICK x \in U : \A y \in U : x <= y
  <2>1. U \in SUBSET Nat
    OBVIOUS
  <2> HIDE DEF U
  <2> QED BY <1>1, <2>1, Lowest
<1>3. x \in Nat /\ x \notin T /\ x # 0
  OBVIOUS
<1>4. x - 1 \in Nat /\ x - 1 \notin U /\ (x - 1) + 1 = x
  BY <1>2, <1>3
<1>5. x - 1 \in T
  BY <1>4
<1>6. x \in T
  BY <1>4, <1>5
<1> QED BY <1>3, <1>6

(* The powers of two up to num. *)
ArePowers(f, num) ==
    /\ f \in [0..num -> Nat]
    /\ f[0] = 1
    /\ \A q \in 1..num : f[q] = 2 * f[q - 1]

LEMMA PowersExist == \A num \in Nat : \E f : ArePowers(f, num)
<1> DEFINE T == {num \in Nat : \E f : ArePowers(f, num)}
<1>1. 0 \in T
  <2>1. ArePowers([q \in 0..0 |-> 1], 0)
    BY DEF ArePowers
  <2> QED BY <2>1
<1>2. ASSUME NEW num \in Nat, num \in T PROVE num + 1 \in T
  <2>1. PICK f : ArePowers(f, num)
    BY <1>2
  <2> DEFINE g == [q \in 0..(num + 1) |-> IF q = num + 1 THEN 2 * f[num] ELSE f[q]]
  <2>2. f[num] \in Nat /\ \A q \in 0..num : f[q] \in Nat
    BY <2>1 DEF ArePowers
  <2>3. g \in [0..(num + 1) -> Nat]
    BY <2>2
  <2>4. g[0] = 1
    BY <2>1 DEF ArePowers
  <2>5. ASSUME NEW q \in 1..(num + 1) PROVE g[q] = 2 * g[q - 1]
    <3>1. q \in 0..(num + 1) /\ q - 1 \in 0..(num + 1) /\ q - 1 # num + 1
      OBVIOUS
    <3>2. g[q - 1] = f[q - 1]
      BY <3>1
    <3>3. CASE q = num + 1
      BY <3>1, <3>2, <3>3
    <3>4. CASE q # num + 1
      <4>1. q \in 1..num
        BY <3>4
      <4> QED BY <2>1, <3>1, <3>2, <3>4, <4>1 DEF ArePowers
    <3> QED BY <3>3, <3>4
  <2> HIDE DEF g
  <2>6. ArePowers(g, num + 1)
    BY <2>3, <2>4, <2>5 DEF ArePowers
  <2> QED BY <2>6
<1> HIDE DEF T
<1>3. Nat \subseteq T
  BY <1>1, <1>2, UpwardsClosed
<1> QED BY <1>3 DEF T

LEMMA PowersUnique ==
    ASSUME NEW num \in Nat, NEW f, ArePowers(f, num), NEW m \in Nat, NEW g, ArePowers(g, m)
    PROVE  \A q \in Nat : q <= num /\ q <= m => f[q] = g[q]
<1> DEFINE T == {q \in Nat : q <= num /\ q <= m => f[q] = g[q]}
<1>1. 0 \in T
  BY DEF ArePowers
<1>2. ASSUME NEW q \in Nat, q \in T PROVE q + 1 \in T
  <2>1. SUFFICES ASSUME q + 1 <= num, q + 1 <= m PROVE f[q + 1] = g[q + 1]
    OBVIOUS
  <2>2. f[q] = g[q] /\ q + 1 \in 1..num /\ q + 1 \in 1..m /\ (q + 1) - 1 = q
    BY <1>2, <2>1
  <2>3. f[q + 1] = 2 * f[q] /\ g[q + 1] = 2 * g[q]
    BY <2>2 DEF ArePowers
  <2> QED BY <2>2, <2>3
<1> HIDE DEF T
<1>3. Nat \subseteq T
  BY <1>1, <1>2, UpwardsClosed
<1> QED BY <1>3 DEF T

LEMMA TwoToIs ==
    /\ TwoTo \in [Nat -> Nat]
    /\ TwoTo[0] = 1
    /\ \A q \in Nat : TwoTo[q + 1] = 2 * TwoTo[q]
<1> DEFINE run(num) == CHOOSE f : ArePowers(f, num)
           h == [num \in Nat |-> run(num)[num]]
           Eq(g) == g = [q \in Nat |-> IF q = 0 THEN 1 ELSE 2 * g[q - 1]]
<1>1. \A num \in Nat : ArePowers(run(num), num)
  BY PowersExist
<1> HIDE DEF run
<1>2. \A num \in Nat : h[num] \in Nat
  BY <1>1 DEF ArePowers
<1>3. h[0] = 1
  BY <1>1 DEF ArePowers
<1>4. ASSUME NEW num \in Nat PROVE h[num + 1] = 2 * h[num]
  <2>1. num + 1 \in Nat /\ num + 1 \in 1..(num + 1) /\ (num + 1) - 1 = num
    OBVIOUS
  <2>2. run(num + 1)[num + 1] = 2 * run(num + 1)[num]
    <3>1. ArePowers(run(num + 1), num + 1)
      BY <1>1
    <3> QED BY <2>1, <3>1 DEF ArePowers
  <2>3. run(num + 1)[num] = run(num)[num]
    <3>1. ArePowers(run(num + 1), num + 1) /\ ArePowers(run(num), num)
      BY <1>1
    <3>2. num <= num + 1 /\ num <= num
      OBVIOUS
    <3> QED BY <3>1, <3>2, <2>1, PowersUnique
  <2> QED BY <2>1, <2>2, <2>3
<1>5. Eq(h)
  <2>1. ASSUME NEW q \in Nat PROVE h[q] = IF q = 0 THEN 1 ELSE 2 * h[q - 1]
    <3>1. q # 0 => q - 1 \in Nat /\ (q - 1) + 1 = q
      OBVIOUS
    <3> HIDE DEF h
    <3> QED BY <1>3, <1>4, <3>1
  <2>2. h = [q \in Nat |-> h[q]]
    OBVIOUS
  <2> HIDE DEF h
  <2> QED BY <2>1, <2>2
<1>6. TwoTo = CHOOSE g : Eq(g)
  BY DEF TwoTo
<1> HIDE DEF h
<1>7. Eq(TwoTo)
  <2> HIDE DEF Eq
  <2> QED BY <1>5, <1>6
<1>8. TwoTo[0] = 1 /\ \A q \in Nat : TwoTo[q + 1] = 2 * TwoTo[q]
  <2>1. TwoTo[0] = 1
    BY <1>7
  <2>2. ASSUME NEW q \in Nat PROVE TwoTo[q + 1] = 2 * TwoTo[q]
    <3>1. q + 1 \in Nat /\ q + 1 # 0 /\ (q + 1) - 1 = q
      OBVIOUS
    <3>2. TwoTo[q + 1] = IF q + 1 = 0 THEN 1 ELSE 2 * TwoTo[(q + 1) - 1]
      BY <1>7, <3>1
    <3> QED BY <3>1, <3>2
  <2> QED BY <2>1, <2>2
<1>9. DOMAIN TwoTo = Nat /\ TwoTo = [q \in Nat |-> TwoTo[q]]
  BY <1>7
<1>10. \A q \in Nat : TwoTo[q] \in Nat
  <2> DEFINE T == {q \in Nat : TwoTo[q] \in Nat}
  <2>1. 0 \in T /\ \A q \in Nat : q \in T => q + 1 \in T
    BY <1>8
  <2> HIDE DEF T
  <2>2. Nat \subseteq T
    BY <2>1, UpwardsClosed
  <2> QED BY <2>2 DEF T
<1> QED BY <1>8, <1>9, <1>10

LEMMA PowerFacts ==
    /\ \A q \in Nat : TwoTo[q] \in Nat \ {0} /\ TwoTo[q] >= q + 1
    /\ \A q \in Nat : TwoTo[q + 1] = 2 * TwoTo[q]
    /\ \A p, q \in Nat : p < q => TwoTo[p] < TwoTo[q] /\ 2 * TwoTo[p] <= TwoTo[q]
<1>1. \A q \in Nat : TwoTo[q] \in Nat \ {0} /\ TwoTo[q] >= q + 1
  <2> DEFINE T == {q \in Nat : TwoTo[q] \in Nat \ {0} /\ TwoTo[q] >= q + 1}
  <2>1. 0 \in T
    BY TwoToIs
  <2>2. ASSUME NEW q \in Nat, q \in T PROVE q + 1 \in T
    BY <2>2, TwoToIs
  <2> HIDE DEF T
  <2>3. Nat \subseteq T
    BY <2>1, <2>2, UpwardsClosed
  <2> QED BY <2>3 DEF T
<1>2. ASSUME NEW p \in Nat
      PROVE  \A d \in Nat : 2 * TwoTo[p] <= TwoTo[p + d + 1]
  <2> DEFINE T == {d \in Nat : 2 * TwoTo[p] <= TwoTo[p + d + 1]}
  <2>1. 0 \in T
    <3>1. p + 0 + 1 = p + 1
      OBVIOUS
    <3> QED BY <1>1, <3>1, TwoToIs
  <2>2. ASSUME NEW d \in Nat, d \in T PROVE d + 1 \in T
    <3>1. p + d + 1 \in Nat /\ p + (d + 1) + 1 = (p + d + 1) + 1
      OBVIOUS
    <3>2. TwoTo[p + (d + 1) + 1] = 2 * TwoTo[p + d + 1]
      BY <3>1, TwoToIs
    <3>3. TwoTo[p + d + 1] \in Nat /\ TwoTo[p] \in Nat
      BY <3>1, TwoToIs
    <3> QED BY <2>2, <3>2, <3>3
  <2> HIDE DEF T
  <2>3. Nat \subseteq T
    BY <2>1, <2>2, UpwardsClosed
  <2> QED BY <2>3 DEF T
<1>3. ASSUME NEW p \in Nat, NEW q \in Nat, p < q
      PROVE  TwoTo[p] < TwoTo[q] /\ 2 * TwoTo[p] <= TwoTo[q]
  <2>1. q - p - 1 \in Nat /\ p + (q - p - 1) + 1 = q
    BY <1>3
  <2>2. 2 * TwoTo[p] <= TwoTo[q]
    BY <1>2, <2>1
  <2> QED BY <1>1, <2>2
<1> QED BY <1>1, <1>3, TwoToIs

LEMMA Divides ==
    ASSUME NEW b \in Nat \ {0}
    PROVE  \A a \in Nat : \E c \in Nat, d \in 0..(b - 1) : a = b * c + d
<1> DEFINE T == {a \in Nat : \E c \in Nat, d \in 0..(b - 1) : a = b * c + d}
<1>1. 0 \in T
  <2>1. 0 \in 0..(b - 1) /\ 0 = b * 0 + 0
    OBVIOUS
  <2> QED BY <2>1
<1>2. ASSUME NEW a \in Nat, a \in T PROVE a + 1 \in T
  <2>1. PICK c \in Nat, d \in 0..(b - 1) : a = b * c + d
    BY <1>2
  <2>2. CASE d = b - 1
    <3>1. b * (c + 1) = b * c + b
      OBVIOUS
    <3>2. b * c \in Nat
      OBVIOUS
    <3>3. \A x, y \in Nat : y = x + b => x + (b - 1) + 1 = y + 0
      OBVIOUS
    <3>4. b * (c + 1) \in Nat /\ c + 1 \in Nat /\ 0 \in 0..(b - 1)
      OBVIOUS
    <3>5. b * c + (b - 1) + 1 = b * (c + 1) + 0
      BY <3>1, <3>2, <3>3, <3>4
    <3>6. a + 1 = b * c + (b - 1) + 1
      BY <2>1, <2>2
    <3>7. a + 1 = b * (c + 1) + 0
      BY <3>5, <3>6, Zenon
    <3> DEFINE e == c + 1
    <3>8. e \in Nat /\ 0 \in 0..(b - 1) /\ a + 1 = b * e + 0
      BY <3>4, <3>7
    <3> HIDE DEF e
    <3> QED BY <3>8
  <2>3. CASE d # b - 1
    <3>1. a + 1 = b * c + (d + 1) /\ d + 1 \in 0..(b - 1)
      BY <2>1, <2>3
    <3> QED BY <3>1
  <2> QED BY <2>2, <2>3
<1> HIDE DEF T
<1>3. Nat \subseteq T
  BY <1>1, <1>2, UpwardsClosed
<1> QED BY <1>3 DEF T

(* The last q + 1 binary digits of a number are the last q and one more. *)
Digit(q, num) == (num \div TwoTo[q]) % 2

LEMMA DigitFacts ==
    ASSUME NEW q \in Nat, NEW num \in Nat
    PROVE  /\ Digit(q, num) \in {0, 1}
           /\ num % TwoTo[q] \in Nat /\ num % TwoTo[q] < TwoTo[q]
           /\ num % TwoTo[q + 1] = (num % TwoTo[q]) + Digit(q, num) * TwoTo[q]
<1> DEFINE b == TwoTo[q]
<1>1. b \in Nat \ {0} /\ TwoTo[q + 1] = 2 * b
  BY PowerFacts
<1> HIDE DEF b
<1>2. PICK c \in Nat, d \in 0..(b - 1) : num = b * c + d
  BY <1>1, Divides
<1>3. num \div b = c /\ num % b = d
  BY <1>1, <1>2, Division
<1>4. PICK e \in Nat, f \in {0, 1} : c = 2 * e + f
  <2>1. 2 \in Nat \ {0}
    OBVIOUS
  <2>2. PICK e \in Nat, f \in 0..(2 - 1) : c = 2 * e + f
    BY <2>1, Divides
  <2>3. f \in {0, 1}
    OBVIOUS
  <2> QED BY <2>2, <2>3
<1>5. c % 2 = f
  <2>1. 2 \in Nat \ {0} /\ f \in 0..(2 - 1)
    BY <1>4
  <2> QED BY <1>4, <2>1, Division
<1>6. f * b + d \in 0..(2 * b - 1)
  BY <1>1, <1>4
<1>7. num = (2 * b) * e + (f * b + d)
  <2>1. b * (2 * e + f) = (2 * b) * e + f * b
    BY <1>1, <1>4
  <2>2. (2 * b) * e \in Nat /\ f * b \in Nat /\ b * c \in Nat
    <3>1. b \in Nat /\ 2 * b \in Nat /\ e \in Nat /\ c \in Nat /\ f \in Nat
      BY <1>1, <1>4
    <3> QED BY ONLY <3>1
  <2> QED BY <1>2, <1>4, <2>1, <2>2
<1>8. num % (2 * b) = f * b + d
  <2>1. 2 * b \in Nat \ {0}
    BY <1>1
  <2>2. f * b + d \in 0..((2 * b) - 1)
    BY <1>6
  <2> QED BY <1>7, <2>1, <2>2, Division
<1>9. Digit(q, num) = f
  BY <1>3, <1>5 DEF Digit, b
<1>10. d \in Nat /\ d < b
  BY <1>1, <1>2
<1>11. num % (2 * b) = (num % b) + Digit(q, num) * b
  BY <1>1, <1>3, <1>4, <1>8, <1>9, <1>10
<1> QED BY <1>1, <1>3, <1>4, <1>9, <1>10, <1>11 DEF b

LEMMA SmallDigits ==
    /\ \A num \in Nat : num % TwoTo[0] = 0
    /\ \A num, q \in Nat : num < TwoTo[q] => num % TwoTo[q] = num /\ Digit(q, num) = 0
<1>1. ASSUME NEW num \in Nat PROVE num % TwoTo[0] = 0
  BY TwoToIs
<1>2. ASSUME NEW num \in Nat, NEW q \in Nat, num < TwoTo[q]
      PROVE  num % TwoTo[q] = num /\ Digit(q, num) = 0
  <2> DEFINE b == TwoTo[q]
  <2>1. b \in Nat \ {0} /\ num \in 0..(b - 1) /\ num = b * 0 + num
    BY <1>2, PowerFacts
  <2>2. num \div b = 0 /\ num % b = num
    <3> HIDE DEF b
    <3> QED BY <2>1, Division
  <2> QED BY <2>2 DEF Digit
<1> QED BY <1>1, <1>2

(* A power of two has one digit that is not 0. *)
LEMMA PowerDigits ==
    ASSUME NEW p \in Nat, NEW q \in Nat
    PROVE  Digit(q, TwoTo[p]) = IF p = q THEN 1 ELSE 0
<1>1. CASE p < q
  <2>1. TwoTo[p] \in Nat /\ TwoTo[p] < TwoTo[q]
    BY <1>1, PowerFacts
  <2>2. Digit(q, TwoTo[p]) = 0
    BY <2>1, SmallDigits
  <2> QED BY <1>1, <2>2
<1>2. CASE p = q
  <2>1. TwoTo[q] \div TwoTo[q] = 1
    <3> DEFINE b == TwoTo[q]
    <3>1. b \in Nat \ {0} /\ b = b * 1 + 0 /\ 0 \in 0..(b - 1)
      BY PowerFacts
    <3> HIDE DEF b
    <3>2. b \div b = 1
      BY <3>1, Division
    <3> QED BY <3>2 DEF b
  <2> QED BY <1>2, <2>1 DEF Digit
<1>3. CASE q < p
  <2> DEFINE b == TwoTo[q]
             T == {d \in Nat : \E e \in Nat : TwoTo[q + d + 1] = b * (2 * e)}
  <2>1. b \in Nat \ {0} /\ TwoTo[q + 1] = 2 * b
    BY PowerFacts
  <2>2. 0 \in T
    <3>1. TwoTo[q + 0 + 1] = b * (2 * 1)
      <4>1. q + 0 + 1 = q + 1
        OBVIOUS
      <4> QED BY <2>1, <4>1
    <3> QED BY <3>1
  <2>3. ASSUME NEW d \in Nat, d \in T PROVE d + 1 \in T
    <3>1. PICK e \in Nat : TwoTo[q + d + 1] = b * (2 * e)
      BY <2>3
    <3>2. q + (d + 1) + 1 = (q + d + 1) + 1 /\ q + d + 1 \in Nat
      OBVIOUS
    <3>3. TwoTo[q + (d + 1) + 1] = 2 * (b * (2 * e))
      BY <3>1, <3>2, TwoToIs
    <3> HIDE DEF b
    <3>4. 2 * (b * (2 * e)) = b * (2 * (2 * e)) /\ 2 * e \in Nat
      BY <2>1
    <3> QED BY <3>3, <3>4
  <2> HIDE DEF T, b
  <2>4. Nat \subseteq T
    BY <2>2, <2>3, UpwardsClosed
  <2>5. p - q - 1 \in Nat /\ q + (p - q - 1) + 1 = p
    BY <1>3
  <2>6. PICK e \in Nat : TwoTo[p] = b * (2 * e)
    BY <2>4, <2>5 DEF T
  <2>7. TwoTo[p] \in Nat /\ 2 * e \in Nat /\ TwoTo[p] = b * (2 * e) + 0 /\ 0 \in 0..(b - 1)
    BY <2>1, <2>6, PowerFacts
  <2>8. TwoTo[p] \div b = 2 * e
    BY <2>1, <2>7, Division
  <2>9. (2 * e) % 2 = 0
    OBVIOUS
  <2> QED BY <1>3, <2>8, <2>9 DEF Digit, b
<1> QED BY <1>1, <1>2, <1>3

(* Numbers with the same digits are the same. *)
LEMMA SameDigits ==
    ASSUME NEW m \in Nat, NEW num \in Nat, NEW r \in Nat, m < TwoTo[r], num < TwoTo[r],
           \A q \in 0..(r - 1) : Digit(q, m) = Digit(q, num)
    PROVE  m = num
<1> DEFINE T == {q \in Nat : q <= r => m % TwoTo[q] = num % TwoTo[q]}
<1>1. 0 \in T
  BY SmallDigits
<1>2. ASSUME NEW q \in Nat, q \in T PROVE q + 1 \in T
  <2>1. SUFFICES ASSUME q + 1 <= r PROVE m % TwoTo[q + 1] = num % TwoTo[q + 1]
    OBVIOUS
  <2>2. q \in 0..(r - 1) /\ m % TwoTo[q] = num % TwoTo[q]
    BY <1>2, <2>1
  <2>3. m % TwoTo[q + 1] = (m % TwoTo[q]) + Digit(q, m) * TwoTo[q]
    BY DigitFacts
  <2>4. num % TwoTo[q + 1] = (num % TwoTo[q]) + Digit(q, num) * TwoTo[q]
    BY DigitFacts
  <2>5. Digit(q, m) = Digit(q, num)
    BY <2>2
  <2> QED BY <2>2, <2>3, <2>4, <2>5
<1> HIDE DEF T
<1>3. Nat \subseteq T
  BY <1>1, <1>2, UpwardsClosed
<1>4. m % TwoTo[r] = num % TwoTo[r]
  BY <1>3 DEF T
<1> QED BY <1>4, SmallDigits

(* Sender and receiver count the same redundancy bits, and all the places  *)
(* they give a parity bit lie within the code word.                        *)
LEMMA BitsAgree ==
    ASSUME NEW m \in Nat
    PROVE  LET r == RedundancyBits(m)
           IN /\ r \in Nat
              /\ m + r < TwoTo[r]
              /\ \A q \in 0..(r - 1) : TwoTo[q] \in 1..(m + r)
              /\ ServerBits(m + r) = r
<1> DEFINE Enough(r) == TwoTo[r] >= m + r + 1
           T == {r \in Nat : Enough(r)}
           Is(r) == Enough(r) /\ \A q \in 0..(r - 1) : TwoTo[q] < m + q + 1
<1>1. m + 1 \in T
  <2>1. TwoTo[m + 1] = 2 * TwoTo[m] /\ TwoTo[m] \in Nat /\ TwoTo[m] >= m + 1
    BY PowerFacts
  <2>2. TwoTo[m + 1] >= m + (m + 1) + 1
    BY <2>1
  <2> QED BY <2>2
<1>2. PICK x \in T : \A y \in T : x <= y
  <2>1. T \in SUBSET Nat /\ T # {}
    BY <1>1
  <2> HIDE DEF T
  <2> QED BY <2>1, Lowest
<1>3. x \in 0..(m + 1)
  BY <1>1, <1>2
<1>4. Is(x)
  <2>1. ASSUME NEW q \in 0..(x - 1) PROVE TwoTo[q] < m + q + 1
    <3>1. q \in Nat /\ ~(x <= q) /\ TwoTo[q] \in Nat
      BY <1>3, PowerFacts
    <3>2. q \notin T
      BY <1>2, <3>1
    <3> QED BY <3>1, <3>2
  <2> QED BY <1>2, <2>1
<1> DEFINE r == RedundancyBits(m)
<1>5. r \in 0..(m + 1) /\ Is(r)
  <2>1. r = CHOOSE num \in 0..(m + 1) : Is(num)
    BY DEF RedundancyBits
  <2> HIDE DEF r, Is, T
  <2> QED BY <1>3, <1>4, <2>1
<1> HIDE DEF r
<1>6. r \in Nat /\ TwoTo[r] \in Nat /\ m + r < TwoTo[r]
  BY <1>5, PowerFacts
<1>7. ASSUME NEW q \in 0..(r - 1) PROVE TwoTo[q] \in 1..(m + r)
  <2>1. q \in Nat /\ q + 1 <= r /\ TwoTo[q] \in Nat \ {0} /\ TwoTo[q] < m + q + 1
    BY <1>5, <1>6, PowerFacts
  <2> QED BY <1>6, <2>1
<1> DEFINE len == m + r
           Took(num) == TwoTo[num] > len /\ \A q \in 0..(num - 1) : TwoTo[q] <= len
           sb == ServerBits(len)
<1>8. r \in 0..len /\ Took(r)
  BY <1>6, <1>7
<1>9. sb \in 0..len /\ Took(sb)
  <2>1. sb = CHOOSE num \in 0..len : Took(num)
    BY DEF ServerBits
  <2> HIDE DEF sb, Took, len
  <2> QED BY <1>8, <2>1
<1>10. sb = r
  <2> HIDE DEF sb
  <2>1. sb \in Nat
    BY <1>6, <1>9
  <2>2. CASE sb < r
    <3>1. sb \in 0..(r - 1)
      BY <1>6, <2>1, <2>2
    <3>2. TwoTo[sb] <= len /\ TwoTo[sb] > len
      BY <1>8, <1>9, <3>1
    <3>3. TwoTo[sb] \in Nat /\ len \in Nat
      BY <1>6, <2>1, PowerFacts
    <3> HIDE DEF len
    <3> QED BY <3>2, <3>3
  <2>3. CASE r < sb
    <3>1. r \in 0..(sb - 1)
      BY <1>6, <2>1, <2>3
    <3>2. TwoTo[r] <= len /\ TwoTo[r] > len
      BY <1>8, <1>9, <3>1
    <3>3. len \in Nat
      BY <1>6
    <3> HIDE DEF len
    <3> QED BY <1>6, <3>2, <3>3
  <2> QED BY <1>6, <2>1, <2>2, <2>3
<1> QED BY <1>6, <1>7, <1>10 DEF r

(* The ones a parity bit covers. *)
Covered(code, q) == {k \in DOMAIN code : Digit(q, k) = 1 /\ code[k] = 1}

LEMMA ParityOverIs ==
    ASSUME NEW num, NEW code, IsWord(code, num), NEW q \in Nat
    PROVE  /\ IsFiniteSet(Covered(code, q)) /\ Cardinality(Covered(code, q)) \in Nat
           /\ ParityOver(code, q) = Cardinality(Covered(code, q)) % 2
           /\ ParityOver(code, q) \in {0, 1}
<1>1. num \in Nat /\ DOMAIN code = 1..num /\ Len(code) = num
  BY WordFacts
<1>2. IsFiniteSet(Covered(code, q)) /\ Cardinality(Covered(code, q)) \in Nat
  <2>1. IsFiniteSet(1..num) /\ Covered(code, q) \subseteq 1..num
    <3>1. IsFiniteSet(1..num)
      BY <1>1, FS_Interval
    <3> QED BY <1>1, <3>1 DEF Covered
  <2> QED BY <2>1, FS_Subset, FS_CardinalityType
<1>3. \A k \in 1..num : Digit(q, k) = 1 => k >= TwoTo[q]
  <2>1. TwoTo[q] \in Nat
    BY PowerFacts
  <2>2. \A k \in 1..num : k \in Nat
    BY <1>1
  <2> QED BY <2>1, <2>2, SmallDigits
<1>4. {k \in TwoTo[q]..Len(code) : Covers(q, k) /\ code[k] = 1} = Covered(code, q)
  <2>1. TwoTo[q] \in Nat \ {0}
    BY PowerFacts
  <2>2. \A k : k \in TwoTo[q]..num <=> k \in 1..num /\ k >= TwoTo[q]
    BY <1>1, <2>1
  <2>3. \A k : Covers(q, k) <=> Digit(q, k) = 1
    BY DEF Covers, Digit
  <2> QED BY <1>1, <1>3, <2>2, <2>3 DEF Covered
<1>5. ParityOver(code, q) = Cardinality(Covered(code, q)) % 2
  BY <1>4 DEF ParityOver
<1> QED BY <1>2, <1>5

LEMMA FlippedParityOver ==
    ASSUME NEW num, NEW f, IsWord(f, num), NEW S, NEW g, IsFlipped(g, f, S), NEW q \in Nat,
           ParityOver(f, q) = 0
    PROVE  ParityOver(g, q) = Cardinality({k \in S : Digit(q, k) = 1}) % 2
<1> DEFINE R == {k \in S : Digit(q, k) = 1}
<1>1. IsWord(g, num) /\ IsFiniteSet(S) /\ \A k \in 1..num : g[k] = 1 <=> ~(f[k] = 1 <=> k \in S)
  BY FlippedFacts
<1>2. DOMAIN f = 1..num /\ DOMAIN g = 1..num /\ S \subseteq 1..num
  BY <1>1, WordFacts DEF IsFlipped
<1>3. Covered(g, q) = Changed(Covered(f, q), R)
  BY <1>1, <1>2 DEF Covered, Changed
<1>4. IsFiniteSet(R) /\ Cardinality(R) \in Nat
  <2>1. R \subseteq S
    OBVIOUS
  <2> HIDE DEF R
  <2> QED BY <1>1, <2>1, FS_Subset, FS_CardinalityType
<1> DEFINE a == Cardinality(Covered(f, q))  b == Cardinality(R)
<1>5. /\ IsFiniteSet(Covered(f, q)) /\ a \in Nat /\ a % 2 = 0
      /\ ParityOver(g, q) = Cardinality(Covered(g, q)) % 2
  BY <1>1, ParityOverIs
<1>6. Cardinality(Covered(g, q)) % 2 = (a + b) % 2
  <2> HIDE DEF R
  <2> QED BY <1>3, <1>4, <1>5, ChangedParity
<1>7. \A x, y \in Nat : x % 2 = 0 => (x + y) % 2 = y % 2
  OBVIOUS
<1> HIDE DEF a, b
<1>8. a \in Nat /\ b \in Nat
  BY <1>4, <1>5 DEF b
<1> QED BY <1>5, <1>6, <1>7, <1>8 DEF b

(* The places of the data bits are those that are no power of two; the     *)
(* k-th of them holds bit k of the data.                                   *)
LEMMA DataPlaces ==
    ASSUME NEW m \in Nat, NEW r \in Nat, \A q \in 0..(r - 1) : TwoTo[q] \in 1..(m + r),
           NEW k \in 1..(m + r), ~IsPower(k, r)
    PROVE  k - Cardinality({p \in 1..k : IsPower(p, r)}) \in 1..m
<1> DEFINE N == m + r
           P == {p \in 1..N : IsPower(p, r)}
           A == {p \in 1..k : IsPower(p, r)}
           B == (k + 1)..N
           Q == 0..(r - 1)
           h == [q \in Q |-> TwoTo[q]]
<1>1. N \in Nat /\ k \in Nat /\ k \in 1..N
  OBVIOUS
<1>2. IsFiniteSet(1..N) /\ IsFiniteSet(B) /\ IsFiniteSet(Q) /\ IsFiniteSet(1..(k - 1))
      /\ Cardinality(B) = N - k /\ Cardinality(Q) = r
  <2>1. k + 1 \in Int /\ N \in Int /\ r - 1 \in Int /\ k - 1 \in Int /\ 0 \in Int /\ 1 \in Int
    OBVIOUS
  <2>2. /\ Cardinality(B) = IF k + 1 > N THEN 0 ELSE N - (k + 1) + 1
        /\ Cardinality(Q) = IF 0 > r - 1 THEN 0 ELSE (r - 1) - 0 + 1
        /\ IsFiniteSet(1..N) /\ IsFiniteSet(B) /\ IsFiniteSet(Q) /\ IsFiniteSet(1..(k - 1))
    <3> HIDE DEF N
    <3> QED BY <2>1, FS_Interval
  <2> HIDE DEF B, Q
  <2>3. /\ (IF k + 1 > N THEN 0 ELSE N - (k + 1) + 1) = N - k
        /\ (IF 0 > r - 1 THEN 0 ELSE (r - 1) - 0 + 1) = r
    <3> HIDE DEF N
    <3> QED BY <1>1
  <2> QED BY <2>2, <2>3
<1>3. A \subseteq 1..(k - 1) /\ A \subseteq 1..N /\ P \subseteq 1..N /\ P \subseteq A \cup B
  <2>1. \A p \in 1..k : IsPower(p, r) => p # k
    OBVIOUS
  <2> QED BY <1>1, <2>1
<1>4. h \in Injection(Q, P)
  <2>1. \A q \in Q : TwoTo[q] \in P
    BY DEF IsPower
  <2>2. \A p, q \in Q : TwoTo[p] = TwoTo[q] => p = q
    <3> SUFFICES ASSUME NEW p \in Q, NEW q \in Q, TwoTo[p] = TwoTo[q] PROVE p = q
      OBVIOUS
    <3>1. p \in Nat /\ q \in Nat /\ TwoTo[p] \in Nat /\ TwoTo[q] \in Nat
      BY PowerFacts
    <3>2. ~(p < q) /\ ~(q < p)
      BY <3>1, PowerFacts
    <3> QED BY <3>1, <3>2
  <2>3. h \in [Q -> P]
    BY <2>1
  <2> HIDE DEF P, Q
  <2> QED BY <2>2, <2>3 DEF Injection, IsInjective
<1> HIDE DEF A, B, P, Q, h, N
<1>5. IsFiniteSet(A) /\ Cardinality(A) <= k - 1 /\ IsFiniteSet(P) /\ Cardinality(A) \in Nat
  <2>1. IsFiniteSet(A) /\ Cardinality(A) <= Cardinality(1..(k - 1)) /\ IsFiniteSet(P)
    BY <1>2, <1>3, FS_Subset
  <2>2. Cardinality(1..(k - 1)) = k - 1
    BY <1>1, FS_Interval
  <2> QED BY <2>1, <2>2, FS_CardinalityType
<1>6. r <= Cardinality(P) /\ Cardinality(P) \in Nat
  BY <1>2, <1>4, <1>5, FS_Injection, FS_CardinalityType
<1>7. IsFiniteSet(A \cup B) /\ Cardinality(A \cup B) <= Cardinality(A) + (N - k)
  <2>1. IsFiniteSet(A \cup B)
        /\ Cardinality(A \cup B) = Cardinality(A) + Cardinality(B) - Cardinality(A \cap B)
    BY <1>2, <1>5, FS_Union
  <2>2. IsFiniteSet(A \cap B) /\ Cardinality(A \cap B) \in Nat
    BY <1>2, <1>5, FS_Intersection, FS_CardinalityType
  <2>3. N - k \in Nat
    BY <1>1
  <2> QED BY <1>2, <1>5, <2>1, <2>2, <2>3
<1>8. Cardinality(P) <= Cardinality(A \cup B) /\ Cardinality(A \cup B) \in Nat
  BY <1>3, <1>7, FS_Subset, FS_CardinalityType
<1>9. r <= Cardinality(A) + (N - k)
  BY <1>1, <1>5, <1>6, <1>7, <1>8
<1> DEFINE a == Cardinality(A)
<1>10. a \in Nat /\ a <= k - 1 /\ r <= a + ((m + r) - k) /\ k \in Nat
  BY <1>1, <1>5, <1>9 DEF N
<1> HIDE DEF a
<1>11. k - a \in 1..m
  BY <1>10
<1> QED BY <1>11 DEF a, A

(* In the code word that is sent every parity bit makes the number of ones *)
(* it covers even; no other parity bit is among them.                      *)
LEMMA FrameIsEven ==
    ASSUME NEW m \in Nat, NEW d, IsWord(d, m)
    PROVE  LET r == RedundancyBits(m)
               f == HammingFrame(d)
           IN  /\ IsWord(f, m + r)
               /\ \A q \in 0..(r - 1) : ParityOver(f, q) = 0
<1> DEFINE r == RedundancyBits(m)  N == m + r
           w == Placed(d, r)
           f == HammingFrame(d)
           at(k) == CHOOSE q \in 0..(r - 1) : k = TwoTo[q]
<1>1. r \in Nat /\ \A q \in 0..(r - 1) : TwoTo[q] \in 1..N
  BY BitsAgree
<1>2. Len(d) = m /\ m \in Nat /\ \A k \in 1..m : d[k] \in Bit
  BY WordFacts
<1> HIDE DEF r
<1>3. IsWord(w, N) /\ DOMAIN w = 1..N /\ \A k \in 1..N : IsPower(k, r) => w[k] = 0
  <2>1. w = [k \in 1..N |-> IF IsPower(k, r) THEN 0
                            ELSE d[k - Cardinality({p \in 1..k : IsPower(p, r)})]]
    BY <1>2 DEF Placed
  <2>2. ASSUME NEW k \in 1..N PROVE w[k] \in Bit
    <3>1. CASE IsPower(k, r)
      <4>1. w[k] = 0
        BY <2>1, <3>1
      <4> QED BY <4>1 DEF Bit
    <3>2. CASE ~IsPower(k, r)
      <4> DEFINE p == k - Cardinality({l \in 1..k : IsPower(l, r)})
      <4>1. p \in 1..m
        BY <1>1, <3>2, DataPlaces
      <4>2. w[k] = d[p]
        BY <2>1, <3>2
      <4> HIDE DEF p
      <4> QED BY <1>2, <4>1, <4>2
    <3> QED BY <3>1, <3>2
  <2>3. DOMAIN w = 1..N /\ N \in Nat
    BY <1>1, <2>1
  <2>4. w \in [1..N -> Bit]
    <3> HIDE DEF w
    <3>1. w = [k \in 1..N |-> w[k]]
      BY <2>1
    <3> QED BY <2>2, <3>1
  <2>5. \A k \in 1..N : IsPower(k, r) => w[k] = 0
    BY <2>1
  <2> QED BY <2>3, <2>4, <2>5 DEF IsWord
<1> HIDE DEF w
<1>4. f = [k \in 1..N |-> IF IsPower(k, r) THEN ParityOver(w, at(k)) ELSE w[k]]
  BY <1>2, <1>3 DEF HammingFrame, w, r
<1> HIDE DEF f
<1>5. ASSUME NEW k \in 1..N, IsPower(k, r)
      PROVE  /\ at(k) \in 0..(r - 1) /\ k = TwoTo[at(k)]
             /\ f[k] = ParityOver(w, at(k)) /\ f[k] \in {0, 1}
  <2>1. at(k) \in 0..(r - 1) /\ k = TwoTo[at(k)]
    BY <1>5 DEF IsPower
  <2>2. f[k] = ParityOver(w, at(k))
    BY <1>4, <1>5
  <2>3. at(k) \in Nat
    BY <2>1
  <2> HIDE DEF at
  <2>4. ParityOver(w, at(k)) \in {0, 1}
    BY <1>3, <2>3, ParityOverIs
  <2> QED BY <2>1, <2>2, <2>4
<1> HIDE DEF at
<1>6. \A k \in 1..N : ~IsPower(k, r) => f[k] = w[k]
  BY <1>4
<1>7. IsWord(f, N)
  <2>1. \A k \in 1..N : f[k] \in Bit
    <3>1. \A k \in 1..N : w[k] \in Bit
      BY <1>3, WordFacts
    <3> QED BY <1>5, <1>6, <3>1 DEF Bit
  <2>2. DOMAIN f = 1..N /\ f = [k \in 1..N |-> f[k]]
    BY <1>4
  <2>3. N \in Nat
    BY <1>1
  <2> QED BY <2>1, <2>2, <2>3 DEF IsWord
<1>8. ASSUME NEW q \in 0..(r - 1) PROVE ParityOver(f, q) = 0
  <2> DEFINE P == TwoTo[q]  A == Covered(w, q)
  <2>1. q \in Nat /\ P \in 1..N /\ IsPower(P, r)
    BY <1>1 DEF IsPower
  <2>2. Digit(q, P) = 1 /\ w[P] = 0
    BY <1>3, <2>1, PowerDigits
  <2>3. at(P) = q
    <3>1. at(P) \in Nat /\ TwoTo[at(P)] = TwoTo[q]
      BY <1>5, <2>1
    <3>2. Digit(q, TwoTo[at(P)]) = 1
      BY <2>2, <3>1
    <3> QED BY <2>1, <3>1, <3>2, PowerDigits
  <2>4. ASSUME NEW k \in 1..N, IsPower(k, r), Digit(q, k) = 1 PROVE k = P
    <3>1. at(k) \in Nat /\ k = TwoTo[at(k)]
      BY <1>5, <2>4
    <3>2. Digit(q, TwoTo[at(k)]) = 1
      BY <2>4, <3>1
    <3>3. at(k) = q
      BY <2>1, <3>1, <3>2, PowerDigits
    <3> QED BY <3>1, <3>3
  <2>5. f[P] = ParityOver(w, q)
    BY <1>5, <2>1, <2>3
  <2>6. /\ IsFiniteSet(A) /\ Cardinality(A) \in Nat
        /\ ParityOver(w, q) = Cardinality(A) % 2
    BY <1>3, <2>1, ParityOverIs
  <2>7. P \notin A
    BY <2>2 DEF Covered
  <2>8. DOMAIN f = 1..N /\ DOMAIN w = 1..N
    BY <1>3, <1>4
  <2> HIDE DEF P
  <2>9. Covered(f, q) = IF f[P] = 1 THEN A \cup {P} ELSE A
    <3>1. \A k \in 1..N : k # P /\ Digit(q, k) = 1 => f[k] = w[k]
      BY <1>6, <2>4
    <3> QED BY <2>1, <2>2, <2>7, <2>8, <3>1 DEF Covered
  <2> HIDE DEF A
  <2>10. Cardinality(A \cup {P}) = Cardinality(A) + 1
    BY <2>6, <2>7, FS_AddElement
  <2>11. ParityOver(f, q) = Cardinality(Covered(f, q)) % 2
    BY <1>7, <2>1, ParityOverIs
  <2>12. \A c \in Nat : (c % 2 = 1 => (c + 1) % 2 = 0) /\ (c % 2 # 1 => c % 2 = 0)
    OBVIOUS
  <2>13. CASE f[P] = 1
    <3>1. Cardinality(Covered(f, q)) = Cardinality(A) + 1 /\ Cardinality(A) % 2 = 1
      BY <2>5, <2>6, <2>9, <2>10, <2>13
    <3> QED BY <2>6, <2>11, <2>12, <3>1
  <2>14. CASE f[P] # 1
    <3>1. Cardinality(Covered(f, q)) = Cardinality(A) /\ Cardinality(A) % 2 # 1
      BY <2>5, <2>6, <2>9, <2>14
    <3> QED BY <2>6, <2>11, <2>12, <3>1
  <2> QED BY <2>13, <2>14
<1> QED BY <1>7, <1>8 DEF r, f

(* What the receiver adds up. *)
IsSum(g, code, num) ==
    /\ g \in [0..num -> Nat]
    /\ g[0] = 0
    /\ \A q \in 0..(num - 1) : g[q + 1] = g[q] + ParityOver(code, q) * TwoTo[q]

LEMMA SumsExist ==
    ASSUME NEW N, NEW code, IsWord(code, N)
    PROVE  \A num \in Nat : \E g : IsSum(g, code, num)
<1> DEFINE T == {num \in Nat : \E g : IsSum(g, code, num)}
<1>1. 0 \in T
  <2>1. IsSum([q \in 0..0 |-> 0], code, 0)
    BY DEF IsSum
  <2> QED BY <2>1
<1>2. ASSUME NEW num \in Nat, num \in T PROVE num + 1 \in T
  <2>1. PICK g : IsSum(g, code, num)
    BY <1>2
  <2> DEFINE v == g[num] + ParityOver(code, num) * TwoTo[num]
             h == [q \in 0..(num + 1) |-> IF q = num + 1 THEN v ELSE g[q]]
  <2>2. v \in Nat /\ \A q \in 0..num : g[q] \in Nat
    <3>1. ParityOver(code, num) \in {0, 1} /\ TwoTo[num] \in Nat
      BY ParityOverIs, PowerFacts
    <3>2. ParityOver(code, num) * TwoTo[num] \in Nat
      BY <3>1
    <3> QED BY <2>1, <3>2 DEF IsSum
  <2>3. h \in [0..(num + 1) -> Nat]
    <3> HIDE DEF v
    <3> QED BY <2>2
  <2>4. h[0] = 0
    BY <2>1 DEF IsSum
  <2>5. ASSUME NEW q \in 0..((num + 1) - 1) PROVE h[q + 1] = h[q] + ParityOver(code, q) * TwoTo[q]
    <3>1. q \in 0..(num + 1) /\ q + 1 \in 0..(num + 1) /\ q # num + 1
      OBVIOUS
    <3>2. h[q] = g[q]
      BY <3>1
    <3>3. CASE q = num
      BY <3>1, <3>2, <3>3
    <3>4. CASE q # num
      <4>1. q \in 0..(num - 1) /\ q + 1 # num + 1
        BY <3>4
      <4>2. h[q + 1] = g[q + 1]
        BY <3>1, <4>1
      <4> HIDE DEF h
      <4> QED BY <2>1, <3>2, <4>1, <4>2 DEF IsSum
    <3> QED BY <3>3, <3>4
  <2> HIDE DEF h
  <2>6. IsSum(h, code, num + 1)
    BY <2>3, <2>4, <2>5 DEF IsSum
  <2> QED BY <2>6
<1> HIDE DEF T
<1>3. Nat \subseteq T
  BY <1>1, <1>2, UpwardsClosed
<1> QED BY <1>3 DEF T

LEMMA PositionIsSum ==
    ASSUME NEW N, NEW code, IsWord(code, N), NEW r \in Nat
    PROVE  \E g : IsSum(g, code, r) /\ ErrorPosition(code, r) = g[r]
<1> DEFINE Eq(g) == g = [q \in 0..r |-> IF q = 0 THEN 0
                                        ELSE g[q - 1] + ParityOver(code, q - 1) * TwoTo[q - 1]]
           sum == CHOOSE g : Eq(g)
<1>1. PICK h : IsSum(h, code, r)
  BY SumsExist
<1>2. Eq(h)
  <2>1. ASSUME NEW q \in 0..r, q # 0
        PROVE  h[q] = h[q - 1] + ParityOver(code, q - 1) * TwoTo[q - 1]
    <3>1. q - 1 \in 0..(r - 1) /\ (q - 1) + 1 = q
      BY <2>1
    <3> DEFINE p == q - 1
    <3>2. p \in 0..(r - 1) /\ h[p + 1] = h[p] + ParityOver(code, p) * TwoTo[p]
      <4>1. p \in 0..(r - 1)
        BY <3>1
      <4> HIDE DEF p
      <4> QED BY <1>1, <4>1 DEF IsSum
    <3> QED BY <3>1, <3>2
  <2>2. h[0] = 0 /\ h = [q \in 0..r |-> h[q]]
    BY <1>1 DEF IsSum
  <2> QED BY <2>1, <2>2
<1>3. Eq(sum)
  <2> HIDE DEF Eq
  <2> QED BY <1>2
<1>4. ErrorPosition(code, r) = sum[r]
  BY DEF ErrorPosition
<1> HIDE DEF sum
<1>5. \A q \in 0..r : sum[q] = IF q = 0 THEN 0
                               ELSE sum[q - 1] + ParityOver(code, q - 1) * TwoTo[q - 1]
  BY <1>3
<1>6. ASSUME NEW q \in 0..(r - 1) PROVE sum[q + 1] = sum[q] + ParityOver(code, q) * TwoTo[q]
  <2>1. q + 1 \in 0..r /\ q + 1 # 0 /\ (q + 1) - 1 = q
    OBVIOUS
  <2> DEFINE p == q + 1
  <2>2. p \in 0..r /\ p # 0 /\ p - 1 = q
    BY <2>1
  <2> HIDE DEF p
  <2>3. sum[p] = sum[q] + ParityOver(code, q) * TwoTo[q]
    BY <1>5, <2>2
  <2> QED BY <2>3 DEF p
<1>7. sum[0] = 0
  BY <1>5
<1>8. \A q \in 0..r : sum[q] \in Nat
  <2> DEFINE T == {q \in Nat : q <= r => sum[q] \in Nat}
  <2>1. 0 \in T
    BY <1>7
  <2>2. ASSUME NEW q \in Nat, q \in T PROVE q + 1 \in T
    <3>1. SUFFICES ASSUME q + 1 <= r PROVE sum[q + 1] \in Nat
      OBVIOUS
    <3>2. q \in 0..(r - 1) /\ sum[q] \in Nat
      BY <2>2, <3>1
    <3>3. ParityOver(code, q) \in {0, 1} /\ TwoTo[q] \in Nat
      BY ParityOverIs, PowerFacts
    <3>4. ParityOver(code, q) * TwoTo[q] \in Nat
      BY <3>3
    <3> QED BY <1>6, <3>2, <3>4
  <2> HIDE DEF T
  <2>3. Nat \subseteq T
    BY <2>1, <2>2, UpwardsClosed
  <2> QED BY <2>3 DEF T
<1>9. IsSum(sum, code, r)
  <2>1. sum = [q \in 0..r |-> sum[q]]
    BY <1>3
  <2>2. sum \in [0..r -> Nat]
    BY <1>8, <2>1
  <2> QED BY <1>6, <1>7, <2>2 DEF IsSum
<1> QED BY <1>4, <1>9

LEMMA Positions ==
    ASSUME NEW N, NEW code, IsWord(code, N), NEW r \in Nat
    PROVE  /\ \A num \in Nat :
                 num < TwoTo[r] /\ (\A q \in 0..(r - 1) : ParityOver(code, q) = Digit(q, num))
                   => ErrorPosition(code, r) = num
           /\ (\E q \in 0..(r - 1) : ParityOver(code, q) = 1)
                   => ErrorPosition(code, r) # 0
<1>1. PICK g : IsSum(g, code, r) /\ ErrorPosition(code, r) = g[r]
  BY PositionIsSum
<1>2. ASSUME NEW num \in Nat, num < TwoTo[r],
             \A q \in 0..(r - 1) : ParityOver(code, q) = Digit(q, num)
      PROVE  g[r] = num
  <2> DEFINE T == {q \in Nat : q <= r => g[q] = num % TwoTo[q]}
  <2>1. 0 \in T
    BY <1>1, SmallDigits DEF IsSum
  <2>2. ASSUME NEW q \in Nat, q \in T PROVE q + 1 \in T
    <3>1. SUFFICES ASSUME q + 1 <= r PROVE g[q + 1] = num % TwoTo[q + 1]
      OBVIOUS
    <3>2. q \in 0..(r - 1) /\ g[q] = num % TwoTo[q]
      BY <2>2, <3>1
    <3>3. g[q + 1] = g[q] + ParityOver(code, q) * TwoTo[q]
      BY <1>1, <3>2 DEF IsSum
    <3>4. ParityOver(code, q) = Digit(q, num)
      BY <1>2, <3>2
    <3>5. num % TwoTo[q + 1] = (num % TwoTo[q]) + Digit(q, num) * TwoTo[q]
      BY DigitFacts
    <3> QED BY <3>2, <3>3, <3>4, <3>5
  <2> HIDE DEF T
  <2>3. Nat \subseteq T
    BY <2>1, <2>2, UpwardsClosed
  <2>4. g[r] = num % TwoTo[r]
    BY <2>3 DEF T
  <2> QED BY <1>2, <2>4, SmallDigits
<1>3. ASSUME NEW q \in 0..(r - 1), ParityOver(code, q) = 1
      PROVE  g[r] # 0
  <2> DEFINE T == {p \in Nat : q + p + 1 <= r => g[q + p + 1] > 0}
  <2>1. 0 \in T
    <3>1. q \in Nat /\ q \in 0..r /\ q + 0 + 1 = q + 1
      OBVIOUS
    <3>2. g[q + 1] = g[q] + 1 * TwoTo[q]
      BY <1>1, <1>3 DEF IsSum
    <3>3. g[q] \in Nat /\ TwoTo[q] \in Nat \ {0}
      BY <1>1, <3>1, PowerFacts DEF IsSum
    <3> QED BY <3>1, <3>2, <3>3
  <2>2. ASSUME NEW p \in Nat, p \in T PROVE p + 1 \in T
    <3> DEFINE l == q + p + 1
    <3>1. SUFFICES ASSUME q + (p + 1) + 1 <= r PROVE g[q + (p + 1) + 1] > 0
      OBVIOUS
    <3>2. l \in Nat /\ l \in 0..(r - 1) /\ l \in 0..r /\ q + (p + 1) + 1 = l + 1
      BY <3>1
    <3>3. g[l] > 0
      BY <2>2, <3>2
    <3> HIDE DEF l
    <3>4. g[l + 1] = g[l] + ParityOver(code, l) * TwoTo[l] /\ g[l] \in Nat
      BY <1>1, <3>2 DEF IsSum
    <3>5. ParityOver(code, l) \in {0, 1} /\ TwoTo[l] \in Nat
      BY <3>2, ParityOverIs, PowerFacts
    <3>6. ParityOver(code, l) * TwoTo[l] \in Nat
      BY <3>5
    <3> QED BY <3>2, <3>3, <3>4, <3>6
  <2> HIDE DEF T
  <2>3. Nat \subseteq T
    BY <2>1, <2>2, UpwardsClosed
  <2>4. r - q - 1 \in Nat /\ q + (r - q - 1) + 1 = r
    OBVIOUS
  <2>5. g[q + (r - q - 1) + 1] > 0
    BY <2>3, <2>4 DEF T
  <2> QED BY <2>4, <2>5
<1> QED BY <1>1, <1>2, <1>3

(* What the receiver finds when no, one or two bits are flipped. *)
LEMMA ReceiverFinds ==
    ASSUME NEW m \in Nat, NEW d, IsWord(d, m), NEW S, NEW g,
           IsFlipped(g, HammingFrame(d), S)
    PROVE  LET f == HammingFrame(d)
               pos == ErrorPosition(g, ServerBits(Len(g)))
           IN  /\ Len(f) = m + RedundancyBits(m)
               /\ S = {} => pos = 0
               /\ \A k \in 1..Len(f) : S = {k} => pos = k
               /\ \A k, l \in 1..Len(f) : k # l /\ S = {k, l} => pos # 0
<1> DEFINE r == RedundancyBits(m)  N == m + r
           f == HammingFrame(d)
           pos == ErrorPosition(g, r)
<1>1. r \in Nat /\ N \in Nat /\ N < TwoTo[r] /\ ServerBits(N) = r
  BY BitsAgree
<1>2. IsWord(f, N) /\ \A q \in 0..(r - 1) : ParityOver(f, q) = 0
  BY FrameIsEven
<1> HIDE DEF f, r
<1>3. IsWord(g, N) /\ Len(g) = N /\ Len(f) = N
  <2>1. IsWord(g, N)
    BY <1>2, FlippedFacts DEF f
  <2> QED BY <1>2, <2>1, WordFacts
<1>4. ASSUME NEW q \in 0..(r - 1)
      PROVE  ParityOver(g, q) = Cardinality({k \in S : Digit(q, k) = 1}) % 2
  BY <1>2, <1>1, FlippedParityOver DEF f
<1>5. /\ Cardinality({}) = 0 /\ 0 % 2 = 0 /\ 1 % 2 = 1
      /\ \A k : Cardinality({k}) = 1
  <2>1. Cardinality({}) = 0 /\ \A k : Cardinality({k}) = 1
    BY FS_EmptySet, FS_Singleton
  <2>2. 0 % 2 = 0 /\ 1 % 2 = 1
    OBVIOUS
  <2> QED BY <2>1, <2>2
<1>6. ASSUME S = {} PROVE pos = 0
  <2>1. ASSUME NEW q \in 0..(r - 1) PROVE ParityOver(g, q) = Digit(q, 0)
    <3>1. {k \in S : Digit(q, k) = 1} = {}
      BY <1>6
    <3>2. q \in Nat /\ TwoTo[q] > 0
      BY PowerFacts
    <3> QED BY <1>4, <1>5, <3>1, <3>2, SmallDigits
  <2>2. 0 \in Nat /\ 0 < TwoTo[r]
    BY <1>1, PowerFacts
  <2> QED BY <1>1, <1>3, <2>1, <2>2, Positions
<1>7. ASSUME NEW p \in 1..N, S = {p} PROVE pos = p
  <2>1. p \in Nat /\ p < TwoTo[r]
    BY <1>1, PowerFacts
  <2>2. ASSUME NEW q \in 0..(r - 1) PROVE ParityOver(g, q) = Digit(q, p)
    <3>1. Digit(q, p) \in {0, 1}
      BY <2>1, DigitFacts
    <3>2. {k \in S : Digit(q, k) = 1} = IF Digit(q, p) = 1 THEN {p} ELSE {}
      BY <1>7
    <3> QED BY <1>4, <1>5, <3>1, <3>2
  <2> QED BY <1>1, <1>3, <2>1, <2>2, Positions
<1>8. ASSUME NEW p \in 1..N, NEW l \in 1..N, p # l, S = {p, l} PROVE pos # 0
  <2>1. p \in Nat /\ p < TwoTo[r] /\ l \in Nat /\ l < TwoTo[r]
    BY <1>1, PowerFacts
  <2>2. PICK q \in 0..(r - 1) : Digit(q, p) # Digit(q, l)
    BY <1>1, <1>8, <2>1, SameDigits
  <2>3. Digit(q, p) \in {0, 1} /\ Digit(q, l) \in {0, 1}
    BY <2>1, DigitFacts
  <2>4. \/ {k \in S : Digit(q, k) = 1} = {p}
        \/ {k \in S : Digit(q, k) = 1} = {l}
    BY <1>8, <2>2, <2>3
  <2>5. ParityOver(g, q) = 1
    BY <1>4, <1>5, <2>4
  <2> QED BY <1>1, <1>3, <2>5, Positions
<1> QED BY <1>1, <1>3, <1>6, <1>7, <1>8 DEF f, r

(* Flipping a bit again restores it. *)
LEMMA FlipBack ==
    ASSUME NEW num, NEW f, IsWord(f, num), NEW p \in 1..num, NEW g, IsFlipped(g, f, {p})
    PROVE  Correct(g, p) = f
<1>1. DOMAIN f = 1..num /\ num \in Nat /\ \A k \in 1..num : f[k] \in {0, 1}
  BY WordFacts DEF Bit
<1>2. /\ DOMAIN g = 1..num
      /\ \A k \in 1..num : g[k] = IF k = p THEN 1 - f[k] ELSE f[k]
  BY <1>1 DEF IsFlipped
<1>3. Len(g) = num
  <2>1. IsWord(g, num)
    BY FlippedFacts
  <2> QED BY <2>1, WordFacts
<1>4. Correct(g, p) = [g EXCEPT ![p] = IF g[p] = 0 THEN 1 ELSE 0]
  BY <1>1, <1>3 DEF Correct, Flip
<1> DEFINE h == Correct(g, p)
<1>5. DOMAIN h = 1..num /\ \A k \in 1..num : h[k] = f[k]
  BY <1>1, <1>2, <1>4
<1>6. h = [k \in 1..num |-> h[k]] /\ f = [k \in 1..num |-> f[k]]
  <2>1. h = [k \in DOMAIN h |-> h[k]]
    BY <1>4
  <2>2. f = [k \in DOMAIN f |-> f[k]]
    BY DEF IsWord
  <2> HIDE DEF h
  <2> QED BY <1>1, <1>5, <2>1, <2>2
<1> HIDE DEF h
<1>7. h = f
  BY <1>5, <1>6
<1> QED BY <1>7 DEF h

(* What is known of a run of the parity and the Hamming programs at every  *)
(* place: the frame is the encoded data, what is received is the frame     *)
(* with bits flipped, and the verdict is the one computed from it.         *)
Encoded ==
    IF program = "parity" THEN Append(data, ParityBit(data, option)) ELSE HammingFrame(data)

Found == ErrorPosition(received, ServerBits(Len(received)))

ControlInv ==
    /\ place \in {"sender", "channel", "receiver", "done"}
    /\ program \in {"parity", "crc", "hamming"}
    /\ program # "crc" =>
          /\ \E m \in Nat : IsWord(data, m)
          /\ place # "sender" => frame = Encoded
          /\ place \in {"receiver", "done"} => IsFlipped(received, frame, flips)
    /\ program = "parity" /\ place = "done" =>
          judged = IF ParityAccepts(received, option) THEN "accepted" ELSE "rejected"
    /\ program = "hamming" /\ place = "done" =>
          /\ judged = IF Found = 0 THEN "accepted" ELSE "rejected"
          /\ errorPos = Found
          /\ corrected = IF Found = 0 THEN received ELSE Correct(received, Found)

LEMMA ControlInitially == ControlInit => ControlInv
<1> SUFFICES ASSUME ControlInit PROVE ControlInv
  OBVIOUS
<1>1. program # "crc" => \E m \in Nat : IsWord(data, m)
  <2> SUFFICES ASSUME program # "crc" PROVE \E m \in Nat : IsWord(data, m)
    OBVIOUS
  <2>1. PICK max : data \in DataUpTo(max)
    BY DEF ControlInit
  <2>2. PICK m \in 1..max : data \in [1..m -> Bit]
    BY <2>1 DEF DataUpTo
  <2>3. m \in Nat
    BY <2>2
  <2> QED BY <2>2, <2>3 DEF IsWord
<1> QED BY <1>1 DEF ControlInit, Idle, ControlInv

LEMMA EncodedIsWord ==
    ASSUME ControlInv, program # "crc"
    PROVE  \E num \in Nat : IsWord(Encoded, num)
<1>1. PICK m \in Nat : IsWord(data, m)
  BY DEF ControlInv
<1>2. CASE program = "parity"
  <2>1. IsWord(Append(data, ParityBit(data, option)), m + 1) /\ m + 1 \in Nat
    BY <1>1, ParityFrame
  <2> QED BY <1>2, <2>1 DEF Encoded
<1>3. CASE program # "parity"
  <2>1. IsWord(HammingFrame(data), m + RedundancyBits(m)) /\ m + RedundancyBits(m) \in Nat
    BY <1>1, FrameIsEven, BitsAgree
  <2> QED BY <1>3, <2>1 DEF Encoded
<1> QED BY <1>2, <1>3

LEMMA ControlStep == ControlInv /\ [ControlNext]_controlVars => ControlInv'
<1> SUFFICES ASSUME ControlInv, [ControlNext]_controlVars PROVE ControlInv'
  OBVIOUS
<1>1. CASE SendParity
  BY <1>1 DEF SendParity, Transmit, ControlInv, Encoded
<1>2. CASE SendCrc
  BY <1>2 DEF SendCrc, Transmit, ControlInv
<1>3. CASE SendHamming
  BY <1>3 DEF SendHamming, Transmit, ControlInv, Encoded
<1>4. CASE Channel
  <2>1. PICK S \in FlipsOf(frame) :
          /\ flips' = S
          /\ received' = [k \in DOMAIN frame |-> IF k \in S THEN 1 - frame[k] ELSE frame[k]]
    BY <1>4 DEF Channel
  <2>2. ASSUME program # "crc" PROVE S \subseteq DOMAIN frame
    <3>1. frame = Encoded
      BY <1>4, <2>2 DEF Channel, ControlInv
    <3>2. PICK num \in Nat : IsWord(frame, num)
      BY <2>2, <3>1, EncodedIsWord
    <3>3. DOMAIN frame = 1..num
      BY <3>2, WordFacts
    <3> QED BY <3>3 DEF FlipsOf
  <2>3. UNCHANGED <<program, option, data, frame, judged, errorPos, corrected>>
        /\ place = "channel" /\ place' = "receiver"
    BY <1>4 DEF Channel
  <2>4. program # "crc" => (IsFlipped(received, frame, flips))'
    BY <2>1, <2>2, <2>3 DEF IsFlipped
  <2>5. Encoded' = Encoded
    BY <2>3 DEF Encoded
  <2> QED BY <2>3, <2>4, <2>5 DEF ControlInv
<1>5. CASE ReceiveParity
  <2>1. Encoded' = Encoded /\ UNCHANGED <<program, option, data, frame, received, flips>>
        /\ program = "parity" /\ place = "receiver" /\ place' = "done"
        /\ judged' = IF ParityAccepts(received, option) THEN "accepted" ELSE "rejected"
    BY <1>5 DEF ReceiveParity, Judge, Encoded
  <2> QED BY <2>1 DEF ControlInv
<1>6. CASE ReceiveCrc
  BY <1>6 DEF ReceiveCrc, Judge, ControlInv
<1>7. CASE ReceiveHamming
  <2>1. Encoded' = Encoded /\ UNCHANGED <<program, option, data, frame, received, flips>>
        /\ program = "hamming" /\ place = "receiver" /\ place' = "done"
        /\ judged' = (IF Found = 0 THEN "accepted" ELSE "rejected")
        /\ errorPos' = Found
        /\ corrected' = IF Found = 0 THEN received ELSE Correct(received, Found)
    BY <1>7 DEF ReceiveHamming, Judge, Encoded, Found
  <2>2. Found' = Found
    BY <2>1 DEF Found
  <2> QED BY <2>1, <2>2 DEF ControlInv
<1>8. CASE UNCHANGED controlVars
  <2>1. Encoded' = Encoded /\ Found' = Found
    BY <1>8 DEF Encoded, Found, controlVars
  <2> QED BY <1>8, <2>1 DEF ControlInv, controlVars
<1> QED BY <1>1, <1>2, <1>3, <1>4, <1>5, <1>6, <1>7, <1>8 DEF ControlNext

LEMMA ControlInvariant == ControlSpec => []ControlInv
<1> QED BY ControlInitially, ControlStep, PTL DEF ControlSpec

(* The parity programs, for data of any length and any bits flipped that   *)
(* the channel may flip: the receiver accepts exactly when an even number  *)
(* of bits was flipped (quo1/server.c).                                    *)
THEOREM ParityAlwaysNoticesOdd == ControlSpec => []ParityNoticesOdd
<1>1. ControlInv => ParityNoticesOdd
  <2> SUFFICES ASSUME ControlInv, program = "parity", place = "done"
               PROVE  judged = "accepted" <=> Cardinality(flips) % 2 = 0
    BY DEF ParityNoticesOdd
  <2>1. PICK m \in Nat : IsWord(data, m)
    BY DEF ControlInv
  <2>2. IsWord(frame, m + 1) /\ ParityAccepts(frame, option) /\ IsFlipped(received, frame, flips)
    BY <2>1, ParityFrame DEF ControlInv, Encoded
  <2> DEFINE a == count_ones(frame)  b == count_ones(received)  c == Cardinality(flips)
  <2>3. a \in Nat /\ b \in Nat /\ c \in Nat /\ b % 2 = (a + c) % 2
    BY <2>2, FlippedParity
  <2>4. a % 2 = IF option = 1 THEN 0 ELSE 1
    <3>1. IF option = 1 THEN a % 2 = 0 ELSE a % 2 # 0
      BY <2>2 DEF ParityAccepts
    <3> HIDE DEF a
    <3> QED BY <2>3, <3>1
  <2>5. judged = "accepted" <=> IF option = 1 THEN b % 2 = 0 ELSE b % 2 # 0
    BY DEF ControlInv, ParityAccepts
  <2> HIDE DEF a, b, c
  <2>6. (a % 2 = 0 => (a + c) % 2 = c % 2) /\ (a % 2 = 1 => (c % 2 = 0 <=> (a + c) % 2 # 0))
    BY <2>3
  <2>7. judged = "accepted" <=> c % 2 = 0
    BY <2>3, <2>4, <2>5, <2>6
  <2> QED BY <2>7 DEF c
<1> QED BY <1>1, ControlInvariant, PTL

(* The Hamming programs, for data of any length: the server works out the  *)
(* client's number of redundancy bits, finds and repairs any one flipped   *)
(* bit, and does not take two for none (quo3/server.c).                    *)
THEOREM HammingAlwaysCorrectsOne == ControlSpec => []HammingCorrectsOne
<1>1. ControlInv => HammingCorrectsOne
  <2> SUFFICES ASSUME ControlInv, program = "hamming" PROVE HammingCorrectsOne
    BY DEF HammingCorrectsOne
  <2>1. PICK m \in Nat : IsWord(data, m)
    BY DEF ControlInv
  <2> DEFINE f == HammingFrame(data)
             N == m + RedundancyBits(m)
  <2>2. IsWord(f, N) /\ Len(f) = N /\ DOMAIN f = 1..N /\ Len(data) = m
    <3>1. IsWord(f, N)
      BY <2>1, FrameIsEven
    <3> HIDE DEF f, N
    <3> QED BY <2>1, <3>1, WordFacts
  <2>3. place = "receiver" => ReceiverAgreesOnBits
    <3> SUFFICES ASSUME place = "receiver" PROVE ReceiverAgreesOnBits
      OBVIOUS
    <3>1. frame = f /\ IsFlipped(received, f, flips)
      BY DEF ControlInv, Encoded
    <3>2. IsWord(received, N)
      <4> HIDE DEF f, N
      <4> QED BY <2>2, <3>1, FlippedFacts
    <3>3. Len(received) = N
      <4> HIDE DEF f, N
      <4> QED BY <3>2, WordFacts
    <3> QED BY <2>2, <3>3, BitsAgree DEF ReceiverAgreesOnBits
  <2>4. ASSUME place = "done"
        PROVE  /\ Cardinality(flips) <= 1 => corrected = frame
               /\ \A k \in 1..Len(frame) : flips = {k} => errorPos = k
               /\ Cardinality(flips) = 2 => judged = "rejected"
    <3>1. /\ frame = f /\ IsFlipped(received, f, flips) /\ errorPos = Found
          /\ judged = IF Found = 0 THEN "accepted" ELSE "rejected"
          /\ corrected = IF Found = 0 THEN received ELSE Correct(received, Found)
      BY <2>4 DEF ControlInv, Encoded
    <3>2. /\ flips = {} => Found = 0
          /\ \A k \in 1..N : flips = {k} => Found = k
          /\ \A k, l \in 1..N : k # l /\ flips = {k, l} => Found # 0
      BY <2>1, <2>2, <3>1, ReceiverFinds DEF Found
    <3> HIDE DEF f, N
    <3>3. IsFiniteSet(flips) /\ flips \subseteq 1..N /\ Cardinality(flips) \in Nat
      <4>1. IsFiniteSet(flips)
        BY <2>2, <3>1, FlippedFacts
      <4> QED BY <2>2, <3>1, <4>1, FS_CardinalityType DEF IsFlipped
    <3>4. ASSUME Cardinality(flips) <= 1 PROVE corrected = frame
      <4>1. Cardinality(flips) = 0 \/ Cardinality(flips) = 1
        BY <3>3, <3>4
      <4>2. CASE Cardinality(flips) = 0
        <5>1. flips = {} /\ Found = 0
          BY <3>2, <3>3, <4>2, FS_EmptySet
        <5>2. received = [k \in DOMAIN f |-> f[k]]
          BY <3>1, <5>1 DEF IsFlipped
        <5>3. f = [k \in DOMAIN f |-> f[k]]
          BY <2>2 DEF IsWord
        <5> QED BY <3>1, <5>1, <5>2, <5>3
      <4>3. CASE Cardinality(flips) = 1
        <5>1. PICK p : flips = {p}
          BY <3>3, <4>3, FS_Singleton
        <5>2. p \in 1..N /\ Found = p /\ p # 0
          BY <3>2, <3>3, <5>1
        <5>3. Correct(received, p) = f
          BY <2>2, <3>1, <5>1, <5>2, FlipBack
        <5> QED BY <3>1, <5>2, <5>3
      <4> QED BY <4>1, <4>2, <4>3
    <3>5. ASSUME Cardinality(flips) = 2 PROVE judged = "rejected"
      <4>1. flips # {}
        BY <3>5, FS_EmptySet
      <4>2. PICK p : p \in flips
        BY <4>1
      <4>3. IsFiniteSet(flips \ {p}) /\ Cardinality(flips \ {p}) = 2 - 1
        BY <3>3, <3>5, <4>2, FS_RemoveElement
      <4>4. PICK l : flips \ {p} = {l}
        <5>1. Cardinality(flips \ {p}) = 1
          BY <4>3
        <5> QED BY <4>3, <5>1, FS_Singleton
      <4>5. flips = {p, l} /\ p # l /\ p \in 1..N /\ l \in 1..N
        BY <3>3, <4>2, <4>4
      <4> QED BY <3>1, <3>2, <4>5
    <3> QED BY <2>2, <3>1, <3>2, <3>4, <3>5
  <2> QED BY <2>3, <2>4 DEF HammingCorrectsOne
<1> QED BY <1>1, ControlInvariant, PTL

-----------------------------------------------------------------------------
(* The servers of Lab05/quo2.                                              *)

(* A client waits to be accepted once, from its connect to its accept.     *)
QueueOK ==
    /\ \A x, y \in 1..Len(queue) : queue[x] = queue[y] => x = y
    /\ \A x \in 1..Len(queue) : srv[queue[x]] = "none" /\ cl[queue[x]] # "off"
    /\ \A c \in Client : srv[c] = "none" /\ cl[c] # "off" =>
          \E x \in 1..Len(queue) : queue[x] = c

(* Nothing is under way in either direction.                               *)
Quiet(c) == toServer[c] = <<>> /\ toClient[c] = <<>>

(* The server has not begun the round, or never will.                      *)
Unread(c) == srv[c] \in {"none", "read1", "closed"}

PairOK(c) == pair[c] \in Word \X Word

(* What is under way, and what the server has read, at each place of a     *)
(* client that is still there.                                             *)
OffOK(c) == cl[c] = "off" => srv[c] = "none" /\ rounds[c] = 0 /\ Quiet(c)

PromptOK(c) ==
    cl[c] = "prompt" =>
        /\ Quiet(c) /\ Unread(c)
        /\ rounds[c] > 0 => answer[c] = <<<<pair[c][1]>>, <<pair[c][2]>>>>

PausingOK(c) ==
    cl[c] = "pausing" =>
        /\ PairOK(c) /\ toClient[c] = <<>>
        /\ \/ Unread(c) /\ toServer[c] = <<pair[c][1]>>
           \/ srv[c] = "read2" /\ str1[c] = <<pair[c][1]>> /\ toServer[c] = <<>>

WaitingOK(c) ==
    cl[c] = "waiting" =>
        /\ PairOK(c)
        /\ \/ Unread(c) /\ toServer[c] = <<pair[c][1], pair[c][2]>> /\ toClient[c] = <<>>
           \/ /\ srv[c] = "read2" /\ str1[c] = <<pair[c][1]>>
              /\ toServer[c] = <<pair[c][2]>> /\ toClient[c] = <<>>
           \/ srv[c] = "read2" /\ str1[c] = <<pair[c][1], pair[c][2]>> /\ Quiet(c)
           \/ /\ srv[c] = "answer" /\ Quiet(c)
              /\ str1[c] = <<pair[c][1]>> /\ str2[c] = <<pair[c][2]>>
           \/ /\ srv[c] = "read1" /\ toServer[c] = <<>>
              /\ toClient[c] = <<<<<<pair[c][1]>>, <<pair[c][2]>>>>>>

RoundOK(c) == OffOK(c) /\ PromptOK(c) /\ PausingOK(c) /\ WaitingOK(c)

(* With the long pause the concurrent server never finds two strings.      *)
SeparateOK ==
    server = "concurrent" /\ longPause =>
        \A c \in Client : Len(toServer[c]) <= 1 /\ Len(str1[c]) <= 1 /\ Len(str2[c]) <= 1

IInv == TypeOK /\ QueueOK /\ (\A c \in Client : RoundOK(c)) /\ SeparateOK

-----------------------------------------------------------------------------
(* A sequence of one.                                                      *)
LEMMA OneLong ==
    ASSUME NEW S, NEW r \in Seq(S), Len(r) = 1
    PROVE  r = <<r[1]>>
<1> DEFINE t == <<r[1]>>
<1>1. r[1] \in S
  <2>1. ASSUME NEW T, NEW q \in Seq(T), Len(q) = 1 PROVE q[1] \in T
    BY ONLY <2>1
  <2> QED BY ONLY r \in Seq(S), Len(r) = 1, <2>1
<1>2. t \in Seq(S) /\ Len(t) = 1 /\ t[1] = r[1]
  BY <1>1
<1> HIDE DEF t
<1>3. \A x \in 1..Len(r) : r[x] = t[x]
  BY <1>2
<1>4. r = t
  BY <1>2, <1>3, SeqEqual
<1> QED
  BY <1>4 DEF t

LEMMA AppendToOne ==
    ASSUME NEW S, NEW v \in S, NEW w \in S, NEW q, q = <<v>>
    PROVE  Append(q, w) = <<v, w>>
<1> DEFINE r == Append(q, w)  t == <<v, w>>
<1>1. q \in Seq(S) /\ Len(q) = 1 /\ q[1] = v
  OBVIOUS
<1>2. t \in Seq(S) /\ Len(t) = 2 /\ t[1] = v /\ t[2] = w
  OBVIOUS
<1> HIDE DEF t
<1>3. r \in Seq(S) /\ Len(r) = 2 /\ r[1] = v /\ r[2] = w
  BY <1>1, AppendProperties
<1> HIDE DEF r
<1>4. r = t
  <2>1. \A x \in 1..Len(r) : r[x] = t[x]
    BY <1>2, <1>3
  <2> QED
    BY <1>2, <1>3, <2>1, SeqEqual
<1> QED
  BY <1>4 DEF r, t

(* The runs a read can take of one string and of two.                      *)
LEMMA RunOfOne ==
    ASSUME NEW S, NEW v \in S, NEW q, q = <<v>>, NEW m \in 1..Len(q)
    PROVE  m = 1 /\ SubSeq(q, 1, m) = <<v>> /\ SubSeq(q, m + 1, Len(q)) = <<>>
<1>1. Len(q) = 1 /\ q[1] = v
  OBVIOUS
<1>2. m = 1
  BY <1>1
<1> HIDE <1>2
<1>3. SubSeq(q, 1, 1) \in Seq(S) /\ Len(SubSeq(q, 1, 1)) = 1 /\ SubSeq(q, 1, 1)[1] = v
  <2>1. 1 \in Int /\ \A x \in 1..1 : q[x] \in S
    BY <1>1
  <2> QED
    BY <1>1, <2>1, SubSeqProperties
<1>4. SubSeq(q, 1, 1) = <<v>>
  BY <1>3, OneLong
<1>5. SubSeq(q, 2, 1) = <<>>
  BY SubSeqEmpty
<1> QED
  BY <1>1, <1>2, <1>4, <1>5

LEMMA RunOfTwo ==
    ASSUME NEW S, NEW q \in Seq(S), Len(q) = 2, NEW m \in 1..Len(q)
    PROVE  \/ SubSeq(q, 1, m) = <<q[1]>> /\ SubSeq(q, m + 1, Len(q)) = <<q[2]>>
           \/ SubSeq(q, 1, m) = q /\ SubSeq(q, m + 1, Len(q)) = <<>>
<1>1. m = 1 \/ m = 2
  OBVIOUS
<1>2. ASSUME NEW x \in 1..2 PROVE SubSeq(q, x, x) = <<q[x]>>
  <2>1. x \in Int /\ \A y \in x..x : q[y] \in S
    OBVIOUS
  <2>2. SubSeq(q, x, x) \in Seq(S) /\ Len(SubSeq(q, x, x)) = 1 /\ SubSeq(q, x, x)[1] = q[x]
    BY <2>1, SubSeqProperties
  <2> QED
    BY <2>2, OneLong
<1>3. SubSeq(q, 1, 1) = <<q[1]>> /\ SubSeq(q, 2, 2) = <<q[2]>>
  BY <1>2
<1>4. SubSeq(q, 1, 2) = q
  BY SubSeqFull
<1>5. SubSeq(q, 3, 2) = <<>>
  BY SubSeqEmpty
<1> QED
  BY <1>1, <1>3, <1>4, <1>5

LEMMA RunTyped ==
    ASSUME NEW S, NEW q \in Seq(S), NEW m \in 1..Len(q)
    PROVE  /\ SubSeq(q, 1, m) \in Seq(S) /\ Len(SubSeq(q, 1, m)) = m
           /\ SubSeq(q, m + 1, Len(q)) \in Seq(S)
           /\ Len(SubSeq(q, m + 1, Len(q))) = Len(q) - m
<1>1. Len(q) \in Nat /\ m \in Int /\ m + 1 \in Int /\ 1 \in Int
  OBVIOUS
<1>2. \A x \in 1..m : q[x] \in S
  BY <1>1
<1>3. \A x \in (m + 1)..Len(q) : q[x] \in S
  BY <1>1
<1>4. SubSeq(q, 1, m) \in Seq(S) /\ Len(SubSeq(q, 1, m)) = m
  BY <1>1, <1>2, SubSeqProperties
<1>5. SubSeq(q, m + 1, Len(q)) \in Seq(S) /\ Len(SubSeq(q, m + 1, Len(q))) = Len(q) - m
  BY <1>1, <1>3, SubSeqProperties
<1> QED
  BY <1>4, <1>5

LEMMA HeadAndTail ==
    ASSUME NEW S, NEW q \in Seq(S), q # <<>>
    PROVE  /\ Head(q) \in S /\ Head(q) = q[1] /\ 1 \in 1..Len(q) /\ Len(q) \in Nat
           /\ Tail(q) \in Seq(S) /\ Len(Tail(q)) = Len(q) - 1
           /\ \A x \in 1..Len(Tail(q)) : Tail(q)[x] = q[x + 1] /\ x + 1 \in 2..Len(q)
<1>1. Len(q) \in Nat /\ Len(q) # 0
  BY EmptySeq, LenProperties
<1>2. Tail(q) \in Seq(S) /\ Len(Tail(q)) = Len(q) - 1
  BY HeadTailProperties
<1> QED
  BY <1>1, <1>2, HeadTailProperties

-----------------------------------------------------------------------------
(* What one client and the server's conversation with it do leaves every   *)
(* other conversation as it was.                                           *)
Moves(c) == User(c) \/ ClientRuns(c, PauseOver) \/ Converse(c)

Unmoved(d) ==
    /\ cl'[d] = cl[d] /\ pair'[d] = pair[d] /\ rounds'[d] = rounds[d]
    /\ answer'[d] = answer[d] /\ toServer'[d] = toServer[d] /\ toClient'[d] = toClient[d]
    /\ srv'[d] = srv[d] /\ str1'[d] = str1[d] /\ str2'[d] = str2[d]

LEMMA OthersUnmoved ==
    ASSUME TypeOK, NEW c \in Client, Moves(c), NEW d \in Client, d # c
    PROVE  Unmoved(d)
<1>1. CASE User(c)
  BY <1>1 DEF User, Connect, SendFirst, Exit, Interrupt, serverVars, Unmoved, TypeOK
<1>2. CASE ClientRuns(c, PauseOver)
  BY <1>2 DEF ClientRuns, SendSecond, ReadAnswer, ServerGone, serverVars, Unmoved, TypeOK
<1>3. CASE ReadFirst(c) \/ ReadFirstEnds(c) \/ Answer(c)
  BY <1>3 DEF ReadFirst, ReadFirstEnds, Answer, clientVars, Unmoved, TypeOK
<1>4. CASE ReadSecond(c) \/ ReadSecondEnds(c)
  BY <1>4 DEF ReadSecond, ReadSecondEnds, clientVars, Unmoved, TypeOK
<1> QED
  BY <1>1, <1>2, <1>3, <1>4 DEF Moves, Converse

LEMMA UnmovedKeeps ==
    ASSUME NEW d \in Client, RoundOK(d), Unmoved(d)
    PROVE  RoundOK(d)'
<1>1. OffOK(d)' /\ PromptOK(d)'
  BY DEF RoundOK, Unmoved, OffOK, PromptOK, Quiet, Unread
<1>2. PausingOK(d)'
  BY DEF RoundOK, Unmoved, PausingOK, PairOK, Unread
<1>3. WaitingOK(d)'
  BY DEF RoundOK, Unmoved, WaitingOK, PairOK, Quiet, Unread
<1> QED
  BY <1>1, <1>2, <1>3 DEF RoundOK

-----------------------------------------------------------------------------
(* The round of the client that moves.                                     *)
LEMMA UserKeeps ==
    ASSUME TypeOK, NEW c \in Client, RoundOK(c), User(c)
    PROVE  RoundOK(c)'
<1>1. CASE Connect(c)
  <2>1. /\ cl[c] = "off" /\ cl'[c] = "prompt"
        /\ UNCHANGED <<pair, rounds, answer, toServer, toClient, srv>>
    BY <1>1 DEF Connect, TypeOK, serverVars
  <2> QED
    BY <2>1 DEF RoundOK, OffOK, PromptOK, PausingOK, WaitingOK, Quiet, Unread
<1>2. CASE Exit(c) \/ Interrupt(c)
  <2>1. cl'[c] = "done"
    BY <1>2 DEF Exit, Interrupt, TypeOK
  <2> QED
    BY <2>1 DEF RoundOK, OffOK, PromptOK, PausingOK, WaitingOK
<1>3. ASSUME NEW v \in Word, NEW w \in Word, SendFirst(c, v, w)
      PROVE  RoundOK(c)'
  <2>1. /\ cl[c] = "prompt" /\ cl'[c] = "pausing" /\ pair'[c] = <<v, w>>
        /\ toServer'[c] = Append(toServer[c], v)
        /\ UNCHANGED <<toClient, srv>>
    BY <1>3 DEF SendFirst, TypeOK, serverVars
  <2>2. Quiet(c) /\ Unread(c)
    BY <2>1 DEF RoundOK, PromptOK
  <2>3. toServer'[c] = <<v>> /\ pair'[c][1] = v /\ pair'[c] \in Word \X Word
    BY <2>1, <2>2 DEF Quiet
  <2>4. PausingOK(c)'
    BY <2>1, <2>2, <2>3 DEF PausingOK, PairOK, Quiet, Unread
  <2> QED
    BY <2>1, <2>4 DEF RoundOK, OffOK, PromptOK, WaitingOK
<1> QED
  BY <1>1, <1>2, <1>3 DEF User

LEMMA ClientKeeps ==
    ASSUME TypeOK, NEW c \in Client, RoundOK(c), ClientRuns(c, PauseOver)
    PROVE  RoundOK(c)'
<1>1. CASE SendSecond(c, PauseOver)
  <2>1. /\ cl[c] = "pausing" /\ srv[c] # "closed" /\ cl'[c] = "waiting"
        /\ toServer'[c] = Append(toServer[c], pair[c][2])
        /\ UNCHANGED <<pair, toClient, srv, str1>>
    BY <1>1 DEF SendSecond, TypeOK, serverVars
  <2>2. PairOK(c) /\ toClient[c] = <<>>
    BY <2>1 DEF RoundOK, PausingOK
  <2>3. CASE Unread(c) /\ toServer[c] = <<pair[c][1]>>
    <3>1. toServer'[c] = <<pair[c][1], pair[c][2]>>
      BY <2>1, <2>2, <2>3, AppendToOne DEF PairOK
    <3>2. WaitingOK(c)'
      BY <2>1, <2>2, <2>3, <3>1 DEF WaitingOK, PairOK, Unread
    <3> QED
      BY <2>1, <3>2 DEF RoundOK, OffOK, PromptOK, PausingOK
  <2>4. CASE srv[c] = "read2" /\ str1[c] = <<pair[c][1]>> /\ toServer[c] = <<>>
    <3>1. toServer'[c] = <<pair[c][2]>>
      BY <2>1, <2>4
    <3>2. WaitingOK(c)'
      BY <2>1, <2>2, <2>4, <3>1 DEF WaitingOK, PairOK
    <3> QED
      BY <2>1, <3>2 DEF RoundOK, OffOK, PromptOK, PausingOK
  <2> QED
    BY <2>1, <2>3, <2>4 DEF RoundOK, PausingOK
<1>2. CASE ReadAnswer(c)
  <2>1. /\ cl[c] = "waiting" /\ toClient[c] # <<>> /\ cl'[c] = "prompt"
        /\ answer'[c] = toClient[c][1] /\ toClient'[c] = Tail(toClient[c])
        /\ UNCHANGED <<pair, rounds, toServer, srv>>
    BY <1>2 DEF ReadAnswer, TypeOK, serverVars
  <2> DEFINE a == <<<<pair[c][1]>>, <<pair[c][2]>>>>
  <2>2. srv[c] = "read1" /\ toServer[c] = <<>> /\ toClient[c] = <<a>>
    BY <2>1 DEF RoundOK, WaitingOK, Quiet
  <2>3. toClient'[c] = <<>> /\ answer'[c] = a
    <3> HIDE DEF a
    <3> QED
      BY <2>1, <2>2
  <2>4. PromptOK(c)'
    BY <2>1, <2>2, <2>3 DEF PromptOK, Quiet, Unread
  <2> QED
    BY <2>1, <2>4 DEF RoundOK, OffOK, PausingOK, WaitingOK
<1>3. CASE ServerGone(c)
  <2>1. cl'[c] = "done"
    BY <1>3 DEF ServerGone, TypeOK
  <2> QED
    BY <2>1 DEF RoundOK, OffOK, PromptOK, PausingOK, WaitingOK
<1> QED
  BY <1>1, <1>2, <1>3 DEF ClientRuns

LEMMA ServerKeeps ==
    ASSUME TypeOK, NEW c \in Client, RoundOK(c), Converse(c)
    PROVE  RoundOK(c)'
<1>1. cl' = cl /\ pair' = pair /\ rounds' = rounds /\ answer' = answer
  BY DEF Converse, ReadFirst, ReadFirstEnds, ReadSecond, ReadSecondEnds, Answer, clientVars
<1>2. ASSUME cl[c] = "done" PROVE RoundOK(c)'
  BY <1>1, <1>2 DEF RoundOK, OffOK, PromptOK, PausingOK, WaitingOK
<1>3. CASE ReadFirst(c)
  <2>1. PICK m \in 1..Len(toServer[c]) :
           /\ str1' = [str1 EXCEPT ![c] = SubSeq(toServer[c], 1, m)]
           /\ toServer' = [toServer EXCEPT ![c] = SubSeq(@, m + 1, Len(@))]
    BY <1>3 DEF ReadFirst
  <2>2. /\ srv[c] = "read1" /\ srv'[c] = "read2" /\ toClient' = toClient
        /\ str1'[c] = SubSeq(toServer[c], 1, m)
        /\ toServer'[c] = SubSeq(toServer[c], m + 1, Len(toServer[c]))
    BY <1>3, <2>1 DEF ReadFirst, TypeOK
  <2>3. toServer[c] # <<>>
    BY <2>1
  <2>4. CASE cl[c] = "pausing"
    <3>1. PairOK(c) /\ toClient[c] = <<>> /\ toServer[c] = <<pair[c][1]>>
      BY <2>2, <2>4 DEF RoundOK, PausingOK
    <3>2. m = 1 /\ str1'[c] = <<pair[c][1]>> /\ toServer'[c] = <<>>
      BY <2>1, <2>2, <3>1, RunOfOne DEF PairOK
    <3>3. PausingOK(c)'
      BY <1>1, <2>2, <3>1, <3>2 DEF PausingOK, PairOK
    <3> QED
      BY <1>1, <2>4, <3>3 DEF RoundOK, OffOK, PromptOK, WaitingOK
  <2>5. CASE cl[c] = "waiting"
    <3> DEFINE v == pair[c][1]  w == pair[c][2]
    <3>1. PairOK(c) /\ toClient[c] = <<>> /\ toServer[c] = <<v, w>>
      BY <2>2, <2>3, <2>5 DEF RoundOK, WaitingOK, Quiet
    <3>2. v \in Word /\ w \in Word
      BY <3>1 DEF PairOK
    <3> HIDE DEF v, w
    <3>3. \/ str1'[c] = <<v>> /\ toServer'[c] = <<w>>
          \/ str1'[c] = <<v, w>> /\ toServer'[c] = <<>>
      <4>1. toServer[c] \in Seq(Word) /\ Len(toServer[c]) = 2
        BY <3>1 DEF TypeOK
      <4>2. toServer[c][1] = v /\ toServer[c][2] = w
        BY <3>1
      <4>3. \/ str1'[c] = <<toServer[c][1]>> /\ toServer'[c] = <<toServer[c][2]>>
            \/ str1'[c] = toServer[c] /\ toServer'[c] = <<>>
        BY ONLY <2>2, <4>1, RunOfTwo, m \in 1..Len(toServer[c])
      <4> QED
        BY <3>1, <4>2, <4>3
    <3> USE DEF v, w
    <3>4. WaitingOK(c)'
      BY <1>1, <2>2, <3>1, <3>3 DEF WaitingOK, PairOK, Quiet
    <3> QED
      BY <1>1, <2>5, <3>4 DEF RoundOK, OffOK, PromptOK, PausingOK
  <2>6. cl[c] \in {"off", "prompt", "pausing", "waiting", "done"}
    BY DEF TypeOK
  <2> QED
    BY <1>2, <2>2, <2>3, <2>4, <2>5, <2>6 DEF RoundOK, OffOK, PromptOK, Quiet
<1>4. CASE ReadFirstEnds(c) \/ ReadSecondEnds(c)
  BY <1>2, <1>4 DEF ReadFirstEnds, ReadSecondEnds
<1>5. CASE ReadSecond(c)
  <2>1. PICK m \in 1..Len(toServer[c]) :
           /\ str2' = [str2 EXCEPT ![c] = SubSeq(toServer[c], 1, m)]
           /\ toServer' = [toServer EXCEPT ![c] = SubSeq(@, m + 1, Len(@))]
    BY <1>5 DEF ReadSecond
  <2>2. /\ srv[c] = "read2" /\ srv'[c] = "answer" /\ UNCHANGED <<toClient, str1>>
        /\ str2'[c] = SubSeq(toServer[c], 1, m)
        /\ toServer'[c] = SubSeq(toServer[c], m + 1, Len(toServer[c]))
    BY <1>5, <2>1 DEF ReadSecond, TypeOK
  <2>3. toServer[c] # <<>>
    BY <2>1
  <2>4. CASE cl[c] = "waiting"
    <3>1. /\ PairOK(c) /\ toClient[c] = <<>> /\ toServer[c] = <<pair[c][2]>>
          /\ str1[c] = <<pair[c][1]>>
      BY <2>2, <2>3, <2>4 DEF RoundOK, WaitingOK, Quiet, Unread
    <3>2. str2'[c] = <<pair[c][2]>> /\ toServer'[c] = <<>>
      BY <2>1, <2>2, <3>1, RunOfOne DEF PairOK
    <3>3. WaitingOK(c)'
      BY <1>1, <2>2, <3>1, <3>2 DEF WaitingOK, PairOK, Quiet
    <3> QED
      BY <1>1, <2>4, <3>3 DEF RoundOK, OffOK, PromptOK, PausingOK
  <2>5. cl[c] \in {"off", "prompt", "pausing", "waiting", "done"}
    BY DEF TypeOK
  <2> QED
    BY <1>2, <2>2, <2>3, <2>4, <2>5 DEF RoundOK, OffOK, PromptOK, PausingOK, Quiet, Unread
<1>6. CASE Answer(c)
  <2>1. /\ srv[c] = "answer" /\ srv'[c] = "read1" /\ toServer' = toServer
        /\ toClient'[c] = Append(toClient[c], <<str1[c], str2[c]>>)
    BY <1>6 DEF Answer, TypeOK
  <2>2. CASE cl[c] = "waiting"
    <3> DEFINE a == <<<<pair[c][1]>>, <<pair[c][2]>>>>
    <3>1. PairOK(c) /\ Quiet(c) /\ <<str1[c], str2[c]>> = a
      BY <2>1, <2>2 DEF RoundOK, WaitingOK, Unread
    <3>2. toClient'[c] = <<a>>
      <4> HIDE DEF a
      <4> QED
        BY <2>1, <3>1 DEF Quiet
    <3>3. WaitingOK(c)'
      BY <1>1, <2>1, <3>1, <3>2 DEF WaitingOK, PairOK, Quiet
    <3> QED
      BY <1>1, <2>2, <3>3 DEF RoundOK, OffOK, PromptOK, PausingOK
  <2>3. cl[c] \in {"off", "prompt", "pausing", "waiting", "done"}
    BY DEF TypeOK
  <2> QED
    BY <1>2, <2>1, <2>2, <2>3 DEF RoundOK, OffOK, PromptOK, PausingOK, Unread
<1> QED
  BY <1>3, <1>4, <1>5, <1>6 DEF Converse

-----------------------------------------------------------------------------
(* An accept takes the client that has waited longest, which has connected *)
(* and which nobody has accepted before.                                   *)
LEMMA Accepted ==
    ASSUME TypeOK, QueueOK, AcceptStep
    PROVE  LET h == Head(queue) IN
           /\ queue # <<>> /\ h \in Client /\ srv[h] = "none" /\ cl[h] # "off"
           /\ queue' = Tail(queue)
           /\ srv'[h] \in {"read1", "closed"}
           /\ \A d \in Client : d # h => srv'[d] = srv[d]
           /\ UNCHANGED <<clientVars, toServer, toClient, str1, str2, setting>>
<1>1. queue # <<>> /\ queue \in Seq(Client) /\ queue' = Tail(queue)
  BY DEF AcceptStep, AcceptAndFork, ForkFails, Accept, TypeOK
<1>2. Head(queue) \in Client /\ Head(queue) = queue[1] /\ 1 \in 1..Len(queue)
  BY <1>1, HeadAndTail
<1>3. srv[Head(queue)] = "none" /\ cl[Head(queue)] # "off"
  BY <1>2 DEF QueueOK
<1>4. UNCHANGED <<clientVars, toServer, toClient, str1, str2, setting>>
  BY DEF AcceptStep, AcceptAndFork, ForkFails, Accept
<1>5. PICK next \in {"read1", "closed"} : srv' = [srv EXCEPT ![Head(queue)] = next]
  BY DEF AcceptStep, AcceptAndFork, ForkFails, Accept
<1>6. /\ srv'[Head(queue)] \in {"read1", "closed"}
      /\ \A d \in Client : d # Head(queue) => srv'[d] = srv[d]
  BY <1>2, <1>5 DEF TypeOK
<1> QED
  BY <1>1, <1>2, <1>3, <1>4, <1>6

LEMMA AcceptKeeps ==
    ASSUME TypeOK, QueueOK, NEW c \in Client, RoundOK(c), AcceptStep
    PROVE  RoundOK(c)'
<1> DEFINE h == Head(queue)
<1>1. /\ h \in Client /\ srv[h] = "none" /\ cl[h] # "off"
      /\ srv'[h] \in {"read1", "closed"}
      /\ \A d \in Client : d # h => srv'[d] = srv[d]
      /\ UNCHANGED <<clientVars, toServer, toClient, str1, str2, setting>>
  BY Accepted
<1> HIDE DEF h
<1>2. CASE c # h
  <2>1. Unmoved(c)
    BY <1>1, <1>2 DEF Unmoved, clientVars
  <2> QED
    BY <2>1, UnmovedKeeps
<1>3. CASE c = h
  <2>1. /\ cl'[c] = cl[c] /\ cl[c] # "off" /\ srv[c] = "none" /\ Unread(c)'
        /\ UNCHANGED <<pair, rounds, answer, toServer, toClient>>
    BY <1>1, <1>3 DEF clientVars, Unread
  <2>2. OffOK(c)' /\ PromptOK(c)'
    BY <2>1 DEF RoundOK, OffOK, PromptOK, Quiet, Unread
  <2>3. PausingOK(c)'
    BY <2>1 DEF RoundOK, PausingOK, PairOK
  <2>4. WaitingOK(c)'
    BY <2>1 DEF RoundOK, WaitingOK, PairOK
  <2> QED
    BY <2>2, <2>3, <2>4 DEF RoundOK
<1> QED
  BY <1>2, <1>3

LEMMA RoundStep ==
    ASSUME TypeOK, QueueOK, \A c \in Client : RoundOK(c), [Next]_vars, NEW d \in Client
    PROVE  RoundOK(d)'
<1>1. CASE AcceptStep
  BY <1>1, AcceptKeeps
<1>2. ASSUME NEW c \in Client, Moves(c) PROVE RoundOK(d)'
  <2>1. CASE d = c
    BY <1>2, <2>1, UserKeeps, ClientKeeps, ServerKeeps DEF Moves
  <2>2. CASE d # c
    BY <1>2, <2>2, OthersUnmoved, UnmovedKeeps
  <2> QED
    BY <2>1, <2>2
<1>3. CASE UNCHANGED vars
  <2>1. Unmoved(d)
    BY <1>3 DEF vars, clientVars, serverVars, Unmoved
  <2> QED
    BY <2>1, UnmovedKeeps
<1> QED
  BY <1>1, <1>2, <1>3 DEF Next, Moves

-----------------------------------------------------------------------------
(* The queue.                                                              *)
LEMMA QueueStep ==
    ASSUME TypeOK, QueueOK, \A c \in Client : OffOK(c), [Next]_vars
    PROVE  QueueOK'
<1>1. CASE AcceptStep
  <2> DEFINE h == Head(queue)  t == Tail(queue)
  <2>1. /\ queue # <<>> /\ h \in Client /\ srv[h] = "none" /\ cl[h] # "off"
        /\ queue' = t
        /\ srv'[h] \in {"read1", "closed"}
        /\ \A d \in Client : d # h => srv'[d] = srv[d]
        /\ cl' = cl
    BY <1>1, Accepted DEF clientVars
  <2>2. /\ h = queue[1] /\ 1 \in 1..Len(queue) /\ Len(queue) \in Nat
        /\ Len(t) = Len(queue) - 1
        /\ \A x \in 1..Len(t) : t[x] = queue[x + 1] /\ x + 1 \in 2..Len(queue)
    BY <2>1, HeadAndTail DEF TypeOK
  <2> HIDE DEF h, t
  <2>3. \A x, y \in 1..Len(t) : t[x] = t[y] => x = y
    <3> SUFFICES ASSUME NEW x \in 1..Len(t), NEW y \in 1..Len(t), t[x] = t[y]
                 PROVE  x = y
      OBVIOUS
    <3>1. x + 1 \in 1..Len(queue) /\ y + 1 \in 1..Len(queue) /\ queue[x + 1] = queue[y + 1]
      BY <2>2
    <3>2. x + 1 = y + 1
      BY <3>1 DEF QueueOK
    <3> QED
      BY <3>2
  <2>4. \A x \in 1..Len(t) : t[x] # h /\ t[x] \in Client /\ srv[t[x]] = "none" /\ cl[t[x]] # "off"
    <3> SUFFICES ASSUME NEW x \in 1..Len(t)
                 PROVE  t[x] # h /\ t[x] \in Client /\ srv[t[x]] = "none" /\ cl[t[x]] # "off"
      OBVIOUS
    <3>1. x + 1 \in 1..Len(queue) /\ x + 1 # 1 /\ t[x] = queue[x + 1]
      BY <2>2
    <3>2. queue[x + 1] \in Client
      BY <3>1 DEF TypeOK
    <3> QED
      BY <2>2, <3>1, <3>2 DEF QueueOK
  <2>5. ASSUME NEW d \in Client, srv'[d] = "none", cl[d] # "off"
        PROVE  \E x \in 1..Len(t) : t[x] = d
    <3>1. d # h /\ srv[d] = "none"
      BY <2>1, <2>5
    <3>2. PICK x \in 1..Len(queue) : queue[x] = d
      BY <2>5, <3>1 DEF QueueOK
    <3>3. x - 1 \in 1..Len(t) /\ (x - 1) + 1 = x
      BY <2>2, <3>1, <3>2
    <3> QED
      BY <2>2, <3>2, <3>3
  <2> QED
    BY <2>1, <2>3, <2>4, <2>5 DEF QueueOK
<1>2. ASSUME NEW c \in Client, Connect(c) PROVE QueueOK'
  <2>1. /\ cl[c] = "off" /\ cl' = [cl EXCEPT ![c] = "prompt"] /\ srv' = srv
        /\ queue' = Append(queue, c)
    BY <1>2 DEF Connect, serverVars
  <2>2. /\ Len(queue) \in Nat /\ Len(queue') = Len(queue) + 1
        /\ queue'[Len(queue) + 1] = c
        /\ \A x \in 1..Len(queue) : queue'[x] = queue[x]
    <3>1. queue \in Seq(Client)
      BY DEF TypeOK
    <3> QED
      BY <2>1, <3>1, AppendProperties
  <2>3. \A x \in 1..Len(queue) : queue[x] # c /\ queue[x] \in Client
    <3>1. \A x \in 1..Len(queue) : queue[x] \in Client
      BY DEF TypeOK
    <3>2. \A x \in 1..Len(queue) : cl[queue[x]] # "off"
      BY DEF QueueOK
    <3> QED
      BY <2>1, <3>1, <3>2
  <2>4. \A x \in 1..Len(queue') : x \in 1..Len(queue) \/ x = Len(queue) + 1
    BY <2>2
  <2>5. \A x, y \in 1..Len(queue') : queue'[x] = queue'[y] => x = y
    BY <2>2, <2>3, <2>4 DEF QueueOK
  <2>6. cl'[c] = "prompt" /\ \A d \in Client : d # c => cl'[d] = cl[d]
    BY <2>1 DEF TypeOK
  <2>7. srv[c] = "none"
    BY <2>1 DEF OffOK
  <2>8. \A x \in 1..Len(queue') : srv'[queue'[x]] = "none" /\ cl'[queue'[x]] # "off"
    <3> SUFFICES ASSUME NEW x \in 1..Len(queue')
                 PROVE  srv'[queue'[x]] = "none" /\ cl'[queue'[x]] # "off"
      OBVIOUS
    <3>1. CASE x \in 1..Len(queue)
      <4>1. queue'[x] = queue[x] /\ queue[x] \in Client /\ queue[x] # c
        BY <2>2, <2>3, <3>1
      <4> QED
        BY <2>1, <2>6, <3>1, <4>1 DEF QueueOK
    <3>2. CASE x = Len(queue) + 1
      BY <2>1, <2>2, <2>6, <2>7, <3>2
    <3> QED
      BY <2>4, <3>1, <3>2
  <2>9. ASSUME NEW d \in Client, srv'[d] = "none", cl'[d] # "off"
        PROVE  \E x \in 1..Len(queue') : queue'[x] = d
    <3>1. CASE d = c
      BY <2>2, <3>1
    <3>2. CASE d # c
      <4>1. PICK x \in 1..Len(queue) : queue[x] = d
        BY <2>1, <2>6, <2>9, <3>2 DEF QueueOK
      <4> QED
        BY <2>2, <4>1
    <3> QED
      BY <3>1, <3>2
  <2> QED
    BY <2>5, <2>8, <2>9 DEF QueueOK
<1>3. ASSUME NEW c \in Client, Moves(c), ~Connect(c) PROVE QueueOK'
  <2>1. queue' = queue
    BY <1>3 DEF Moves, User, Exit, Interrupt, SendFirst, ClientRuns, SendSecond, ReadAnswer,
         ServerGone, Converse, ReadFirst, ReadFirstEnds, ReadSecond, ReadSecondEnds, Answer
  <2>2. (cl[c] # "off" <=> cl'[c] # "off") /\ (srv'[c] = "none" <=> srv[c] = "none")
    <3>1. CASE User(c)
      BY <1>3, <3>1 DEF User, Exit, Interrupt, SendFirst, serverVars, TypeOK
    <3>2. CASE ClientRuns(c, PauseOver)
      BY <3>2 DEF ClientRuns, SendSecond, ReadAnswer, ServerGone, serverVars, TypeOK
    <3>3. CASE Converse(c)
      BY <3>3 DEF Converse, ReadFirst, ReadFirstEnds, ReadSecond, ReadSecondEnds, Answer,
           clientVars, TypeOK
    <3> QED
      BY <1>3, <3>1, <3>2, <3>3 DEF Moves
  <2>3. \A d \in Client : (cl[d] # "off" <=> cl'[d] # "off") /\ (srv'[d] = "none" <=> srv[d] = "none")
    BY <1>3, <2>2, OthersUnmoved DEF Unmoved
  <2>4. \A x \in 1..Len(queue) : queue[x] \in Client
    BY DEF TypeOK
  <2> QED
    BY <2>1, <2>3, <2>4 DEF QueueOK
<1>4. CASE UNCHANGED vars
  BY <1>4 DEF vars, clientVars, serverVars, QueueOK
<1> QED
  BY <1>1, <1>2, <1>3, <1>4 DEF Next, Moves

-----------------------------------------------------------------------------
(* With the long pause, one string at most is ever under way.              *)
LEMMA SeparateStep ==
    ASSUME IInv, [Next]_vars
    PROVE  SeparateOK'
<1> USE DEF IInv
<1> SUFFICES ASSUME server' = "concurrent", longPause', NEW d \in Client
             PROVE  Len(toServer'[d]) <= 1 /\ Len(str1'[d]) <= 1 /\ Len(str2'[d]) <= 1
  BY DEF SeparateOK
<1>1. setting' = setting
  BY DEF Next, vars, AcceptStep, AcceptAndFork, ForkFails, Accept, User, Connect, Exit,
         Interrupt, SendFirst, ClientRuns, SendSecond, ReadAnswer, ServerGone, Converse,
         ReadFirst, ReadFirstEnds, ReadSecond, ReadSecondEnds, Answer
<1>2. /\ server = "concurrent" /\ longPause
      /\ \A c \in Client : Len(toServer[c]) <= 1 /\ Len(str1[c]) <= 1 /\ Len(str2[c]) <= 1
  BY <1>1 DEF setting, SeparateOK
<1>3. ASSUME toServer' = toServer, str1' = str1, str2' = str2
      PROVE  Len(toServer'[d]) <= 1 /\ Len(str1'[d]) <= 1 /\ Len(str2'[d]) <= 1
  BY <1>2, <1>3
<1>4. CASE AcceptStep \/ UNCHANGED vars
  BY <1>3, <1>4 DEF AcceptStep, AcceptAndFork, ForkFails, Accept, vars, serverVars
<1>5. ASSUME NEW c \in Client, Moves(c)
      PROVE  Len(toServer'[d]) <= 1 /\ Len(str1'[d]) <= 1 /\ Len(str2'[d]) <= 1
  <2>1. CASE d # c
    <3>1. Unmoved(d)
      BY <1>5, <2>1, OthersUnmoved
    <3> QED
      BY <1>2, <3>1 DEF Unmoved
  <2>2. ASSUME NEW v \in Word, NEW w \in Word, SendFirst(c, v, w), d = c
        PROVE  Len(toServer'[d]) <= 1 /\ Len(str1'[d]) <= 1 /\ Len(str2'[d]) <= 1
    <3>1. cl[c] = "prompt" /\ toServer'[c] = Append(toServer[c], v) /\ str1' = str1 /\ str2' = str2
      BY <2>2 DEF SendFirst, serverVars, TypeOK
    <3>2. toServer[c] = <<>>
      BY <3>1 DEF RoundOK, PromptOK, Quiet
    <3> QED
      BY <1>2, <2>2, <3>1, <3>2
  <2>3. ASSUME SendSecond(c, PauseOver), d = c
        PROVE  Len(toServer'[d]) <= 1 /\ Len(str1'[d]) <= 1 /\ Len(str2'[d]) <= 1
    <3>1. /\ cl[c] = "pausing" /\ srv[c] # "closed" /\ str1' = str1 /\ str2' = str2
          /\ toServer'[c] = Append(toServer[c], pair[c][2])
      BY <2>3 DEF SendSecond, serverVars, TypeOK
    <3>2. queue = <<>> /\ NothingToDo(c)
      BY <1>2, <2>3 DEF SendSecond, PauseOver, CanAccept
    <3>3. srv[c] # "none"
      <4> SUFFICES ASSUME srv[c] = "none" PROVE FALSE
        OBVIOUS
      <4>1. \E x \in 1..Len(queue) : queue[x] = c
        BY <3>1 DEF QueueOK
      <4> QED
        BY <3>2, <4>1
    <3>4. Conversing(c)
      BY <3>1, <3>3 DEF Conversing, TypeOK
    <3>5. toServer[c] = <<>>
      BY <3>2, <3>4 DEF NothingToDo
    <3> QED
      BY <1>2, <2>3, <3>1, <3>5
  <2>4. ASSUME ReadFirst(c) \/ ReadSecond(c), d = c
        PROVE  Len(toServer'[d]) <= 1 /\ Len(str1'[d]) <= 1 /\ Len(str2'[d]) <= 1
    <3> DEFINE q == toServer[c]
    <3>1. PICK m \in 1..Len(q) :
             /\ toServer'[c] = SubSeq(q, m + 1, Len(q))
             /\ \/ str1'[c] = SubSeq(q, 1, m) /\ str2' = str2
                \/ str2'[c] = SubSeq(q, 1, m) /\ str1' = str1
      BY <2>4 DEF ReadFirst, ReadSecond, TypeOK
    <3>2. q \in Seq(Word) /\ Len(q) \in Nat /\ Len(q) <= 1
      BY <1>2 DEF TypeOK
    <3> HIDE DEF q
    <3>3. Len(SubSeq(q, 1, m)) = m /\ Len(SubSeq(q, m + 1, Len(q))) = Len(q) - m
      BY <3>2, RunTyped
    <3> QED
      BY <1>2, <2>4, <3>1, <3>2, <3>3
  <2>5. ASSUME ReadSecondEnds(c), d = c
        PROVE  Len(toServer'[d]) <= 1 /\ Len(str1'[d]) <= 1 /\ Len(str2'[d]) <= 1
    <3>1. toServer' = toServer /\ str1' = str1 /\ str2'[c] = <<>>
      BY <2>5 DEF ReadSecondEnds, TypeOK
    <3> QED
      BY <1>2, <2>5, <3>1
  <2>6. ASSUME Connect(c) \/ Exit(c) \/ Interrupt(c) \/ ReadAnswer(c) \/ ServerGone(c)
               \/ ReadFirstEnds(c) \/ Answer(c)
        PROVE  Len(toServer'[d]) <= 1 /\ Len(str1'[d]) <= 1 /\ Len(str2'[d]) <= 1
    BY <1>3, <2>6 DEF Connect, Exit, Interrupt, ReadAnswer, ServerGone, ReadFirstEnds, Answer,
       serverVars
  <2> QED
    BY <1>5, <2>1, <2>2, <2>3, <2>4, <2>5, <2>6 DEF Moves, User, ClientRuns, Converse
<1> QED
  BY <1>4, <1>5 DEF Next, Moves

-----------------------------------------------------------------------------
LEMMA TypeStep ==
    ASSUME IInv, [Next]_vars
    PROVE  TypeOK'
<1> USE DEF IInv
<1>1. CASE AcceptStep
  <2>1. queue # <<>> /\ queue' = Tail(queue)
        /\ UNCHANGED <<clientVars, toServer, toClient, str1, str2, setting>>
    BY <1>1, Accepted
  <2>2. PICK next \in {"read1", "closed"} : srv' = [srv EXCEPT ![Head(queue)] = next]
    BY <1>1 DEF AcceptStep, AcceptAndFork, ForkFails, Accept
  <2>3. queue' \in Seq(Client)
    BY <2>1, HeadAndTail DEF TypeOK
  <2> QED
    BY <2>1, <2>2, <2>3 DEF TypeOK, clientVars, setting
<1>2. ASSUME NEW c \in Client, Connect(c) PROVE TypeOK'
  BY <1>2 DEF Connect, serverVars, setting, TypeOK
<1>3. ASSUME NEW c \in Client, NEW v \in Word, NEW w \in Word, SendFirst(c, v, w)
      PROVE  TypeOK'
  <2>1. rounds' \in [Client -> 0..MaxRounds]
    BY <1>3, MaxRoundsAssumption DEF SendFirst, TypeOK
  <2>2. toServer' \in [Client -> Seq(Word)] /\ pair' \in [Client -> {None} \cup Word \X Word]
    BY <1>3 DEF SendFirst, TypeOK
  <2>3. cl' \in [Client -> {"off", "prompt", "pausing", "waiting", "done"}]
    BY <1>3 DEF SendFirst, TypeOK
  <2> QED
    BY <1>3, <2>1, <2>2, <2>3 DEF SendFirst, serverVars, setting, TypeOK
<1>4. ASSUME NEW c \in Client, SendSecond(c, PauseOver) PROVE TypeOK'
  <2>1. pair[c][2] \in Word
    BY <1>4 DEF SendSecond, RoundOK, PausingOK, PairOK
  <2>2. toServer' \in [Client -> Seq(Word)]
    BY <1>4, <2>1 DEF SendSecond, TypeOK
  <2> QED
    BY <1>4, <2>2 DEF SendSecond, serverVars, setting, TypeOK
<1>5. ASSUME NEW c \in Client, ReadAnswer(c) PROVE TypeOK'
  <2>1. toClient[c] \in Seq(Seq(Word) \X Seq(Word)) /\ toClient[c] # <<>>
    BY <1>5 DEF ReadAnswer, TypeOK
  <2>2. toClient[c][1] \in Seq(Word) \X Seq(Word) /\ Tail(toClient[c]) \in Seq(Seq(Word) \X Seq(Word))
    BY <2>1, HeadAndTail
  <2>3. toClient' \in [Client -> Seq(Seq(Word) \X Seq(Word))]
    BY <1>5, <2>2 DEF ReadAnswer, TypeOK
  <2>4. answer' \in [Client -> {None} \cup Seq(Word) \X Seq(Word)]
    BY <1>5, <2>2 DEF ReadAnswer, TypeOK
  <2> QED
    BY <1>5, <2>3, <2>4 DEF ReadAnswer, serverVars, setting, TypeOK
<1>6. ASSUME NEW c \in Client, ServerGone(c) \/ Exit(c) \/ Interrupt(c) PROVE TypeOK'
  BY <1>6 DEF ServerGone, Exit, Interrupt, serverVars, setting, TypeOK
<1>7. ASSUME NEW c \in Client, ReadFirst(c) \/ ReadSecond(c) PROVE TypeOK'
  <2> DEFINE q == toServer[c]
  <2>1. PICK m \in 1..Len(q) :
           /\ toServer' = [toServer EXCEPT ![c] = SubSeq(q, m + 1, Len(q))]
           /\ \/ str1' = [str1 EXCEPT ![c] = SubSeq(q, 1, m)] /\ str2' = str2
              \/ str2' = [str2 EXCEPT ![c] = SubSeq(q, 1, m)] /\ str1' = str1
    BY <1>7 DEF ReadFirst, ReadSecond
  <2>2. q \in Seq(Word)
    BY DEF TypeOK
  <2> HIDE DEF q
  <2>3. SubSeq(q, 1, m) \in Seq(Word) /\ SubSeq(q, m + 1, Len(q)) \in Seq(Word)
    BY <2>2, RunTyped
  <2>4. toServer' \in [Client -> Seq(Word)]
    BY <2>1, <2>3 DEF TypeOK
  <2>6. str1' \in [Client -> Seq(Word)] /\ str2' \in [Client -> Seq(Word)]
    <3>1. CASE str1' = [str1 EXCEPT ![c] = SubSeq(q, 1, m)] /\ str2' = str2
      BY <2>3, <3>1 DEF TypeOK
    <3>2. CASE str2' = [str2 EXCEPT ![c] = SubSeq(q, 1, m)] /\ str1' = str1
      BY <2>3, <3>2 DEF TypeOK
    <3> QED
      BY <2>1, <3>1, <3>2
  <2>5. srv' \in [Client -> {"none", "read1", "read2", "answer", "closed"}]
    <3>1. PICK x \in {"read2", "answer"} : srv' = [srv EXCEPT ![c] = x]
      BY <1>7 DEF ReadFirst, ReadSecond
    <3> QED
      BY <3>1 DEF TypeOK
  <2> QED
    <3>1. UNCHANGED <<clientVars, toClient, queue, setting>>
      BY <1>7 DEF ReadFirst, ReadSecond
    <3> QED
      BY <3>1, <2>4, <2>5, <2>6 DEF clientVars, setting, TypeOK
<1>8. ASSUME NEW c \in Client, ReadFirstEnds(c) \/ ReadSecondEnds(c) PROVE TypeOK'
  BY <1>8 DEF ReadFirstEnds, ReadSecondEnds, clientVars, setting, TypeOK
<1>9. ASSUME NEW c \in Client, Answer(c) PROVE TypeOK'
  <2>1. <<str1[c], str2[c]>> \in Seq(Word) \X Seq(Word)
    BY DEF TypeOK
  <2>2. toClient' \in [Client -> Seq(Seq(Word) \X Seq(Word))]
    BY <1>9, <2>1 DEF Answer, TypeOK
  <2> QED
    BY <1>9, <2>2 DEF Answer, clientVars, setting, TypeOK
<1>10. CASE UNCHANGED vars
  BY <1>10 DEF vars, clientVars, serverVars, setting, TypeOK
<1> QED
  BY <1>1, <1>2, <1>3, <1>4, <1>5, <1>6, <1>7, <1>8, <1>9, <1>10
     DEF Next, User, ClientRuns, Converse

-----------------------------------------------------------------------------
LEMMA InvInit == Init => IInv
<1> SUFFICES ASSUME Init PROVE IInv
  OBVIOUS
<1>1. TypeOK
  BY MaxRoundsAssumption DEF Init, TypeOK
<1>2. QueueOK
  BY DEF Init, QueueOK
<1>3. ASSUME NEW c \in Client PROVE RoundOK(c)
  <2>1. /\ cl[c] = "off" /\ srv[c] = "none" /\ rounds[c] = 0
        /\ toServer[c] = <<>> /\ toClient[c] = <<>>
    BY DEF Init
  <2> QED
    BY <2>1 DEF RoundOK, OffOK, PromptOK, PausingOK, WaitingOK, Quiet
<1>4. SeparateOK
  <2> SUFFICES ASSUME NEW c \in Client
               PROVE  Len(toServer[c]) <= 1 /\ Len(str1[c]) <= 1 /\ Len(str2[c]) <= 1
    BY DEF SeparateOK
  <2>1. toServer[c] = <<>> /\ str1[c] = <<>> /\ str2[c] = <<>>
    BY DEF Init
  <2>2. Len(<<>>) <= 1
    OBVIOUS
  <2> QED
    BY <2>1, <2>2
<1> QED
  BY <1>1, <1>2, <1>3, <1>4 DEF IInv

(* In every state of every behaviour, what is under way and what the       *)
(* server has read belong to the round their client is in.                 *)
THEOREM Invariant == Spec => []IInv
<1>1. IInv /\ [Next]_vars => IInv'
  <2> SUFFICES ASSUME IInv, [Next]_vars PROVE IInv'
    OBVIOUS
  <2>1. \A d \in Client : RoundOK(d)'
    BY RoundStep DEF IInv
  <2>2. QueueOK'
    BY QueueStep DEF IInv, RoundOK
  <2> QED
    BY <2>1, <2>2, TypeStep, SeparateStep DEF IInv
<1> QED
  BY <1>1, InvInit, PTL DEF Spec

(* The answer client.c reads and prints is about exactly the two strings   *)
(* of the round, whichever server runs and however the sends run together; *)
(* the pause, when it is long enough, separates the reads of the           *)
(* concurrent server.                                                      *)
THEOREM ConversationAlwaysSafe == Spec => []ConversationSafe
<1>1. IInv => ConversationSafe
  BY DEF IInv, ConversationSafe, AnswersMatch, ReadsSeparate, OneStringPerRead, RoundOK,
         PromptOK, SeparateOK
<1> QED
  BY <1>1, Invariant, PTL

=============================================================================
