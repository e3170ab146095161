----------------------------- MODULE ErrorCodes -----------------------------
(***************************************************************************)
(* The error-detecting and error-correcting codes of Lab06, as functions   *)
(* of sequences of bits.  The TCP programs of quo1, quo2 and quo3 repeat   *)
(* the code of the local ones, to which the definitions are mapped.        *)
(***************************************************************************)
EXTENDS Integers, FiniteSets, Sequences

Bit == {0, 1}

(* Parity.  Choice 1 is even parity, any other number odd parity. *)
count_ones(data) == Cardinality({k \in DOMAIN data : data[k] = 1})

ParityBitSwapped(data, choice) ==     \* the two branches exchanged
    IF choice = 1 THEN (count_ones(data) + 1) % 2 ELSE count_ones(data) % 2

ParityBit(data, choice) ==
    IF choice = 1 THEN count_ones(data) % 2 ELSE (count_ones(data) + 1) % 2

ParityAccepts(frame, choice) ==
    IF choice = 1 THEN count_ones(frame) % 2 = 0 ELSE count_ones(frame) % 2 # 0

-----------------------------------------------------------------------------
(* CRC.  Remainder(t, gen) divides t by gen over GF(2), with the code's    *)
(* sliding window: current holds Len(gen) bits, i is the place of the next *)
(* bit of t, and one more round after the last bit does the last division. *)
POLY_CRC12 == <<1,1,0,0,0,0,0,0,0,1,1,1,1>>
POLY_CRC16 == <<1,1,0,0,0,0,0,0,0,0,0,0,0,0,1,0,1>>
POLY_CCITT == <<1,0,0,0,1,0,0,0,0,0,0,1,0,0,0,0,1>>

Zeros(k) == [j \in 1..k |-> 0]
FirstBits(t, k) == SubSeq(t, 1, IF k <= Len(t) THEN k ELSE Len(t))

xor_operation(dividend, divisor) ==
    [j \in DOMAIN divisor |-> (dividend[j] + divisor[j]) % 2]

Round(current, gen, t, i) ==
    LET divided == IF current[1] = 1 THEN xor_operation(current, gen) ELSE current
    IN [j \in DOMAIN gen |-> IF j < Len(gen) THEN divided[j + 1]
                             ELSE IF i <= Len(t) THEN t[i] ELSE divided[j]]

crc_stopping_early(t, gen) ==     \* i < strlen(temp) for i <= strlen(temp)
    LET window[current \in Seq(Bit), i \in Nat] ==
            IF i > Len(t) THEN current
            ELSE window[Round(current, gen, t, i), i + 1]
    IN FirstBits(window[FirstBits(t, Len(gen)), Len(gen) + 1], Len(gen) - 1)

crc_computation(t, gen) ==
    LET window[current \in Seq(Bit), i \in Nat] ==
            IF i > Len(t) + 1 THEN current
            ELSE window[Round(current, gen, t, i), i + 1]
    IN FirstBits(window[FirstBits(t, Len(gen)), Len(gen) + 1], Len(gen) - 1)

CrcFrame(data, gen) ==
    data \o crc_computation(data \o Zeros(Len(gen) - 1), gen)

CrcAccepts(frame, gen) ==
    LET remainder == crc_computation(frame, gen)
    IN \A k \in DOMAIN remainder : remainder[k] # 1

-----------------------------------------------------------------------------
(* Hamming code, even parity, positions from 1.  TwoTo[q] is pow(2, q). *)
TwoTo[q \in Nat] == IF q = 0 THEN 1 ELSE 2 * TwoTo[q - 1]

IsPower(j, r) == \E q \in 0..(r - 1) : j = TwoTo[q]
Covers(q, j)  == (j \div TwoTo[q]) % 2 = 1

RedundancyBits(m) ==
    CHOOSE r \in 0..(m + 1) :
        TwoTo[r] >= m + r + 1 /\ \A q \in 0..(r - 1) : TwoTo[q] < m + q + 1

ServerBitsLate(len) ==      \* while ((1 << r_calc) <= total_len + 1)
    CHOOSE r \in 0..(len + 1) : TwoTo[r] > len + 1 /\ \A q \in 0..(r - 1) : TwoTo[q] <= len + 1

(* What the server, which is only told the length, takes for it. *)
ServerBits(len) ==
    CHOOSE r \in 0..len : TwoTo[r] > len /\ \A q \in 0..(r - 1) : TwoTo[q] <= len

Placed(data, r) ==
    [j \in 1..(Len(data) + r) |->
        IF IsPower(j, r) THEN 0
        ELSE data[j - Cardinality({p \in 1..j : IsPower(p, r)})]]

ParityOver(code, q) ==
    Cardinality({j \in TwoTo[q]..Len(code) : Covers(q, j) /\ code[j] = 1}) % 2

(* The code fills the parity bits in one after the other, in place; none   *)
(* of them is covered by another, so filling them all at once is the same. *)
HammingFrame(data) ==
    LET r      == RedundancyBits(Len(data))
        placed == Placed(data, r)
    IN [j \in DOMAIN placed |->
           IF IsPower(j, r)
           THEN ParityOver(placed, CHOOSE q \in 0..(r - 1) : j = TwoTo[q])
           ELSE placed[j]]

ErrorPosition(code, r) ==
    LET sum[q \in 0..r] ==
            IF q = 0 THEN 0 ELSE sum[q - 1] + ParityOver(code, q - 1) * TwoTo[q - 1]
    IN sum[r]

Flip(code, pos) == [code EXCEPT ![pos] = IF @ = 0 THEN 1 ELSE 0]

(* A position beyond the code word names no bit that is shown or sent. *)
FlipBeyond(code, pos) == IF pos < Len(code) THEN Flip(code, pos) ELSE code
Correct(code, pos)    == IF pos <= Len(code) THEN Flip(code, pos) ELSE code
=============================================================================
