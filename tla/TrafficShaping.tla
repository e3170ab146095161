--------------------------- MODULE TrafficShaping ---------------------------
(***************************************************************************)
(* The two simulations of Lab07.  The leaky bucket of quo1 decides for     *)
(* each packet of a list of arrival times whether it conforms; the token   *)
(* bucket of quo2 sends a packet every interval until the tokens run out.  *)
(***************************************************************************)
EXTENDS Integers, Sequences

CONSTANTS arrival_times,        \* of the packets, in order
          packet_size, bucket_size, outgoing_rate,
          max_bucket_size, tokens_per_interval, token_packet_size

ASSUME ArrivalAssumption ==
    /\ arrival_times \in Seq(Nat)
    /\ \A j, k \in DOMAIN arrival_times : j <= k => arrival_times[j] <= arrival_times[k]
ASSUME LeakyAssumption ==
    packet_size \in Nat /\ bucket_size \in Nat /\ outgoing_rate \in Nat
ASSUME TokenAssumption ==
    max_bucket_size \in Nat /\ tokens_per_interval \in Nat /\ token_packet_size \in Nat

VARIABLES packet,          \* the next packet to arrive, 0 when quo1 does not run
          bucket_content, last_time,
          since            \* history: bytes accepted since the arrival of each packet
VARIABLES tokens_before, tokens,
          status           \* "off", "Sent" or "QUEUED"

leaky == <<packet, bucket_content, last_time, since>>
token == <<tokens_before, tokens, status>>

Packets == DOMAIN arrival_times

LeakyInit ==
    /\ packet = 1
    /\ bucket_content = 0
    /\ last_time = 0
    /\ since = [j \in Packets |-> 0]

TokenInit ==
    /\ tokens = max_bucket_size
    /\ tokens_before = max_bucket_size
    /\ status = "Sent"

LeakyOff == packet = 0 /\ bucket_content = 0 /\ last_time = 0 /\ since = <<>>
TokenOff == tokens = 0 /\ tokens_before = 0 /\ status = "off"

-----------------------------------------------------------------------------
NotBelowZero(k) == IF k < 0 THEN 0 ELSE k

Arriving == packet \in Packets
Leaked == NotBelowZero(
              bucket_content - (arrival_times[packet] - last_time) * outgoing_rate)

FitsBefore == Leaked <= bucket_size     \* the packet's own size left out
Fits == Leaked + packet_size <= bucket_size

ClockForgotten ==       \* last_time not updated
    /\ packet' = packet + 1
    /\ UNCHANGED last_time

NextPacket ==
    /\ packet' = packet + 1
    /\ last_time' = arrival_times[packet]

Conforming ==
    /\ Arriving /\ Fits
    /\ bucket_content' = Leaked + packet_size
    /\ since' = [j \in Packets |-> IF j <= packet THEN since[j] + packet_size
                                                  ELSE since[j]]
    /\ NextPacket

Nonconforming ==
    /\ Arriving /\ ~Fits
    /\ bucket_content' = Leaked
    /\ NextPacket
    /\ UNCHANGED since

LeakyNext == Conforming \/ Nonconforming
LeakySpec == LeakyInit /\ [][LeakyNext]_leaky

-----------------------------------------------------------------------------
CapForgotten == tokens + tokens_per_interval

Refilled ==
    IF tokens + tokens_per_interval > max_bucket_size
    THEN max_bucket_size ELSE tokens + tokens_per_interval

SendPacket ==
    /\ status = "Sent" /\ Refilled >= token_packet_size
    /\ tokens_before' = Refilled
    /\ tokens' = Refilled - token_packet_size
    /\ UNCHANGED status

Queue ==
    /\ status = "Sent" /\ Refilled < token_packet_size
    /\ tokens_before' = Refilled
    /\ status' = "QUEUED"
    /\ UNCHANGED tokens

TokenNext == SendPacket \/ Queue
TokenSpec == TokenInit /\ [][TokenNext]_token

-----------------------------------------------------------------------------
(* The bucket never holds more than its size, nor less than nothing, and   *)
(* no more tokens are ever available than the token bucket holds.          *)
BucketWithinSize == bucket_content \in 0..bucket_size
TokensWithinSize == tokens \in 0..max_bucket_size /\ tokens_before \in 0..max_bucket_size

(* What a leaky bucket is for: from the arrival of any packet on, no more  *)
(* is accepted than the bucket holds and than has leaked out in the        *)
(* meantime.                                                               *)
OutputBounded ==
    \A j \in Packets : j < packet =>
        since[j] <= bucket_size + outgoing_rate * (last_time - arrival_times[j])
=============================================================================
