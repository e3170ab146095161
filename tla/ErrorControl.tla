---------------------------- MODULE ErrorControl ----------------------------
(***************************************************************************)
(* One run of a program of Lab06: the sender encodes the data, the channel *)
(* (in the programs, the user) flips bits, and the receiver judges what    *)
(* arrives.  Which program runs is chosen at the start.                    *)
(***************************************************************************)
EXTENDS ErrorCodes

CONSTANTS MaxParityData,   \* bound on the data bits of the parity programs
          MaxCrcData,      \* bound on those of the CRC programs
          MaxHammingData   \* bound on those of the Hamming programs

VARIABLES program,    \* "parity", "crc" or "hamming"
          option,     \* the number the user chooses: parity type or polynomial
          data,       \* the data bits
          place,      \* "sender", "channel", "receiver" or "done"
          frame,      \* what the sender transmits
          flips,      \* the bits the channel flips
          received,   \* what the receiver gets
          judged,     \* "none", "accepted" or "rejected"
          errorPos,   \* error_pos of the Hamming receiver
          corrected   \* the code word after its correction

controlVars == <<program, option, data, place, frame, flips, received, judged,
                 errorPos, corrected>>

DataUpTo(max) == UNION {[1..m -> Bit] : m \in 1..max}

Idle ==
    /\ place = "sender"
    /\ frame = <<>> /\ flips = {} /\ received = <<>>
    /\ judged = "none" /\ errorPos = 0 /\ corrected = <<>>

ControlInit ==
    /\ \/ program = "parity"  /\ option \in 1..2 /\ data \in DataUpTo(MaxParityData)
       \/ program = "crc"     /\ option \in 1..3 /\ data \in DataUpTo(MaxCrcData)
       \/ program = "hamming" /\ option = 0      /\ data \in DataUpTo(MaxHammingData)
    /\ Idle

(* No program: the other algorithms of the instance run instead. *)
NotRun == program = "none" /\ option = 0 /\ data = <<>> /\ Idle

Generator ==
    CASE option = 1 -> POLY_CRC12
      [] option = 2 -> POLY_CRC16
      [] option = 3 -> POLY_CCITT

-----------------------------------------------------------------------------
Transmit(p, f) ==
    /\ program = p /\ place = "sender"
    /\ frame' = f
    /\ place' = "channel"
    /\ UNCHANGED <<program, option, data, flips, received, judged, errorPos, corrected>>

SendParity  == Transmit("parity", Append(data, ParityBit(data, option)))
SendCrc     == Transmit("crc", CrcFrame(data, Generator))
SendHamming == Transmit("hamming", HammingFrame(data))

(* Any two bits, and any run of bits. *)
FlipsOf(f) ==
    {{}} \cup {{j, k} : j, k \in DOMAIN f} \cup {j..k : j, k \in DOMAIN f}

Channel ==
    /\ place = "channel"
    /\ \E S \in FlipsOf(frame) :
          /\ flips' = S
          /\ received' = [j \in DOMAIN frame |->
                             IF j \in S THEN 1 - frame[j] ELSE frame[j]]
    /\ place' = "receiver"
    /\ UNCHANGED <<program, option, data, frame, judged, errorPos, corrected>>

Judge(p, accepts) ==
    /\ program = p /\ place = "receiver"
    /\ judged' = IF accepts THEN "accepted" ELSE "rejected"
    /\ place' = "done"
    /\ UNCHANGED <<program, option, data, frame, flips, received>>

ReceiveParity ==
    /\ Judge("parity", ParityAccepts(received, option))
    /\ UNCHANGED <<errorPos, corrected>>

ReceiveCrc ==
    /\ Judge("crc", CrcAccepts(received, Generator))
    /\ UNCHANGED <<errorPos, corrected>>

ReceiveHamming ==
    LET pos == ErrorPosition(received, ServerBits(Len(received)))
    IN /\ Judge("hamming", pos = 0)
       /\ errorPos' = pos
       /\ corrected' = IF pos = 0 THEN received ELSE Correct(received, pos)

ControlNext ==
    \/ SendParity \/ SendCrc \/ SendHamming
    \/ Channel
    \/ ReceiveParity \/ ReceiveCrc \/ ReceiveHamming

ControlSpec == ControlInit /\ [][ControlNext]_controlVars

-----------------------------------------------------------------------------
(* Parity: a frame is accepted exactly when an even number of its bits was *)
(* flipped, so that every single error is noticed.                         *)
ParityNoticesOdd ==
    program = "parity" /\ place = "done" =>
        (judged = "accepted" <=> Cardinality(flips) % 2 = 0)

(* CRC: an intact frame is accepted; one with one or two flipped bits, an  *)
(* odd number of them, or a burst no longer than the checksum is rejected. *)
Span(S) == CHOOSE n \in 1..Len(frame) :
               /\ \E j, k \in S : n = k - j + 1
               /\ \A j, k \in S : k - j + 1 <= n

CrcNoticesErrors ==
    program = "crc" /\ place = "done" =>
        /\ flips = {} => judged = "accepted"
        /\ flips # {} /\ (Cardinality(flips) <= 2 \/ Cardinality(flips) % 2 = 1
                          \/ Span(flips) < Len(Generator)) => judged = "rejected"

(* The number of redundancy bits the server works out from the length of a *)
(* code word is the one the client built the word with.                    *)
ReceiverAgreesOnBits == ServerBits(Len(received)) = RedundancyBits(Len(data))

(* Hamming: the receiver counts the redundancy bits as the sender did,     *)
(* finds and repairs any one flipped bit, leaves an intact word alone, and *)
(* never takes a word with two flipped bits for one without error.         *)
HammingCorrectsOne ==
    program = "hamming" =>
        /\ place = "receiver" => ReceiverAgreesOnBits
        /\ place = "done" =>
              /\ Cardinality(flips) <= 1 => corrected = frame
              /\ \A j \in 1..Len(frame) : flips = {j} => errorPos = j
              /\ Cardinality(flips) = 2 => judged = "rejected"
=============================================================================
