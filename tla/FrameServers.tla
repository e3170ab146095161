----------------------------- MODULE FrameServers -----------------------------
(***************************************************************************)
(* The TCP programs of Lab06: the client sends what the check needs to     *)
(* know and then a frame, the iterative server answers with its verdict.   *)
(* A field is a pair of its name and its value.                            *)
(***************************************************************************)
EXTENDS Sockets, ErrorCodes

(* quo2 and quo3: everything is typed before anything is sent.             *)
FrameClient(x, frames, one) ==
    \/ Connect(x, "connect", "type", "done")
    \/ Type(x, "type", Inputs(x, frames, one), "send")
    \/ SendFields(x, "send", "verdict")
    \/ RecvPrint(x, "verdict", 1, "close", "close")
    \/ Exit(x, "close")

-----------------------------------------------------------------------------
(* quo1.  The parity type is sent before the user types the frame to send, *)
(* whatever the program has worked out.                                    *)
ParityChoices == {<<"parity_choice", 1>>, <<"parity_choice", 2>>}
ParityFrames == {<<"frame", <<1, 1>>>>, <<"frame", <<1, 0>>>>}
ParityClient(x) ==
    \/ Connect(x, "connect", "choose", "done")
    \/ Type(x, "choose", Inputs(x, ParityChoices, <<"parity_choice", 1>>), "send_choice")
    \/ Send(x, "send_choice", <<var[x]>>, "type")
    \/ Type(x, "type", Inputs(x, ParityFrames, <<"frame", <<1, 0>>>>), "send")
    \/ Send(x, "send", <<var[x]>>, "verdict")
    \/ RecvPrint(x, "verdict", 1, "close", "close")
    \/ Exit(x, "close")

ParityVerdict(r) ==
    IF ParityAccepts(r[2][2], r[1][2]) THEN "ACCEPTED" ELSE "ERROR DETECTED"

ParityServer(x) ==
    \/ Accept(x, "accept", "parity_choice")
    \/ Field(x, "parity_choice", <<>>, "frame", "close")
    \/ Field(x, "frame", var[x], "verify", "close")
    \/ Send(x, "verify", <<ParityVerdict(var[x])>>, "close")
    \/ Close(x, "close", "accept")

-----------------------------------------------------------------------------
(* quo2.  Generator and frame are texts, told apart by the pause between   *)
(* the two sends.  As no pause lasts longer than the server may be kept    *)
(* busy by another client, the model knows none: the first recv returns    *)
(* the generator, or both.  In the second case the server waits for a      *)
(* frame that has come already, and the client for its verdict.            *)
CrcFrameTyped(gen, frame) == <<<<"generator", gen>>, <<"frame", frame>>>>
Intact(gen) == CrcFrame(<<1, 0>>, gen)
CrcClient(x) ==
    FrameClient(x, {CrcFrameTyped(POLY_CRC16, Intact(POLY_CRC16)),
                    CrcFrameTyped(POLY_CRC16, Intact(POLY_CCITT))},
                CrcFrameTyped(POLY_CRC12, Flip(Intact(POLY_CRC12), 1)))

CrcVerdict(r) == IF CrcAccepts(r[2][2], r[1][2]) THEN "ACCEPTED" ELSE "REJECTED"

(* A fault: the generator is kept from one client to the next.             *)
CrcServerKeeps(x) ==
    \/ Accept(x, "accept", "generator")
    \/ Recv(x, "generator", 2, "keep", "close")
    \/ Assign(x, "keep", IF var[x] = <<>> THEN buf[x] ELSE var[x], "frame")
    \/ Recv(x, "frame", 1, "verify", "unframed")
    \/ Send(x, "verify", <<CrcVerdict(var[x] \o buf[x])>>, "close")
    \/ \E v \in {"ACCEPTED", "REJECTED"} : Send(x, "unframed", <<v>>, "close")
    \/ Close(x, "close", "accept")

(* The result of the second recv is not looked at: if no frame comes the   *)
(* verdict is about an empty one, but then its client has gone.            *)
CrcServer(x) ==
    \/ Accept(x, "accept", "generator")
    \/ Recv(x, "generator", 2, "keep", "close")
    \/ Assign(x, "keep", buf[x], "frame")
    \/ Recv(x, "frame", 1, "verify", "unframed")
    \/ Send(x, "verify", <<CrcVerdict(var[x] \o buf[x])>>, "close")
    \/ \E v \in {"ACCEPTED", "REJECTED"} : Send(x, "unframed", <<v>>, "close")
    \/ Close(x, "close", "accept")

Merged == system = "crc" /\ pc["server"] = "frame" /\ Len(var["server"]) = 2

-----------------------------------------------------------------------------
(* quo3.                                                                   *)
HammingTyped(code) == <<<<"total_len", Len(code)>>, <<"code", code>>>>
HammingClient(x) ==
    FrameClient(x, {HammingTyped(HammingFrame(<<1>>)),
                    HammingTyped(Flip(HammingFrame(<<1, 0>>), 3))},
                HammingTyped(Flip(HammingFrame(<<1>>), 1)))

HammingVerdict(r) ==
    LET code == r[2][2]
        error_pos == ErrorPosition(code, ServerBits(r[1][2]))
    IN IF error_pos = 0 THEN <<0>> ELSE <<error_pos, Correct(code, error_pos)>>

HammingServer(x) ==
    \/ Accept(x, "accept", "total_len")
    \/ Field(x, "total_len", <<>>, "code", "close")
    \/ Field(x, "code", var[x], "verify", "close")
    \/ Send(x, "verify", <<HammingVerdict(var[x])>>, "close")
    \/ Close(x, "close", "accept")
=============================================================================
