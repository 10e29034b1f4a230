-------------------------------- MODULE Framing --------------------------------
(***************************************************************************)
(* The sizes a chat text goes through, from the line typed in one CLI to   *)
(* the line shown by the other (client/main.c, daemon/main.c), and the six *)
(* byte header of the packet in between (common/protocole.c).  A text is   *)
(* its length; a packet is its header, byte by byte, and its size.         *)
(*                                                                         *)
(* A packet may also come from elsewhere: any header, any size.            *)
(***************************************************************************)
EXTENDS Naturals, Sequences

CONSTANTS
    Lengths,    \* lengths of the typed lines: fgets reads 1 to 4095
    Names,      \* lengths of the sender's name
    Bytes,      \* bytes of a foreign header; above 127, the length is too
                \* large as well, and TLC's integers have 32 bits
    Sizes       \* sizes of a foreign packet

HeaderSize == 6            \* CHAT_PACKET_HEADER_SIZE
MaxMessage == 65536        \* CHAT_MAX_MESSAGE_SIZE
PacketMax == 4096          \* CHATD_ICE_PACKET_MAX, CHAT_ICE_RECV_MAX
IpcMax == 4096             \* CHAT_IPC_MAX_COMMAND, CHAT_IPC_MAX_RESPONSE
ABytes == 17               \* CHAT_CRYPTO_STREAM_ABYTES
TextMax == IpcMax - 15     \* CHATD_CHAT_TEXT_MAX
Handshake == 1
StreamHeader == 2
Message == 3
Close == 4
PacketTypes == 1 .. 6

VARIABLES
    stage,      \* how far the text or the packet has come
    text,       \* length of the typed line; 0 for a foreign packet
    name,       \* length of the sender's name
    packet      \* the packet on its way

vars == <<stage, text, name, packet>>

Byte(n) == n % 256

(* chat_write_u32_be, chat_read_u32_be *)
WriteU32(n) ==
    <<Byte(n \div 16777216), Byte(n \div 65536), Byte(n \div 256), Byte(n)>>
ReadU32(b) == b[1] * 16777216 + b[2] * 65536 + b[3] * 256 + b[4]

NoPacket == [header |-> <<>>, size |-> 0]

(* chat_packet_encode_header, of a type and a length that send_ice_packet  *)
(* and its callers have checked.                                           *)
EncodeHeader(type, length) == <<1, type>> \o WriteU32(length)

-----------------------------------------------------------------------------
(* fgets, then send_cli_chat_message. *)
Typed ==
    /\ stage = "typed"
    /\ stage' = IF 13 + text + 1 >= IpcMax THEN "too_long" ELSE "command"
    /\ UNCHANGED <<text, name, packet>>

(* service_active_chat_client, chat_text_is_valid,                         *)
(* send_encrypted_chat_payload, send_ice_packet and chat_ice_send.         *)
Sendable(length) ==
    /\ length > 0 /\ length <= TextMax
    /\ HeaderSize + (length + ABytes) <= PacketMax

SendsMessage ==
    /\ stage = "command"
    /\ IF Sendable(text)
       THEN /\ stage' = "sent"
            /\ packet' = [header |-> EncodeHeader(Message, text + ABytes),
                          size |-> HeaderSize + text + ABytes]
       ELSE /\ stage' = "send_failed"
            /\ UNCHANGED packet
    /\ UNCHANGED <<text, name>>

(* on_recv: a packet that does not fit fails the session. *)
Fits_Less(size) == size < PacketMax
Fits(size) == size <= PacketMax
Received ==
    /\ stage \in {"sent", "foreign"}
    /\ stage' = IF Fits(packet.size) THEN "received" ELSE "failed"
    /\ UNCHANGED <<text, name, packet>>

(* chat_packet_decode_header and the test of handle_ice_app_packet that    *)
(* follows it.                                                             *)
WellFormed(p) ==
    /\ p.size >= HeaderSize
    /\ p.header[1] = 1
    /\ p.header[2] \in PacketTypes
DecodesHeader(p) ==
    LET length == ReadU32(SubSeq(p.header, 3, 6)) IN
    /\ WellFormed(p)
    /\ length <= MaxMessage
    /\ p.size > HeaderSize => p.size >= HeaderSize + length

Whole_HeaderOnly(p) == TRUE
Whole(p) == p.size = HeaderSize + ReadU32(SubSeq(p.header, 3, 6))

(* What the type asks of the length. *)
LengthOfType(type, length) ==
    CASE type = Handshake -> length = 96
      [] type = StreamHeader -> length = 24
      [] type \in {Message, Close} -> length >= ABytes
      [] OTHER -> FALSE

(* write_chat_message_to_cli, for a message. *)
Shown(length) == length + (8 + name + 1) + 2 <= IpcMax

Accepts(p) ==
    LET length == ReadU32(SubSeq(p.header, 3, 6)) IN
    DecodesHeader(p) /\ Whole(p) /\ LengthOfType(p.header[2], length)

HandlePacket ==
    /\ stage = "received"
    /\ stage' = IF ~Accepts(packet) THEN "failed"
                ELSE IF text = 0 THEN "accepted"
                ELSE IF Shown(ReadU32(SubSeq(packet.header, 3, 6)) - ABytes)
                THEN "shown" ELSE "failed"
    /\ UNCHANGED <<text, name, packet>>

Init ==
    \/ /\ stage = "typed" /\ text \in Lengths /\ name \in Names
       /\ packet = NoPacket
    \/ /\ stage = "foreign" /\ text = 0 /\ name = 3
       /\ packet \in [header : [1 .. HeaderSize -> Bytes], size : Sizes]

Next == Typed \/ SendsMessage \/ Received \/ HandlePacket

Spec == Init /\ [][Next]_vars

-----------------------------------------------------------------------------
(* A text that fits every limit on its way (the command line, the packet,  *)
(* the MESSAGE line) is shown by the receiver, to the last byte of each.   *)
FittingIsShown ==
    /\ text > 0 /\ text <= TextMax
    /\ text + ABytes + HeaderSize <= PacketMax
    /\ text + name + 11 <= IpcMax
    => stage \notin {"too_long", "send_failed", "failed"}

(* chat_packet_decode_header and handle_ice_app_packet: a packet that is   *)
(* handled has the payload its header announces, and nothing after it, so  *)
(* no handler reads beyond what was received.                              *)
HandledIsWhole ==
    stage \in {"accepted", "shown"} =>
        packet.size - HeaderSize = ReadU32(SubSeq(packet.header, 3, 6))
================================================================================
