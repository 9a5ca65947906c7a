------------------------------- MODULE Codec -------------------------------
(***************************************************************************)
(* The wire codec of message/src/lib.rs (Message::to_bytes and            *)
(* Message::from_bytes) and its one caller on the receiving side, the     *)
(* dispatcher of run_main_loop, which unwraps the result of from_bytes.    *)
(* A frame is a sequence of bytes; to_bytes and from_bytes are operators   *)
(* that do what the code does byte by byte (u32 fields little-endian, the  *)
(* signature list walked by a recursive operator).  Rust slicing out of    *)
(* range, and indexing an empty frame, panic: from_bytes has three         *)
(* outcomes, Ok(message), Err (unknown tag) and Panic.                     *)
(*                                                                         *)
(* The state machine is one connection: a correct peer encodes a message,  *)
(* or a faulty peer puts a raw frame on the wire, and the dispatcher        *)
(* decodes it.  The transport delivers whole frames in FIFO order, so one   *)
(* frame in flight is enough to exercise the codec.                         *)
(***************************************************************************)
EXTENDS Naturals, Sequences, SequencesExt

CONSTANTS SIGN_LEN,   \* the signature length the decoder assumes (64)
          Ids,        \* u32 values used for sender, signer and originator
          Rounds,     \* u32 values used for round numbers
          Keys,       \* public keys a SYN may carry
          Payloads,   \* payloads of SEND and SUP
          Sigs,       \* signatures, each SIGN_LEN bytes
          MaxSigns,   \* longest signature list of a FIN or SUP
          RawFrames   \* frames a faulty peer may send

SYN_MSG == 0
SEND_MSG == 1
ECHO_MSG == 2
FIN_MSG == 3
SUP_MSG == 4

Byte == 0..255

(* Mutant: a u32 written most significant byte first (put_u32) *)
LE32BigEndian(x) == [k \in 1..4 |-> (x \div 256^(4-k)) % 256]

(* buf.put_u32_le(x) *)
LE32(x) == [k \in 1..4 |-> (x \div 256^(k-1)) % 256]

(* bincode::deserialize::<u32> of four bytes: little-endian, fixed width *)
FromLE32(b) == b[1] + 256 * b[2] + 65536 * b[3] + 16777216 * b[4]

(* bytes[lo..hi] and bytes[lo..] with Rust's 0-based, half-open indices *)
Slice(b, lo, hi) == SubSeq(b, lo + 1, hi)
Rest(b, lo) == SubSeq(b, lo + 1, Len(b))
U32At(b, lo) == FromLE32(Slice(b, lo, lo + 4))

(* The signature list of FIN and SUP: node_id then the raw signature *)
EncodeSigns(signs) ==
    FlattenSeq([k \in 1..Len(signs) |-> LE32(signs[k][1]) \o signs[k][2]])

(* Message::to_bytes *)
to_bytes(m) ==
    CASE m.kind = "Syn"  -> <<SYN_MSG>> \o LE32(m.sender) \o m.pub_key
      [] m.kind = "Send" -> <<SEND_MSG>> \o LE32(m.sender) \o LE32(m.rn)
                               \o m.payload
      [] m.kind = "Echo" -> <<ECHO_MSG>> \o LE32(m.sender) \o LE32(m.rn)
                               \o m.sign
      [] m.kind = "Fin"  -> <<FIN_MSG>> \o LE32(m.sender) \o LE32(m.rn)
                               \o LE32(m.sign_cnt) \o EncodeSigns(m.signs)
      [] m.kind = "Sup"  -> <<SUP_MSG>> \o LE32(m.sender) \o LE32(m.rn)
                               \o LE32(m.sign_cnt) \o EncodeSigns(m.signs)
                               \o LE32(m.originator) \o m.payload

NoMsg == [kind |-> "None"]
Ok(m) == [status |-> "Ok", msg |-> m]
Err == [status |-> "Err", msg |-> NoMsg]
Panic == [status |-> "Panic", msg |-> NoMsg]
Nothing == [status |-> "None", msg |-> NoMsg]

(* The loop `for _ in 0..sign_cnt` from byte offset idx: each entry reads  *)
(* bytes[idx..idx+4] and bytes[idx+4..idx+4+SIGN_LEN], and panics when    *)
(* the frame is shorter.  Returns the list and the offset after it.        *)
RECURSIVE DecodeSigns(_, _, _)
DecodeSigns(b, idx, cnt) ==
    IF cnt = 0 THEN [ok |-> TRUE, signs |-> <<>>, idx |-> idx]
    ELSE IF idx + 4 + SIGN_LEN > Len(b)
         THEN [ok |-> FALSE, signs |-> <<>>, idx |-> idx]
         ELSE LET entry == <<U32At(b, idx), Slice(b, idx + 4, idx + 4 + SIGN_LEN)>>
                  rest == DecodeSigns(b, idx + 4 + SIGN_LEN, cnt - 1)
              IN [rest EXCEPT !.signs = <<entry>> \o @]

(* Message::from_bytes; an out-of-range slice or index is a Panic *)
from_bytes(b) ==
    IF Len(b) = 0 THEN Panic
    ELSE CASE b[1] = SYN_MSG ->
                IF Len(b) < 5 THEN Panic
                ELSE Ok([kind |-> "Syn", sender |-> U32At(b, 1),
                         pub_key |-> Rest(b, 5)])
           [] b[1] \in {SEND_MSG, ECHO_MSG} ->
                IF Len(b) < 9 THEN Panic
                ELSE IF b[1] = SEND_MSG
                     THEN Ok([kind |-> "Send", sender |-> U32At(b, 1),
                              rn |-> U32At(b, 5), payload |-> Rest(b, 9)])
                     ELSE Ok([kind |-> "Echo", sender |-> U32At(b, 1),
                              rn |-> U32At(b, 5), sign |-> Rest(b, 9)])
           [] b[1] \in {FIN_MSG, SUP_MSG} ->
                IF Len(b) < 13 THEN Panic
                ELSE LET s == DecodeSigns(b, 13, U32At(b, 9))
                         head == [sender |-> U32At(b, 1), rn |-> U32At(b, 5),
                                  sign_cnt |-> U32At(b, 9), signs |-> s.signs]
                     IN IF ~s.ok THEN Panic
                        ELSE IF b[1] = FIN_MSG THEN Ok([kind |-> "Fin"] @@ head)
                        ELSE IF s.idx + 4 > Len(b) THEN Panic
                        ELSE Ok([kind |-> "Sup", originator |-> U32At(b, s.idx),
                                 payload |-> Rest(b, s.idx + 4)] @@ head)
           [] OTHER -> Err

(* The messages a correct node builds: sign_cnt is the length of signs     *)
(* (sequencer.rs 533-534, 649-650) and every signature has SIGN_LEN bytes  *)
SignLists == UNION {[1..k -> Ids \X Sigs] : k \in 0..MaxSigns}

ValidMsg ==
    [kind : {"Syn"}, sender : Ids, pub_key : Keys]
    \cup [kind : {"Send"}, sender : Ids, rn : Rounds, payload : Payloads]
    \cup [kind : {"Echo"}, sender : Ids, rn : Rounds, sign : Sigs]
    \cup {[kind |-> "Fin", sender |-> i, rn |-> r, sign_cnt |-> Len(l),
           signs |-> l] : i \in Ids, r \in Rounds, l \in SignLists}
    \cup {[kind |-> "Sup", sender |-> i, rn |-> r, sign_cnt |-> Len(l),
           signs |-> l, originator |-> o, payload |-> p] :
             i \in Ids, r \in Rounds, l \in SignLists, o \in Ids, p \in Payloads}

VARIABLES frame,     \* the frame last put on the connection
          origin,    \* the message it encodes, NoMsg for a raw frame
          pending,   \* the frame waits in rx_recv for the dispatcher
          received,  \* what from_bytes returned for it
          up         \* the main-loop task is still running

vars == <<frame, origin, pending, received, up>>

Init ==
    /\ frame = <<>>
    /\ origin = NoMsg
    /\ pending = FALSE
    /\ received = Nothing
    /\ up = TRUE

(* A correct peer: Message::to_bytes then tx_send (sequencer.rs 236, 311, *)
(* 467, 540, 556, 669)                                                     *)
SendFrame(m) ==
    /\ ~pending
    /\ frame' = to_bytes(m)
    /\ origin' = m
    /\ pending' = TRUE
    /\ UNCHANGED <<received, up>>

(* A faulty peer, or a peer running another version, sends raw bytes *)
InjectFrame(b) ==
    /\ ~pending
    /\ frame' = b
    /\ origin' = NoMsg
    /\ pending' = TRUE
    /\ UNCHANGED <<received, up>>

(* run_main_loop: `Message::from_bytes(bytes).unwrap()`; an Err or a     *)
(* panic inside from_bytes ends the main-loop task                       *)
Dispatch ==
    /\ up /\ pending
    /\ received' = from_bytes(frame)
    /\ up' = (received'.status = "Ok")
    /\ pending' = FALSE
    /\ UNCHANGED <<frame, origin>>

Next ==
    \/ \E m \in ValidMsg : SendFrame(m)
    \/ \E b \in RawFrames : InjectFrame(b)
    \/ Dispatch

Spec == Init /\ [][Next]_vars

-----------------------------------------------------------------------------
(* P6, first half: whatever message a correct node encodes with to_bytes *)
(* is what from_bytes gives back at the receiver, field for field.       *)
RoundTrip ==
    (~pending /\ origin # NoMsg /\ frame # <<>>) => received = Ok(origin)

(* P6, second half, and the decode contract of the codec: from_bytes     *)
(* accepts only frames that are the encoding of the message it returns   *)
(* (a trailer that cannot be partitioned is InvalidFrame).                *)
DecodeAcceptsOnlyEncodings ==
    (~pending /\ received.status = "Ok") => to_bytes(received.msg) = frame

(* Spec 6 (decode error): a malformed frame is logged and dropped and    *)
(* the dispatcher of run_main_loop keeps serving the other peers.        *)
MalformedFrameDropped == up
====
