---------------------------- MODULE StudioFraming ----------------------------
(***************************************************************************)
(* The byte framing of ZMK Studio RPC: how a payload is framed, and one    *)
(* step of the decoder that the BLE host (frame_rx_byte) and the Python    *)
(* client (read_frame) share.  The decoders differ in the room they have:  *)
(* the host's buffer is bounded and drops what does not fit.               *)
(***************************************************************************)
EXTENDS Naturals, Sequences, SequencesExt

CONSTANTS SOF, ESC, EOF,  (* the three special bytes                       *)
          PlainByte       (* the other bytes                               *)

ASSUME FramingAssumption ==
  /\ SOF # ESC /\ SOF # EOF /\ ESC # EOF
  /\ PlainByte \cap {SOF, ESC, EOF} = {}

SPECIAL == {SOF, ESC, EOF}
Byte == PlainByte \cup SPECIAL

\* Delimited by SOF and EOF, every special byte inside behind an ESC.
Escape(byte) == IF byte \in SPECIAL THEN <<ESC, byte>> ELSE <<byte>>
Body(payload) == FlattenSeq([i \in DOMAIN payload |-> Escape(payload[i])]) \o <<EOF>>
Frame(payload) == <<SOF>> \o Body(payload)

\* Several of them, one after the other.
Frames(payloads) == FlattenSeq([i \in DOMAIN payloads |-> Frame(payloads[i])])

Decoder == [in_frame : BOOLEAN, escaped : BOOLEAN, payload : Seq(Byte)]
FreshDecoder == [in_frame |-> FALSE, escaped |-> FALSE, payload |-> << >>]

\* Mutant: an escaped EOF ends the frame as well.
EndsAtAnyEOF(d, byte) == d.in_frame /\ byte = EOF

\* The byte ends the frame the decoder is in.
EndsFrame(d, byte) == d.in_frame /\ ~d.escaped /\ byte = EOF

\* Mutant: a SOF opens a frame without emptying the buffer.
DecodeByteAppending(d, byte, room) ==
  LET opens == byte = SOF /\ ~(d.in_frame /\ d.escaped)
      stores == d.in_frame /\ (d.escaped \/ byte \notin SPECIAL)
  IN [in_frame |-> opens \/ (d.in_frame /\ ~EndsFrame(d, byte)),
      escaped  |-> d.in_frame /\ ~d.escaped /\ byte = ESC,
      payload  |-> IF EndsFrame(d, byte) THEN << >>
                   ELSE IF stores /\ Len(d.payload) < room
                        THEN Append(d.payload, byte)
                        ELSE d.payload]

\* The decoder after one more byte, in a buffer of `room' bytes.
DecodeByte(d, byte, room) ==
  LET opens  == byte = SOF /\ ~(d.in_frame /\ d.escaped)
      stores == d.in_frame /\ (d.escaped \/ byte \notin SPECIAL)
  IN [in_frame |-> opens \/ (d.in_frame /\ ~EndsFrame(d, byte)),
      escaped  |-> d.in_frame /\ ~d.escaped /\ byte = ESC,
      payload  |-> IF opens THEN << >>
                   ELSE IF stores /\ Len(d.payload) < room
                        THEN Append(d.payload, byte)
                        ELSE d.payload]
=============================================================================
