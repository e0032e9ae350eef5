------------------------------- MODULE Framing -------------------------------
(***************************************************************************)
(* The wire format of src/src/node/message.rs: an 8-byte header (version  *)
(* u16, id u16, payload size u32, each big-endian) followed by the        *)
(* bincode encoding of the command. A stream is a sequence of elements:   *)
(* a header byte is [byte |-> n]; the command's bincode bytes are one     *)
(* element [cmd |-> c], so its length, the size field, is 1.              *)
(***************************************************************************)
EXTENDS Naturals, Sequences, SequencesExt

CONSTANTS VERSION   \* crate::version::VERSION, a u16

Byte == 0 .. 255

(* Mutant: n.to_le_bytes().                                               *)
ToLeBytes(n, w) == [i \in 1 .. w |-> [byte |-> (n \div 256^(i - 1)) % 256]]

(* n.to_be_bytes() for a w-byte unsigned word.                            *)
ToBeBytes(n, w) == [i \in 1 .. w |-> [byte |-> (n \div 256^(w - i)) % 256]]

(* uN::from_be_bytes.                                                      *)
FromBeBytes(s) == FoldLeft(LAMBDA acc, e : acc * 256 + e.byte, 0, s)

(* Message::serialize: the command is encoded first to get its size       *)
(* (`len() as u32`, which cannot truncate a one-element payload), then    *)
(* the header, then the command.                                          *)
Serialize(id, cmd) ==
    LET body == << [cmd |-> cmd] >>
    IN  ToBeBytes(VERSION, 2) \o ToBeBytes(id, 2)
          \o ToBeBytes(Len(body), 4) \o body

(* Message::send: the serialized bytes are written after what the stream *)
(* already carries.                                                       *)
SendFrame(w, id, cmd) == w \o Serialize(id, cmd)

(* Message::from_stream on the bytes w not yet read: read_exact of the   *)
(* 8-byte header, then read_exact of `size` bytes; each waits until the *)
(* bytes are there. The version is read and never checked. bincode's     *)
(* decode_from_slice decodes a command from the front of the payload and *)
(* ignores what follows it.                                               *)
Size(w) == FromBeBytes(SubSeq(w, 5, 8))
FrameComplete(w) == Len(w) >= 8 /\ Len(w) >= 8 + Size(w)
Body(w) == SubSeq(w, 9, 8 + Size(w))
Decodes(w) == Body(w) # <<>> /\ "cmd" \in DOMAIN Body(w)[1]
FromStream(w) ==
    [version |-> FromBeBytes(SubSeq(w, 1, 2)),
     id |-> FromBeBytes(SubSeq(w, 3, 4)),
     command |-> Body(w)[1].cmd]

(* The bytes left on the stream after one message is read.               *)
Rest(w) == SubSeq(w, 9 + Size(w), Len(w))
=============================================================================
