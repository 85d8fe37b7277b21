------------------------------- MODULE Scada -------------------------------
(***************************************************************************)
(* internal/scada: frames on a link (framing.go).  Nothing in the          *)
(* repository calls them yet: writers, the reader and the network are      *)
(* modelled as the least their signatures demand.                          *)
(*                                                                         *)
(* A byte is a number below Byte, and an address is one byte.  WriteFrame  *)
(* makes two writes and holds no lock, so two of them may interleave, and  *)
(* each write may fail with a part of its bytes written.  ReadFrame reads  *)
(* what it needs and blocks for it; its reader stops at the first error.   *)
(***************************************************************************)
EXTENDS Integers, Sequences, SequencesExt, FiniteSets

CONSTANTS
  Byte,          \* how many values a byte has
  ByteXor(_, _), \* the exclusive or of two bytes
  Magic,         \* frameMagic
  LinkWriters,   \* callers of WriteFrame on one link
  Frames,        \* [address, command, payload], what they may write
  MaxFrames      \* bound on the frames written

Bytes == 0 .. Byte - 1

ASSUME FrameTypes ==
  /\ Byte \in Nat \ {0} /\ Magic \in Bytes
  /\ Frames \subseteq [address : Bytes, command : Bytes, payload : Seq(Bytes)]

\* All that is asked of the exclusive or: a changed byte changes it.
ASSUME XorOfBytes ==
  \A x, y \in Bytes : /\ ByteXor(x, y) \in Bytes
                      /\ \A z \in Bytes \ {y} : ByteXor(x, y) # ByteXor(x, z) /\ ByteXor(y, x) # ByteXor(z, x)

VARIABLES
  stream,    \* bytes on the link that are not read yet
  writing,   \* per writer, the frame whose header is written, or none
  begun,     \* frames of which a header was written
  intact,    \* how many of them were whole before anything went wrong
  trouble,   \* a write failed, or two overlapped
  noise,     \* a byte was changed on the way
  received,  \* frames ReadFrame returned
  reader     \* "reading", or "failed"

linkVars == <<stream, writing, begun, intact, trouble, noise, received, reader>>

LinkInit == /\ stream = << >> /\ begun = << >> /\ received = << >>
            /\ writing = [w \in LinkWriters |-> << >>]
            /\ intact = 0 /\ trouble = FALSE /\ noise = FALSE
            /\ reader = "reading"

-----------------------------------------------------------------------------

\* maxPayload, the largest length the length byte holds.
maxPayload == Byte - 1

\* Over the first four bytes.
checksum(b) == ByteXor(ByteXor(ByteXor(ByteXor(0, b[1]), b[2]), b[3]), b[4])

Header(f) == LET body == <<Magic, f.address, f.command, Len(f.payload) % Byte>>
             IN  Append(body, checksum(body))

HeaderSize == 5

Busy == {w \in LinkWriters : writing[w] # << >>}

PutHeader(w, f) ==
  /\ writing[w] = << >> /\ Len(begun) < MaxFrames
  /\ begun' = Append(begun, f)
  /\ trouble' = (trouble \/ Busy # {})
  /\ stream' = stream \o Header(f)
  /\ writing' = [writing EXCEPT ![w] = <<f>>]
  /\ UNCHANGED <<intact, noise, received, reader>>

\* Mutant: WriteFrame takes a payload its length byte cannot count.
WriteHeaderAny(w, f) == PutHeader(w, f)

\* WriteFrame refuses a long payload; otherwise the header goes out.
WriteHeader(w, f) == Len(f.payload) <= maxPayload /\ PutHeader(w, f)

WritePayload(w) ==
  /\ writing[w] # << >>
  /\ stream' = stream \o writing[w][1].payload
  /\ writing' = [writing EXCEPT ![w] = << >>]
  /\ intact' = IF trouble THEN intact ELSE intact + 1
  /\ UNCHANGED <<begun, trouble, noise, received, reader>>

\* A write that fails leaves a part of its bytes, and WriteFrame returns.
HeaderFails(w, f) ==
  /\ writing[w] = << >> /\ Len(f.payload) <= maxPayload /\ ~trouble
  /\ \E k \in 0 .. HeaderSize - 1 : stream' = stream \o SubSeq(Header(f), 1, k)
  /\ trouble' = TRUE
  /\ UNCHANGED <<writing, begun, intact, noise, received, reader>>

PayloadFails(w) ==
  /\ writing[w] # << >> /\ ~trouble
  /\ LET payload == writing[w][1].payload IN
       \E k \in 0 .. Len(payload) - 1 : stream' = stream \o SubSeq(payload, 1, k)
  /\ writing' = [writing EXCEPT ![w] = << >>]
  /\ trouble' = TRUE
  /\ UNCHANGED <<begun, intact, noise, received, reader>>

\* One byte of the header that is read next arrives as another.
Corrupt ==
  /\ ~noise /\ reader = "reading" /\ Len(stream) >= HeaderSize
  /\ \E k \in 1 .. HeaderSize, b \in Bytes :
       b # stream[k] /\ stream' = [stream EXCEPT ![k] = b]
  /\ noise' = TRUE
  /\ UNCHANGED <<writing, begun, intact, trouble, received, reader>>

HeaderGood == /\ stream[1] = Magic
              /\ stream[HeaderSize] = checksum(stream)

FrameEnd == HeaderSize + stream[4]

ReadFrame ==
  /\ reader = "reading" /\ Len(stream) >= HeaderSize
  /\ \/ /\ HeaderGood /\ Len(stream) >= FrameEnd
        /\ received' = Append(received, [address |-> stream[2], command |-> stream[3],
                                         payload |-> SubSeq(stream, HeaderSize + 1, FrameEnd)])
        /\ stream' = SubSeq(stream, FrameEnd + 1, Len(stream))
        /\ UNCHANGED reader
     \/ /\ ~HeaderGood
        /\ reader' = "failed"
        /\ UNCHANGED <<received, stream>>
  /\ UNCHANGED <<writing, begun, intact, trouble, noise>>

LinkNext == \/ \E w \in LinkWriters : \/ \E f \in Frames : WriteHeader(w, f) \/ HeaderFails(w, f)
                                      \/ WritePayload(w) \/ PayloadFails(w)
            \/ Corrupt
            \/ ReadFrame

LinkSpec == LinkInit /\ [][LinkNext]_linkVars

-----------------------------------------------------------------------------

\* What was written whole before the first failed or overlapping write arrives
\* as it was written and in order, or not at all: a changed header byte is found
\* by the checksum, and nothing else makes a reader give up, whatever bytes a
\* payload has and however long it is.
FramesIntact ==
  /\ \A k \in 1 .. intact : k \in DOMAIN received => received[k] = begun[k]
  /\ reader = "failed" => noise \/ trouble

=============================================================================
