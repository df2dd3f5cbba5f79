----------------------------- MODULE ItchReader -----------------------------
(***************************************************************************)
(* read_next_message called until it returns false, over a buffer of       *)
(* length-prefixed ITCH messages, with a bounded queue between the reader  *)
(* and the thread that consumes the messages.                              *)
(*                                                                         *)
(* The buffer is the sequence of its frames; it may end in the middle of   *)
(* the last one.  A frame is the two bytes of the length and the message.  *)
(* The program that calls the reader is not in the repository.             *)
(***************************************************************************)
EXTENDS ItchMessages

CONSTANTS
  Frames,      \* frames that may be in a buffer: [code, size]
  MaxFrames,   \* bound on the frames of a buffer
  Cuts,        \* numbers of bytes that may be missing at the end of the buffer
  QueueSize    \* capacity of the queue

ASSUME ReaderAssumption ==
  /\ Frames \subseteq [code : STRING, size : Nat \ {0}]
  /\ \A f \in Frames : f.size <= 65535
  /\ \A f \in Frames : f.code \in DOMAIN ItchSize => f.size = ItchSize[f.code]
  /\ MaxFrames \in Nat
  /\ Cuts \subseteq Nat
  /\ QueueSize \in Nat \ {0}

VARIABLES
  buffer,    \* the frames
  length,    \* bytes in the buffer
  p, l,      \* bytes consumed, bytes left
  pc,        \* "call", "push" or "end"
  frame,     \* message_size and code of the message being read
  queue,     \* messages pushed and not yet consumed
  consumed,  \* history: messages consumed, in order
  loaded, skipped, read,  \* messages_status
  stalled    \* whether the last try_push failed (messages_status::stall counts them)

vars == <<buffer, length, p, l, pc, frame, queue, consumed, loaded, skipped, read, stalled>>

\* The bytes of the first n frames, and where frame i starts.
Offset[n \in 0 .. Len(buffer)] == IF n = 0 THEN 0 ELSE Offset[n - 1] + uint16 + buffer[n].size

StartOf(i) == Offset[i - 1]

AtBoundary(x) == \E i \in 1 .. Len(buffer) + 1 : x = StartOf(i)

FrameAt(x) == buffer[CHOOSE i \in 1 .. Len(buffer) : x = StartOf(i)]

NoFrame == [code |-> "", size |-> 0]

Init ==
  /\ buffer \in UNION {[1 .. n -> Frames] : n \in 0 .. MaxFrames}
  /\ \E cut \in Cuts : cut <= StartOf(Len(buffer) + 1) /\ length = StartOf(Len(buffer) + 1) - cut
  /\ p = 0
  /\ l = length
  /\ pc = "call"
  /\ frame = NoFrame
  /\ queue = <<>>
  /\ consumed = <<>>
  /\ loaded = 0
  /\ skipped = 0
  /\ read = 0
  /\ stalled = FALSE

Take(n) == p' = p + n /\ l' = l - n

\* Fewer than two bytes are left.
NoHeader ==
  /\ pc = "call"
  /\ l < uint16
  /\ pc' = "end"
  /\ UNCHANGED <<buffer, length, p, l, frame, queue, consumed, loaded, skipped, read, stalled>>

\* The length is taken before the check that the message is all there.
ShortFrame ==
  /\ pc = "call"
  /\ l >= uint16
  /\ l - uint16 < FrameAt(p).size
  /\ Take(uint16)
  /\ pc' = "end"
  /\ UNCHANGED <<buffer, length, frame, queue, consumed, loaded, skipped, read, stalled>>

Dispatch(f) ==
  /\ pc = "call"
  /\ l >= uint16
  /\ f = FrameAt(p)
  /\ l - uint16 >= f.size

\* Mutant: a message that is not decoded ends the read.
SkipEnds ==
  LET f == FrameAt(p)
  IN  /\ Dispatch(f)
      /\ ~Decoded(f.code)
      /\ Take(uint16 + f.size)
      /\ skipped' = skipped + 1
      /\ pc' = "end"
      /\ UNCHANGED <<buffer, length, frame, queue, consumed, loaded, read, stalled>>

SkipMessage ==
  LET f == FrameAt(p)
  IN  /\ Dispatch(f)
      /\ ~Decoded(f.code)
      /\ Take(uint16 + f.size)
      /\ skipped' = skipped + 1
      /\ UNCHANGED <<buffer, length, pc, frame, queue, consumed, loaded, read, stalled>>

DecodeMessage ==
  LET f == FrameAt(p)
  IN  /\ Dispatch(f)
      /\ Decoded(f.code)
      /\ Take(uint16 + DecodeTakes(MessageOf(f.code), l - uint16))
      /\ frame' = f
      /\ pc' = "push"
      /\ UNCHANGED <<buffer, length, queue, consumed, loaded, skipped, read, stalled>>

\* Mutant: try_push is not tried again.
StallDrops ==
  /\ pc = "push"
  /\ Len(queue) = QueueSize
  /\ loaded' = loaded + frame.size
  /\ read' = read + 1
  /\ stalled' = TRUE
  /\ frame' = NoFrame
  /\ pc' = "call"
  /\ UNCHANGED <<buffer, length, p, l, queue, consumed, skipped>>

\* while (!q.try_push(m)) status.stall++;
Stall ==
  /\ pc = "push"
  /\ Len(queue) = QueueSize
  /\ stalled' = TRUE
  /\ UNCHANGED <<buffer, length, p, l, pc, frame, queue, consumed, loaded, skipped, read>>

\* Mutant: the two bytes of the length are counted as loaded.
PushCountsLength ==
  /\ pc = "push"
  /\ Len(queue) < QueueSize
  /\ queue' = Append(queue, frame)
  /\ loaded' = loaded + uint16 + frame.size
  /\ read' = read + 1
  /\ stalled' = FALSE
  /\ frame' = NoFrame
  /\ pc' = "call"
  /\ UNCHANGED <<buffer, length, p, l, consumed, skipped>>

Push ==
  /\ pc = "push"
  /\ Len(queue) < QueueSize
  /\ queue' = Append(queue, frame)
  /\ loaded' = loaded + frame.size
  /\ read' = read + 1
  /\ stalled' = FALSE
  /\ frame' = NoFrame
  /\ pc' = "call"
  /\ UNCHANGED <<buffer, length, p, l, consumed, skipped>>

\* The consuming thread, outside the repository.
Pop ==
  /\ queue # <<>>
  /\ consumed' = Append(consumed, Head(queue))
  /\ queue' = Tail(queue)
  /\ UNCHANGED <<buffer, length, p, l, pc, frame, loaded, skipped, read, stalled>>

Reader == NoHeader \/ ShortFrame \/ SkipMessage \/ DecodeMessage \/ Stall \/ Push

Next == Reader \/ Pop

\* Both threads are scheduled; the consumer never stops while messages wait.
Spec == Init /\ [][Next]_vars /\ WF_vars(Reader) /\ WF_vars(Pop)

-----------------------------------------------------------------------------
\* The frames the reader has finished with.  Among the first n frames: the messages, and
\* the bytes of the others.
FramesRead == read + skipped

MessagesAmong[n \in 0 .. Len(buffer)] ==
  IF n = 0 THEN <<>>
  ELSE IF Decoded(buffer[n].code) THEN Append(MessagesAmong[n - 1], buffer[n])
  ELSE MessagesAmong[n - 1]

SkippedAmong[n \in 0 .. Len(buffer)] ==
  IF n = 0 THEN 0
  ELSE SkippedAmong[n - 1] + IF Decoded(buffer[n].code) THEN 0 ELSE buffer[n].size

\* decode takes its own fields and not the frame's length, and it takes nothing
\* when it refuses: the reader is nevertheless always at the start of a frame, and
\* p and l agree on where the buffer ends.
InStep ==
  /\ p + l = length
  /\ l >= 0
  /\ pc # "end" => AtBoundary(p)

\* Every message of the frames read is in the queue or was consumed, once and in
\* the order of the buffer, however often the queue was full.
NothingLost == consumed \o queue = MessagesAmong[FramesRead]

\* The counters account for every byte before the current frame.
CountersAddUp ==
  pc = "call" =>
    /\ p = StartOf(FramesRead + 1)
    /\ p = uint16 * FramesRead + loaded + SkippedAmong[FramesRead]

\* The frames that are all there.
WholeFrames == {i \in 1 .. Len(buffer) : StartOf(i + 1) <= length}

\* The reader reaches the end of the buffer and every message that is all there is
\* consumed: a full queue delays the reader and never stops it.
AllConsumed ==
  <>[](/\ pc = "end"
       /\ queue = <<>>
       /\ \E n \in 0 .. Len(buffer) :
            /\ WholeFrames = 1 .. n
            /\ consumed = MessagesAmong[n])
=============================================================================
