--------------------------- MODULE BufferTransfer ---------------------------
(***************************************************************************)
(* A buffer of a V-App goes to the host, or one of the host to the V-App,  *)
(* in as many APDUs as it takes: handle_send_buffer and handle_xrecv       *)
(* (vm/src/handlers/lib/ecall.rs) at one end, process_send_buffer and      *)
(* process_receive_buffer (client-sdk/src/vanadium_client.rs) at the other.*)
(* Reading or writing the V-App's memory may need pages, and the requests  *)
(* for them come between the chunks.                                       *)
(***************************************************************************)
EXTENDS Integers, Sequences, SequencesExt, FiniteSetsExt

CONSTANTS
  FirstData, NextData,   \* Bytes in the first chunk that the VM sends, and in the next ones.
  ResponseData,          \* ReceiveBufferResponse::max_chunk_size
  NoLength

Bytes(buf, from, n) == SubSeq(buf, from, Min({from + n - 1, Len(buf)}))

-----------------------------------------------------------------------------
(* From the V-App to the host.                                                 *)

PageRequest == [code |-> "GetPage"]
SendBufferMessage(size, data) == [code |-> "SendBuffer", size |-> size, data |-> data]
SendBufferContinued(data) == [code |-> "SendBufferContinued", data |-> data]

\* The chunks of handle_send_buffer: an empty buffer is not read, but it is sent.
SendChunks(buf) ==
  <<SendBufferMessage(Len(buf), Bytes(buf, 1, FirstData))>>
  \o [k \in 1 .. (Max({Len(buf) - FirstData, 0}) + NextData - 1) \div NextData |->
        SendBufferContinued(Bytes(buf, FirstData + 1 + (k - 1) * NextData, NextData))]

\* All commands of the VM, when the chunks in "faults" need a page first.
Commands(buf, faults) ==
  FlattenSeq([k \in DOMAIN SendChunks(buf) |->
                (IF k \in faults THEN <<PageRequest>> ELSE <<>>) \o <<SendChunks(buf)[k]>>])

\* exchange_and_process_page_requests serves pages until there is something else.
Collecting(status, left, buf) == [status |-> status, left |-> left, buf |-> buf]

Collect(c, msg) ==
  IF c.status # "more" \/ msg = PageRequest THEN c
  ELSE IF c.left = NoLength
  THEN IF msg.code # "SendBuffer" \/ Len(msg.data) > msg.size THEN Collecting("error", 0, <<>>)
       ELSE Collecting(IF Len(msg.data) = msg.size THEN "ok" ELSE "more",
                       msg.size - Len(msg.data), msg.data)
  ELSE IF msg.code # "SendBufferContinued" \/ Len(msg.data) > c.left THEN Collecting("error", 0, <<>>)
  ELSE Collecting(IF Len(msg.data) = c.left THEN "ok" ELSE "more",
                  c.left - Len(msg.data), c.buf \o msg.data)

ProcessSendBuffer(commands) == FoldLeft(Collect, Collecting("more", NoLength, <<>>), commands)

-----------------------------------------------------------------------------
(* From the host to the V-App.                                                 *)

ReceiveBufferResponse(remaining, content) == [remaining |-> remaining, content |-> content]

\* The loop of process_receive_buffer, which answers at least once.
Responses(buf) ==
  [k \in 1 .. Max({1, (Len(buf) + ResponseData - 1) \div ResponseData}) |->
     ReceiveBufferResponse(Len(buf) - (k - 1) * ResponseData,
                           Bytes(buf, (k - 1) * ResponseData + 1, ResponseData))]

Receiving(status, remaining, mem, at, asked) ==
  [status |-> status, remaining |-> remaining, mem |-> mem, at |-> at, asked |-> asked]

Written(mem, at, content) ==
  [i \in DOMAIN mem |-> IF i \in at .. at + Len(content) - 1 THEN content[i - at + 1] ELSE mem[i]]

\* The length is that of the first response, and each of the next ones has to say what is
\* left of it.
WrongLengthUnchecked(x, response, max) == x.remaining = NoLength /\ response.remaining > max

WrongLength(x, response, max) ==
  IF x.remaining = NoLength THEN response.remaining > max ELSE response.remaining # x.remaining

\* A response with more than what is left is refused when it is deserialized, and what does
\* not fit the segment when it is written.
Take(x, response, max) ==
  LET size == Len(response.content) IN
  IF x.status # "more" THEN x
  ELSE IF \/ size > response.remaining
          \/ WrongLength(x, response, max)
          \/ size > 0 /\ x.at + size - 1 > Len(x.mem)
  THEN Receiving("error", 0, x.mem, x.at, x.asked + 1)
  ELSE Receiving(IF size = response.remaining THEN "ok" ELSE "more", response.remaining - size,
                 Written(x.mem, x.at, response.content), x.at + size, x.asked + 1)

Xrecv(mem, at, max, responses) ==
  FoldLeft(LAMBDA x, response : Take(x, response, max),
           Receiving("more", NoLength, mem, at, 0), responses)

-----------------------------------------------------------------------------
\* What the V-App sends is what the host gets, whichever chunks wait for pages, and the host
\* is done exactly when the VM has sent its last chunk.
SentWhole(buf, faults) ==
  LET all == Commands(buf, faults) IN
  /\ ProcessSendBuffer(all) = Collecting("ok", 0, buf)
  /\ ProcessSendBuffer(Front(all)).status = "more"

\* Whatever chunks the host gets, it takes a buffer of the length that was announced, or none.
CollectedAsAnnounced(commands) ==
  LET c == ProcessSendBuffer(commands)
      chunks == SelectSeq(commands, LAMBDA msg : msg # PageRequest)
  IN c.status = "ok" => chunks[1].code = "SendBuffer" /\ Len(c.buf) = chunks[1].size

\* What the host sends is what the V-App finds in its buffer, the rest of its memory is as it
\* was, and the VM asks exactly as often as the host answers; what is too long for the buffer
\* fails before any of it is written.
ReceivedWhole(mem, at, max, buf) ==
  LET x == Xrecv(mem, at, max, Responses(buf)) IN
  IF Len(buf) > max THEN x.status = "error" /\ x.mem = mem
  ELSE at + max - 1 <= Len(mem) =>
         /\ x.status = "ok" /\ x.at = at + Len(buf)
         /\ x.mem = Written(mem, at, buf)
         /\ x.asked = Len(Responses(buf))

\* Whatever the host answers, nothing outside of the buffer is written, also if xrecv fails in
\* the end, and the length it returns is that of the first response.
ReceivedWithin(mem, at, max, responses) ==
  LET x == Xrecv(mem, at, max, responses) IN
  /\ \A i \in DOMAIN mem : x.mem[i] # mem[i] => i \in at .. at + max - 1
  /\ x.status = "ok" =>
       /\ x.at - at = responses[1].remaining
       /\ \A i \in DOMAIN mem : x.mem[i] # mem[i] => i < x.at
=============================================================================
