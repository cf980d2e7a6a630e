---------------------------- MODULE SerialFraming ---------------------------
(***************************************************************************)
(* The framing of messages on the serial line, src/src/radio/raw.rs: a     *)
(* RawRadioSink writes encoded messages in as many pieces as the port      *)
(* takes, and a RawRadioStream finds them again in the pieces it reads,    *)
(* after noise that was on the line before.  The two ends of the program   *)
(* are connected here by a line without loss, so that the encoder and the  *)
(* decoder are compared with each other; the device uses the same format.  *)
(*                                                                         *)
(* The request id and the length take one byte each (two in the code).     *)
(***************************************************************************)
EXTENDS Integers, SequencesExt

CONSTANTS
  Prefix,        \* RADIO_MAGIC_PREFIX
  Commands,      \* the bytes that are a RawRadioCommand
  MaxLength,     \* largest length of the data (65535 in the code)
  BufferSize,    \* size of the stream's buffer (65535 in the code)
  Messages,      \* the messages that are sent
  Noises,        \* what may be on the line at first
  MaxMessages,   \* bound: messages sent
  MaxErrors      \* bound: errors of the port

ASSUME SerialFramingAssumption ==
  /\ Prefix # <<>>
  /\ MaxLength \in Nat /\ BufferSize \in Nat
  /\ \A m \in Messages : m.command_id \in Commands /\ Len(m.data) <= MaxLength
  /\ MaxMessages \in Nat /\ MaxErrors \in Nat

VARIABLES
  sender,        \* the send of the request task: "next", "ready" (first flush),
                 \* "flush" (second flush)
  sending,       \* the message to be sent, while the first flush lasts
  sink,          \* RawRadioSink: [buffer, written]
  sent,          \* history: the messages that got into the sink
  noise,         \* history: what was on the line at first
  line,          \* bytes written and not read yet
  wire,          \* history: all bytes that were on the line
  buffer,        \* RawRadioStream: the filled part of the buffer
  received,      \* history: the messages the stream returned
  reader,        \* "run", "full" or "failed" (the stream returned None), "panicked"
  errors

sinkVars == <<sender, sending, sink, sent>>
streamVars == <<buffer, received, reader>>
vars == <<sinkVars, streamVars, noise, line, wire, errors>>

HeaderSize == Len(Prefix) + 3
From(s, i) == SubSeq(s, i, Len(s))

\* gen_raw_radio_message
Gen(m) ==
  LET len == Min({Len(m.data), MaxLength})
  IN  Prefix \o <<m.command_id, m.request_id, len>> \o SubSeq(m.data, 1, len)

\* parse_raw_radio_message of bytes that begin with the prefix: the command is
\* converted, or the conversion panics, once the header is complete.
HasHeader(b) == Len(b) >= HeaderSize
KnownCommand(b) == b[Len(Prefix) + 1] \in Commands
Size(b) == HeaderSize + b[HeaderSize]
Parsed(b) ==
  [command_id |-> b[Len(Prefix) + 1], request_id |-> b[Len(Prefix) + 2],
   data |-> SubSeq(b, HeaderSize + 1, Size(b))]

-----------------------------------------------------------------------------
(* pop_raw_message: the bytes that stay in the buffer and the outcome.      *)

\* find_subsequence
Finds(b) == {i \in 1 .. Len(b) - Len(Prefix) + 1 :
               SubSeq(b, i, i + Len(Prefix) - 1) = Prefix}

Popped(rest, messages, outcome) ==
  [rest |-> rest, messages |-> messages, outcome |-> outcome]

KeepNothing(b) == <<>>
\* Without a prefix only as many bytes stay as the prefix is long.
KeepTail(b) == From(b, Len(b) - Len(Prefix) + 1)

NeedsMore(b) == Len(b) <= Size(b)
Incomplete(b) == Len(b) < Size(b)

PopParsed(b) ==
  CASE ~HasHeader(b) -> Popped(b, <<>>, "none")
    [] HasHeader(b) /\ ~KnownCommand(b) -> Popped(b, <<>>, "panic")
    [] HasHeader(b) /\ KnownCommand(b) ->
         IF Incomplete(b) THEN Popped(b, <<>>, "none")
         ELSE Popped(From(b, Size(b) + 1), <<Parsed(b)>>, "message")

PopRawMessage(b) ==
  CASE Len(b) < Len(Prefix) -> Popped(b, <<>>, "none")
    [] Len(b) >= Len(Prefix) /\ Finds(b) = {} -> Popped(KeepTail(b), <<>>, "none")
    [] Len(b) >= Len(Prefix) /\ Finds(b) # {} -> PopParsed(From(b, Min(Finds(b))))

-----------------------------------------------------------------------------
Init ==
  /\ sender = "next" /\ sending = {} /\ sent = <<>>
  /\ sink = [buffer |-> <<>>, written |-> 0]
  /\ noise \in Noises /\ line = noise /\ wire = noise
  /\ buffer = <<>> /\ received = <<>> /\ reader = "run"
  /\ errors = 0

(* The sink: SinkExt::send is poll_ready, start_send, poll_flush.           *)
Send(m) ==
  /\ sender = "next"
  /\ Len(sent) < MaxMessages
  /\ sender' = "ready" /\ sending' = {m}
  /\ UNCHANGED <<sink, sent, streamVars, line, wire, noise, errors>>

\* poll_write took n of the bytes that are left.
PollWrite(n) ==
  /\ sender # "next"
  /\ n <= Len(sink.buffer) - sink.written
  /\ LET bytes == SubSeq(sink.buffer, sink.written + 1, sink.written + n) IN
     line' = line \o bytes /\ wire' = wire \o bytes
  /\ sink' = [sink EXCEPT !.written = @ + n]
  /\ UNCHANGED <<sender, sending, sent, streamVars, noise, errors>>

Restart(s) == [s EXCEPT !.written = 0]
WriteFailed(s) == s
\* An error ends the send; what was not written stays in the sink, and a message
\* that was not in the sink yet is dropped.
WriteError ==
  /\ sender # "next"
  /\ sink.written < Len(sink.buffer)
  /\ errors < MaxErrors
  /\ errors' = errors + 1
  /\ sender' = "next" /\ sending' = {}
  /\ sink' = WriteFailed(sink)
  /\ UNCHANGED <<sent, streamVars, noise, line, wire>>

\* poll_ready has written everything: start_send.
StartSend ==
  /\ sender = "ready" /\ sink.written = Len(sink.buffer)
  /\ \E m \in sending :
       /\ sink' = [buffer |-> Gen(m), written |-> 0]
       /\ sent' = Append(sent, m)
  /\ sender' = "flush" /\ sending' = {}
  /\ UNCHANGED <<streamVars, line, wire, noise, errors>>

\* poll_flush has written everything.
Flushed ==
  /\ sender = "flush" /\ sink.written = Len(sink.buffer)
  /\ sink' = [buffer |-> <<>>, written |-> 0]
  /\ sender' = "next"
  /\ UNCHANGED <<sending, sent, streamVars, line, wire, noise, errors>>

-----------------------------------------------------------------------------
(* The stream: one turn of the loop of poll_next.                           *)
ReturnMessage ==
  LET popped == PopRawMessage(buffer)
  IN  /\ reader = "run"
      /\ popped.outcome = "message"
      /\ buffer' = popped.rest
      /\ received' = received \o popped.messages
      /\ UNCHANGED <<sinkVars, noise, line, wire, reader, errors>>

\* try_from(command_id).unwrap()
Panic ==
  /\ reader = "run"
  /\ PopRawMessage(buffer).outcome = "panic"
  /\ reader' = "panicked"
  /\ UNCHANGED <<sinkVars, noise, line, wire, buffer, received, errors>>

\* The buffer is full, or the port has an error: poll_next returns None, which
\* the response task unwraps.
FullEarly(rest) == Len(rest) >= BufferSize - 1
Full(rest) == Len(rest) = BufferSize

ReturnNone ==
  LET popped == PopRawMessage(buffer)
  IN  /\ reader = "run"
      /\ popped.outcome = "none"
      /\ buffer' = popped.rest
      /\ \/ /\ Full(popped.rest)
            /\ reader' = "full"
            /\ UNCHANGED errors
         \/ /\ ~Full(popped.rest)
            /\ errors < MaxErrors
            /\ errors' = errors + 1
            /\ reader' = "failed"
      /\ UNCHANGED <<sinkVars, noise, line, wire, received>>

\* poll_read gave n bytes.
PollRead(n) ==
  LET popped == PopRawMessage(buffer)
  IN  /\ reader = "run"
      /\ popped.outcome = "none"
      /\ ~Full(popped.rest)
      /\ n <= BufferSize - Len(popped.rest)
      /\ n <= Len(line)
      /\ buffer' = popped.rest \o SubSeq(line, 1, n)
      /\ line' = From(line, n + 1)
      /\ UNCHANGED <<sinkVars, noise, wire, received, reader, errors>>

Next ==
  \/ \E m \in Messages : Send(m)
  \/ \E n \in 1 .. Len(sink.buffer) : PollWrite(n)
  \/ WriteError \/ StartSend \/ Flushed
  \/ ReturnMessage \/ Panic \/ ReturnNone
  \/ \E n \in 1 .. BufferSize : PollRead(n)

Spec == Init /\ [][Next]_vars

\* A task with bytes to read or room to write is polled.
Fairness ==
  /\ WF_vars(\E n \in 1 .. Len(sink.buffer) : PollWrite(n))
  /\ WF_vars(StartSend) /\ WF_vars(Flushed)
  /\ WF_vars(ReturnMessage \/ Panic \/ ReturnNone \/ \E n \in 1 .. BufferSize : PollRead(n))

FairSpec == Spec /\ Fairness

-----------------------------------------------------------------------------
(* The reference: the messages of a whole byte sequence, read at leisure.   *)
Decode(w) ==
  LET d[i \in 1 .. Len(w) + 1] ==
        LET b == From(w, i) IN
        CASE Len(b) < Len(Prefix) -> <<>>
          [] Len(b) >= Len(Prefix) /\ ~IsPrefix(Prefix, b) -> d[i + 1]
          [] Len(b) >= Len(Prefix) /\ IsPrefix(Prefix, b) ->
               IF ~HasHeader(b) \/ ~KnownCommand(b) \/ Len(b) < Size(b) THEN <<>>
               ELSE <<Parsed(b)>> \o d[i + Size(b)]
  IN  d[1]

\* The stream returns the messages of the byte sequence as a whole, in order,
\* however it is cut into reads: no cut through a prefix, a header or the data,
\* and no rotation of the buffer, loses or invents a message.
CutsDoNotMatter ==
  /\ IsPrefix(received, Decode(wire))
  /\ reader = "run" /\ line = <<>> /\ PopRawMessage(buffer).outcome = "none" =>
       received = Decode(wire)

\* After noise without a whole prefix in it, partial and failed writes included,
\* what can be decoded are the messages that got into the sink, and all of them
\* once the sink is empty; data that looks like a prefix does no harm.
SentIsDecoded ==
  Finds(noise) = {} =>
    /\ IsPrefix(Decode(wire), sent)
    /\ sink.written = Len(sink.buffer) => Decode(wire) = sent

\* The stream ends for want of space only in front of a message that is larger
\* than the buffer, and panics only over noise that looked like a message.
EndsForAReason ==
  /\ reader = "full" =>
       IsPrefix(Prefix, buffer) /\ HasHeader(buffer) /\ Size(buffer) > BufferSize
  /\ reader = "panicked" => Finds(noise) # {}

\* A stream that goes on returns everything there is, in the end.
EverythingIsReturned == <>[](reader = "run" => received = Decode(wire))
=============================================================================
