---------------------------- MODULE SampleWriter ----------------------------
(***************************************************************************)
(* The write task in front of VictoriaMetrics (server/src/tsdb/writer.rs): *)
(* a bounded channel of batches that every producer of samples fills       *)
(* without waiting, and the buffer of the task that empties it.            *)
(*                                                                         *)
(* A sample is any value: its content plays no part here.                  *)
(***************************************************************************)
EXTENDS Integers, Sequences, Functions

CONSTANTS
  ChannelCapacity,   \* CHANNEL_CAPACITY, in batches
  FlushSize,         \* DUMBMONIT_FLUSH_BATCH
  MaxBuffered        \* MAX_BUFFERED, in samples

ASSUME WriterAssumption ==
  ChannelCapacity \in Nat \ {0} /\ FlushSize \in Nat /\ MaxBuffered \in Nat

VARIABLES
  channel,     \* batches handed over and not received by the task yet
  pending,     \* the buffer of the task
  writing,     \* the task waits for the answer of VictoriaMetrics
  stored,      \* samples VictoriaMetrics has accepted
  refused,     \* samples counted by samples_dropped: the channel was full
  evicted      \* samples given up because VictoriaMetrics was away too long

writerVars == <<channel, pending, writing, stored, refused, evicted>>

WriterInit ==
  /\ channel = <<>> /\ pending = <<>> /\ writing = FALSE
  /\ stored = {} /\ refused = {} /\ evicted = {}

\* SampleSink::send never waits: it drops the whole batch, and counts it, when the
\* channel is full.
SinkSend(samples) ==
  /\ IF Len(channel) < ChannelCapacity
     THEN channel' = Append(channel, samples) /\ UNCHANGED refused
     ELSE refused' = refused \cup Range(samples) /\ UNCHANGED channel
  /\ UNCHANGED <<pending, writing, stored, evicted>>

FlushAt == IF FlushSize > 1 THEN FlushSize ELSE 1

\* rx.recv: a batch joins the buffer, which is written at once when it is long enough.
WriterReceives ==
  /\ ~writing /\ channel # <<>>
  /\ pending' = pending \o Head(channel)
  /\ channel' = Tail(channel)
  /\ writing' = (Len(pending') >= FlushAt)
  /\ UNCHANGED <<stored, refused, evicted>>

\* Mutant: the ticker writes full lots only.
WriterTicksIfFull ==
  /\ ~writing /\ Len(pending) >= FlushAt
  /\ writing' = TRUE
  /\ UNCHANGED <<channel, pending, stored, refused, evicted>>

\* ticker.tick
WriterTicks ==
  /\ ~writing /\ pending # <<>>
  /\ writing' = TRUE
  /\ UNCHANGED <<channel, pending, stored, refused, evicted>>

WriteSucceeds ==
  /\ writing
  /\ stored' = stored \cup Range(pending)
  /\ pending' = <<>> /\ writing' = FALSE
  /\ UNCHANGED <<channel, refused, evicted>>

\* What exceeds MAX_BUFFERED goes, the oldest first.
Excess == IF Len(pending) > MaxBuffered THEN Len(pending) - MaxBuffered ELSE 0

\* Mutant: the failed buffer is kept whole.
KeptAll == pending

Kept == SubSeq(pending, Excess + 1, Len(pending))

WriteFails ==
  /\ writing
  /\ pending' = Kept
  /\ evicted' = evicted \cup Range(SubSeq(pending, 1, Excess))
  /\ writing' = FALSE
  /\ UNCHANGED <<channel, stored, refused>>

\* The server dies: what it held in memory is gone.
WriterDies ==
  /\ channel' = <<>> /\ pending' = <<>> /\ writing' = FALSE
  /\ UNCHANGED <<stored, refused, evicted>>

\* Everything the writer holds in memory.
InWriter == (UNION {Range(channel[i]) : i \in DOMAIN channel}) \cup Range(pending)
=============================================================================
