---------------------------- MODULE ChunkPipeline ----------------------------
(***************************************************************************)
(* The bytes of one streamed value: ValueWriter cuts what its caller       *)
(* writes into chunks and uploads them a few at a time, seal makes the     *)
(* manifest, and ValueReader fetches the chunks of a window, a few at a    *)
(* time and in any order, and yields the window's bytes.  Publishing the   *)
(* manifest and everyone who competes for the key are in ValueStream.      *)
(*                                                                         *)
(* Uploads and fetches are futures: the store finishes them at any time,   *)
(* and their results are taken only by a poll.                             *)
(***************************************************************************)
EXTENDS Integers, Sequences, FiniteSets, SequencesExt

CONSTANTS
  Source,       \* the bytes a caller writes, or a first part of them
  ChunkBytes,   \* CHUNK_BYTES, 16 MiB
  MinChunks,    \* MIN_CHUNKS, 2
  MaxChunks,    \* MAX_CHUNKS, 65536
  MaxInFlight,  \* MAX_IN_FLIGHT_CHUNKS, 4
  MaxBuf,       \* the longest slice offered to a poll
  Absent

ASSUME PipelineAssumption ==
  /\ {ChunkBytes, MinChunks, MaxChunks, MaxInFlight, MaxBuf} \subseteq Nat \ {0}
  /\ MinChunks <= MaxChunks
  /\ Source \in Seq(ToSet(Source))
  /\ Absent \notin Nat

VARIABLES
  buffer,      \* ValueWriter.buffer
  total,       \* ValueWriter.total_len
  entries,     \* ValueWriter.entries: the chunks, which stand for their digests
  inFlight,    \* ValueWriter.in_flight: ordinal -> "sent", "ok" or "err"
  objects,     \* the chunk objects in the store
  error,       \* ValueWriter.error
  wpc,         \* "open", "sealing", "tail", "sealed" or "failed"
  manifest,    \* the sealed manifest, Absent before
  start,       \* ValueReader: start and end of the window
  end,
  position,    \* ValueReader.position
  nextFetch,   \* ChunkReader.next_fetch, .last_fetch
  lastFetch,
  fetches,     \* ChunkReader.in_flight
  ready,       \* ChunkReader.ready: the ordinals
  current,     \* ChunkReader.current: the offset in the chunk, Absent when there is none
  ordinal,     \* ChunkReader.current_ordinal
  room,        \* the poll's free buffer, 0 between polls
  yielded,     \* what the reader has yielded
  rpc,         \* "none", "idle", "poll", "eof" or "error"
  failed       \* history: some poll has returned an error

writer == <<buffer, total, entries, inFlight, objects, error, wpc, manifest>>
reader == <<start, end, position, nextFetch, lastFetch, fetches, ready, current, ordinal,
            room, yielded, rpc, failed>>
pipeVars == <<writer, reader>>

-----------------------------------------------------------------------------
Lesser(m, n) == IF m <= n THEN m ELSE n

MaxLogical == ChunkBytes * MaxChunks

Empty == [o \in {} |-> "sent"]

In(f, result) == {o \in DOMAIN f : f[o] = result}

\* A future's result is taken out of the set.
Taken(f, o) == [p \in DOMAIN f \ {o} |-> f[p]]

\* ValueManifest::decode: what it refuses is no manifest.  The value root covers
\* the table and its length, here the table and the length themselves.
Canonical(m) ==
  /\ Len(m.entries) \in MinChunks..MaxChunks
  /\ \A i \in 1..Len(m.entries) - 1 : Len(m.entries[i]) = ChunkBytes
  /\ Len(m.entries[Len(m.entries)]) \in 1..ChunkBytes
  /\ m.logicalLen = Len(FlattenSeq(m.entries))
  /\ m.root = <<m.logicalLen, m.entries>>

-----------------------------------------------------------------------------
PipeInit ==
  /\ buffer = <<>> /\ total = 0 /\ entries = <<>> /\ inFlight = Empty /\ objects = {}
  /\ error = FALSE /\ wpc = "open" /\ manifest = Absent
  /\ start = 0 /\ end = 0 /\ position = 0 /\ nextFetch = 0 /\ lastFetch = 0
  /\ fetches = Empty /\ ready = {} /\ current = Absent /\ ordinal = 0
  /\ room = 0 /\ yielded = <<>> /\ rpc = "none" /\ failed = FALSE

\* poll_write of n more bytes, once fewer than MaxInFlight uploads are out: as many
\* as fit before that many are out again; every full buffer becomes an upload.
Accept(n, out) ==
  LET fits  == Lesser(n, (MaxInFlight - Cardinality(DOMAIN out)) * ChunkBytes - Len(buffer))
      bytes == buffer \o SubSeq(Source, total + 1, total + fits)
      full  == Len(bytes) \div ChunkBytes
      cut   == [i \in 1..full |-> SubSeq(bytes, (i - 1) * ChunkBytes + 1, i * ChunkBytes)]
      fresh == Len(entries)..Len(entries) + full - 1
  IN /\ buffer' = SubSeq(bytes, full * ChunkBytes + 1, Len(bytes))
     /\ total' = total + fits
     /\ entries' = entries \o cut
     /\ inFlight' = [o \in DOMAIN out \cup fresh |-> IF o \in fresh THEN "sent" ELSE out[o]]

\* A full window gives up one finished upload or the poll is pending.  An error,
\* like a value that would be too large, is remembered.
PollWrite(n) ==
  /\ wpc = "open" /\ ~ error
  /\ total + n <= Len(Source)
  /\ \/ /\ total + n > MaxLogical
        /\ error' = TRUE
        /\ UNCHANGED <<buffer, total, entries, inFlight>>
     \/ /\ total + n <= MaxLogical /\ Cardinality(DOMAIN inFlight) < MaxInFlight
        /\ Accept(n, inFlight)
        /\ UNCHANGED error
     \/ /\ total + n <= MaxLogical /\ Cardinality(DOMAIN inFlight) >= MaxInFlight
        /\ \/ \E o \in In(inFlight, "ok") : Accept(n, Taken(inFlight, o)) /\ UNCHANGED error
           \/ \E o \in In(inFlight, "err") :
                /\ inFlight' = Taken(inFlight, o)
                /\ error' = TRUE
                /\ UNCHANGED <<buffer, total, entries>>
  /\ UNCHANGED <<objects, wpc, manifest, reader>>

\* poll_flush takes what has finished; it is done when nothing is out.
PollFlush ==
  /\ wpc = "open" /\ ~ error
  /\ \E o \in DOMAIN inFlight :
       /\ inFlight[o] # "sent"
       /\ inFlight' = Taken(inFlight, o)
       /\ error' = (inFlight[o] = "err")
  /\ UNCHANGED <<buffer, total, entries, objects, wpc, manifest, reader>>

\* put_chunk: the object is there, by this PUT, a lost one, or an identical
\* contender's, or the future fails.
UploadEnds(o) ==
  /\ inFlight[o] = "sent"
  /\ \/ /\ objects' = objects \cup {entries[o + 1]}
        /\ inFlight' = [inFlight EXCEPT ![o] = "ok"]
     \/ /\ objects' \in {objects, objects \cup {entries[o + 1]}}
        /\ inFlight' = [inFlight EXCEPT ![o] = "err"]
  /\ UNCHANGED <<buffer, total, entries, error, wpc, manifest, reader>>

Seal ==
  /\ wpc = "open"
  /\ wpc' = IF error THEN "failed" ELSE "sealing"
  /\ UNCHANGED <<buffer, total, entries, inFlight, objects, error, manifest, reader>>

\* drain_uploads.
Drain(o) ==
  /\ wpc = "sealing"
  /\ inFlight[o] # "sent"
  /\ inFlight' = Taken(inFlight, o)
  /\ wpc' = IF inFlight[o] = "err" THEN "failed" ELSE "sealing"
  /\ UNCHANGED <<buffer, total, entries, objects, error, manifest, reader>>

\* The writer gives up and its uploads are dropped.
SealEnds(m) ==
  /\ manifest' = m
  /\ wpc' = IF m = Absent THEN "failed" ELSE "sealed"

\* Mutant: the uploads that are out are not waited for.
SealTailEarly ==
  /\ wpc = "sealing"
  /\ entries' = IF buffer = <<>> THEN entries ELSE Append(entries, buffer)
  /\ buffer' = <<>>
  /\ objects' = IF buffer = <<>> THEN objects ELSE objects \cup {buffer}
  /\ SealEnds(IF Len(entries') \in MinChunks..MaxChunks
              THEN [logicalLen |-> total, entries |-> entries', root |-> <<total, entries'>>]
              ELSE Absent)
  /\ UNCHANGED <<total, inFlight, error, reader>>

\* With everything uploaded: the partial chunk, which may fail, and the count.
SealTail ==
  /\ wpc = "sealing" /\ DOMAIN inFlight = {}
  /\ entries' = IF buffer = <<>> THEN entries ELSE Append(entries, buffer)
  /\ buffer' = <<>>
  /\ \/ /\ objects' = IF buffer = <<>> THEN objects ELSE objects \cup {buffer}
        /\ SealEnds(IF Len(entries') \in MinChunks..MaxChunks
                    THEN [logicalLen |-> total, entries |-> entries',
                          root |-> <<total, entries'>>]
                    ELSE Absent)
     \/ buffer # <<>> /\ SealEnds(Absent) /\ UNCHANGED objects
  /\ UNCHANGED <<total, inFlight, error, reader>>

-----------------------------------------------------------------------------
(* open_stream, open_stream_range and ValueReader.                         *)

\* The window must lie in the value; its chunks are those it touches.
OpenStream(from, to) ==
  /\ wpc = "sealed" /\ rpc = "none"
  /\ from <= to /\ to <= manifest.logicalLen
  /\ start' = from /\ end' = to /\ position' = from
  /\ nextFetch' = from \div ChunkBytes
  /\ ordinal' = from \div ChunkBytes
  /\ lastFetch' = IF to = 0 THEN 0
                  ELSE Lesser((to - 1) \div ChunkBytes + 1, Len(manifest.entries))
  /\ rpc' = "idle"
  /\ UNCHANGED <<writer, fetches, ready, current, room, yielded, failed>>

\* The prefetch window is filled.
Prefetched ==
  LET wanted == {o \in nextFetch..lastFetch - 1 :
                   o - nextFetch < MaxInFlight - Cardinality(DOMAIN fetches)}
  IN [o \in DOMAIN fetches \cup wanted |-> IF o \in wanted THEN "sent" ELSE fetches[o]]

\* Mutant: a chunk that is cut short by the caller's buffer is not kept.
YieldDropping(from, left) ==
  LET chunk == manifest.entries[ordinal + 1]
      n     == Lesser(Lesser(Len(chunk) - from, left), end - position)
  IN /\ yielded' = yielded \o SubSeq(chunk, from + 1, from + n)
     /\ position' = position + n
     /\ current' = Absent /\ ordinal' = ordinal + 1
     /\ rpc' = "idle" /\ room' = 0

\* Bytes of the current chunk from an offset, up to the buffer, the chunk and the
\* window; what is left of the chunk is kept.
Yield(from, left) ==
  LET chunk == manifest.entries[ordinal + 1]
      n     == Lesser(Lesser(Len(chunk) - from, left), end - position)
      whole == from + n = Len(chunk)
  IN /\ yielded' = yielded \o SubSeq(chunk, from + 1, from + n)
     /\ position' = position + n
     /\ current' = IF whole THEN Absent ELSE from + n
     /\ ordinal' = IF whole THEN ordinal + 1 ELSE ordinal
     /\ rpc' = "idle" /\ room' = 0

\* poll_read with k bytes of room: the end of the window is the end of the stream;
\* else the prefetch, and what is left of the current chunk.
PollRead(k) ==
  /\ rpc = "idle"
  /\ \/ /\ position >= end
        /\ rpc' = "eof"
        /\ UNCHANGED <<position, nextFetch, fetches, current, ordinal, room, yielded>>
     \/ /\ position < end
        /\ fetches' = Prefetched
        /\ nextFetch' = nextFetch + Cardinality(DOMAIN Prefetched \ DOMAIN fetches)
        /\ \/ current # Absent /\ Yield(current, k)
           \/ /\ current = Absent
              /\ rpc' = "poll" /\ room' = k
              /\ UNCHANGED <<position, current, ordinal, yielded>>
  /\ UNCHANGED <<writer, start, end, lastFetch, ready, failed>>

\* The loop of poll_chunked: the next chunk in order if it is here, else a
\* finished fetch, whichever it is; none finished is Pending, none left is EOF.
PollLoop ==
  /\ rpc = "poll"
  /\ \/ /\ ordinal \in ready
        /\ ready' = ready \ {ordinal}
        /\ Yield(position - ordinal * ChunkBytes, room)
        /\ UNCHANGED <<fetches, failed>>
     \/ /\ ordinal \notin ready
        /\ \/ \E o \in In(fetches, "ok") :
                /\ fetches' = Taken(fetches, o)
                /\ ready' = ready \cup {o}
                /\ UNCHANGED <<rpc, room, failed>>
           \/ \E o \in In(fetches, "err") :
                /\ fetches' = Taken(fetches, o)
                /\ rpc' = "idle" /\ room' = 0 /\ failed' = TRUE
                /\ UNCHANGED ready
           \/ /\ DOMAIN fetches # {} /\ DOMAIN fetches = In(fetches, "sent")
              /\ rpc' = "idle" /\ room' = 0
              /\ UNCHANGED <<fetches, ready, failed>>
           \/ /\ DOMAIN fetches = {}
              /\ rpc' = "eof" /\ room' = 0
              /\ UNCHANGED <<fetches, ready, failed>>
        /\ UNCHANGED <<position, current, ordinal, yielded>>
  /\ UNCHANGED <<writer, start, end, nextFetch, lastFetch>>

\* fetch_chunk: an object is taken only with its very content.
FetchEnds(o) ==
  /\ fetches[o] = "sent"
  /\ \E result \in IF manifest.entries[o + 1] \in objects THEN {"ok", "err"} ELSE {"err"} :
       fetches' = [fetches EXCEPT ![o] = result]
  /\ UNCHANGED <<writer, start, end, position, nextFetch, lastFetch, ready, current, ordinal,
                 room, yielded, rpc, failed>>

Over == wpc = "failed" \/ rpc = "eof"

PipeNext ==
  \/ \E n \in 1..MaxBuf : PollWrite(n)
  \/ PollFlush \/ Seal \/ SealTail
  \/ \E o \in DOMAIN inFlight : UploadEnds(o) \/ Drain(o)
  \/ \E from, to \in 0..Len(Source) : OpenStream(from, to)
  \/ \E k \in 1..MaxBuf : PollRead(k)
  \/ PollLoop
  \/ \E o \in DOMAIN fetches : FetchEnds(o)
  \/ Over /\ UNCHANGED pipeVars

PipeSpec == PipeInit /\ [][PipeNext]_pipeVars

-----------------------------------------------------------------------------
\* A sealed value is a manifest that decode accepts, its chunks joined are what
\* the caller wrote, and every one of them is in the store.
SealedIsWritten ==
  wpc = "sealed" =>
    /\ Canonical(manifest)
    /\ FlattenSeq(manifest.entries) = SubSeq(Source, 1, total)
    /\ \A i \in 1..Len(manifest.entries) : manifest.entries[i] \in objects

\* Whatever order the fetches end in and however the polls are sized, the reader
\* yields the bytes of its window in order, and if no poll failed it ends only at
\* the end of the window.
YieldsTheWindow ==
  rpc # "none" =>
    /\ yielded = SubSeq(Source, start + 1, position)
    /\ position <= end
    /\ rpc = "eof" /\ ~ failed => position = end
=============================================================================
