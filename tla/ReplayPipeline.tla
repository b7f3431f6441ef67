---------------------------- MODULE ReplayPipeline -----------------------------
(***************************************************************************)
(* Recording and replay: the file one process writes with DiskLogger        *)
(* (src/src/output/disk_logger.cpp) and a second process plays back with    *)
(* DiskReader and ReplayEngine (src/src/replay/replay_engine.cpp) through   *)
(* the queue, the processing thread and the main thread.                    *)
(*                                                                          *)
(* A record is two fwrites, a RecordHeader and a DepthRecord: the file is   *)
(* the sequence of these chunks, those that stdio still buffers included.   *)
(* A flush that fails loses what it could not write, also of records whose  *)
(* write() returned true, and later chunks follow behind the missing ones.  *)
(* A chunk of which only a part is there is Torn.  DiskReader knows no      *)
(* chunks, only byte counts, so past a missing chunk it may take any bytes  *)
(* for a record.  An update is its number and the length of its symbol.     *)
(***************************************************************************)
EXTENDS Integers, SequencesExt

CONSTANTS SymbolMaxLen,   \* SYMBOL_MAX_LEN
          Lengths,        \* the symbol lengths that occur
          QueueBound,     \* capacity() of the FeedQueue
          MaxUpdates      \* bound: updates given to write()

ASSUME ReplayAssumption == /\ SymbolMaxLen \in Nat \ {0} /\ Lengths \subseteq Nat /\ Lengths # {}
                           /\ QueueBound \in Nat \ {0} /\ MaxUpdates \in Nat

VARIABLES
    updates,      \* history: the updates given to DiskLogger::write
    intact,       \* history: how many of them before the first one lost or torn
    file,         \* the chunks in the file and in the stdio buffer
    flushed,      \* how many of FileHeader and chunks are certainly in the file
    fileHeader,   \* the FileHeader is not lost
    recordCount,  \* record_count of the FileHeader
    written,      \* record_count_ of the DiskLogger
    running,      \* g_running of the replaying process
    paused, finished, replayed,   \* paused_, finished_, replayed_
    rpc,          \* where the replay thread is
    position,     \* of DiskReader in the file
    record,       \* the record it read last
    queue, delivered,             \* the FeedQueue and everything popped from it
    ppc, draining,                \* the processing thread
    mpc,          \* where the main thread is, from the recording process on
    signalled     \* history: a signal ended the replay

recordingVars == <<updates, intact, file, flushed, fileHeader, recordCount, written>>
replayVars == <<finished, replayed, rpc, position, record>>
processVars == <<ppc, draining>>
vars == <<recordingVars, replayVars, running, paused, queue, delivered, processVars, mpc, signalled>>

Updates == [n : 1..MaxUpdates, symbol : Lengths]
Records == [n : 1..MaxUpdates, symbol : 0..(SymbolMaxLen - 1)]
Chunks == [part : {"torn", "header"}] \cup [part : {"payload"}, rec : Records]
Torn == [part |-> "torn"]
HeaderChunk == [part |-> "header"]
Payload(rec) == [part |-> "payload", rec |-> rec]

\* What a read beyond a missing chunk may return.
Garbage == [n |-> 0, symbol |-> 0]

\* Mutant: the symbol is copied whole.
ToRecordUntruncated(update) == update

\* to_record: a symbol that does not fit is cut.
ToRecord(update) ==
    [update EXCEPT !.symbol = IF @ >= SymbolMaxLen THEN SymbolMaxLen - 1 ELSE @]

Shortest(a, b) == IF a < b THEN a ELSE b

FIFO == INSTANCE BoundedFIFO WITH Items <- Records \cup {Garbage}, Bound <- QueueBound

Init == /\ updates = <<>> /\ intact = 0
        /\ file = <<>> /\ flushed = 0 /\ fileHeader = TRUE /\ recordCount = 0 /\ written = 0
        /\ running = TRUE /\ paused = FALSE
        /\ finished = FALSE /\ replayed = 0 /\ rpc = "top" /\ position = 1 /\ record = Garbage
        /\ FIFO!Init
        /\ ppc = "check" /\ draining = FALSE
        /\ mpc = "recording" /\ signalled = FALSE

--------------------------------------------------------------------------------
(* The recording process: DiskLogger.                                      *)

RecordingUnchanged == UNCHANGED <<replayVars, running, paused, queue, delivered, processVars,
                                  signalled>>

\* An update is given to write().
Given(symbol) ==
    /\ mpc = "recording" /\ Len(updates) < MaxUpdates
    /\ updates' = Append(updates, [n |-> Len(updates) + 1, symbol |-> symbol])
    /\ UNCHANGED <<recordCount, mpc>> /\ RecordingUnchanged

\* Both fwrites succeed.  The buffer may be flushed meanwhile, up to any point.
Write(symbol) ==
    LET rec == ToRecord([n |-> Len(updates) + 1, symbol |-> symbol])
    IN /\ Given(symbol)
       /\ file' = file \o <<HeaderChunk, Payload(rec)>>
       /\ flushed' \in flushed..(Len(file) + 3)
       /\ written' = written + 1
       /\ intact' = IF intact = Len(updates) THEN intact + 1 ELSE intact
       /\ UNCHANGED fileHeader

\* Of the FileHeader and the chunks all that was flushed is in the file, of the
\* rest the first ones and perhaps a part of the next; the buffer is empty then.
Cut(chunks, k) ==
    /\ k + 1 >= flushed
    /\ file' \in {SubSeq(chunks, 1, k)} \cup
                 (IF k < Len(chunks) THEN {Append(SubSeq(chunks, 1, k), Torn)} ELSE {})
    /\ flushed' = Len(file') + 1
    /\ fileHeader' \in IF flushed = 0 /\ k = 0 THEN BOOLEAN ELSE {fileHeader}
    /\ intact' = Shortest(intact, k \div 2)

\* The first or the second fwrite fails in flushing the buffer, or in what it
\* writes past the buffer: the record is not whole, and what the buffer held of
\* earlier ones is lost with it.  Its payload never gets there whole, so any
\* symbol will do.
WriteFails ==
    /\ Given(CHOOSE symbol \in Lengths : TRUE)
    /\ \E k \in 0..(Len(file) + 1) : Cut(file \o <<HeaderChunk, Torn>>, k)
    /\ UNCHANGED written

\* close(): the buffer is flushed and the record count goes into the header.
CloseRecording ==
    /\ mpc = "recording"
    /\ recordCount' = written
    /\ flushed' = Len(file) + 1
    /\ mpc' = "load"
    /\ UNCHANGED <<updates, intact, file, fileHeader, written>> /\ RecordingUnchanged

\* A flush in close() fails, which ignores it, or the process dies with data in
\* the buffer.  The record count in the file stays 0.
CutRecording ==
    /\ mpc = "recording"
    /\ \E k \in 0..Len(file) : Cut(file, k)
    /\ mpc' = "load"
    /\ UNCHANGED <<updates, recordCount, written>> /\ RecordingUnchanged

--------------------------------------------------------------------------------
(* The replaying process.  ReplayEngine::load, then the replay thread.     *)

\* DiskReader::open reads and checks the FileHeader; without it main returns 1.
Load ==
    /\ mpc = "load"
    /\ mpc' = IF fileHeader THEN "status" ELSE "done"
    /\ UNCHANGED <<recordingVars, replayVars, running, paused, queue, delivered, processVars,
                   signalled>>

Started == mpc \notin {"recording", "load"} /\ fileHeader

ReplayUnchanged == UNCHANGED <<recordingVars, running, paused, processVars, mpc, signalled>>

\* Mutant: the pause loop does not look at running.
ReplayTopDeaf ==
    /\ Started /\ rpc = "top" /\ ~paused
    /\ rpc' = IF running THEN "read" ELSE "exited"
    /\ UNCHANGED <<finished, replayed, position, record, queue, delivered>> /\ ReplayUnchanged

\* The tests of running and paused_ at the top of the loop.
ReplayTop ==
    /\ Started /\ rpc = "top" /\ (~paused \/ ~running)
    /\ rpc' = IF running THEN "read" ELSE "exited"
    /\ UNCHANGED <<finished, replayed, position, record, queue, delivered>> /\ ReplayUnchanged

RecordAhead == /\ position + 1 <= Len(file)
               /\ file[position] = HeaderChunk
               /\ file[position + 1].part = "payload"

Misaligned == position <= Len(file) /\ ~RecordAhead

\* read_next succeeds (and from_record); the delay before the push ends.  A read
\* out of step needs as many bytes as a record has: behind a RecordHeader more than
\* one other chunk, behind a payload or a part of one any.
ReadNext ==
    /\ Started /\ rpc = "read"
    /\ \/ /\ RecordAhead
          /\ record' = file[position + 1].rec
          /\ position' = position + 2
       \/ /\ Misaligned
          /\ position + (IF file[position] = HeaderChunk THEN 2 ELSE 1) <= Len(file)
          /\ record' = Garbage
          /\ position' \in (position + 1)..(Len(file) + 1)
    /\ rpc' = "push"
    /\ UNCHANGED <<finished, replayed, queue, delivered>> /\ ReplayUnchanged

\* Mutant: the thread ends without setting finished_.
ReadEndUnmarked ==
    /\ Started /\ rpc = "read" /\ ~RecordAhead
    /\ rpc' = "exited"
    /\ UNCHANGED <<finished, replayed, position, record, queue, delivered>> /\ ReplayUnchanged

\* Mutant: the record count of the file header is taken for the number of records.
ReadEndTrustsHeader ==
    /\ Started /\ rpc = "read" /\ (~RecordAhead \/ replayed >= recordCount)
    /\ finished' = TRUE
    /\ rpc' = "exited"
    /\ UNCHANGED <<replayed, position, record, queue, delivered>> /\ ReplayUnchanged

\* read_next fails: end of file, a cut record, or a payload size that is none.
ReadEnd ==
    /\ Started /\ rpc = "read" /\ ~RecordAhead
    /\ finished' = TRUE
    /\ rpc' = "exited"
    /\ UNCHANGED <<replayed, position, record, queue, delivered>> /\ ReplayUnchanged

\* try_push succeeds.
ReplayPush ==
    /\ Started /\ rpc = "push"
    /\ FIFO!Push(record)
    /\ replayed' = replayed + 1
    /\ rpc' = "top"
    /\ UNCHANGED <<finished, position, record>> /\ ReplayUnchanged

\* Mutant: a full queue drops the record, as it does in the live feed.
ReplayBackpressureDrops ==
    /\ Started /\ rpc = "push" /\ Len(queue) = QueueBound
    /\ rpc' = "top"
    /\ UNCHANGED <<finished, replayed, position, record, queue, delivered>> /\ ReplayUnchanged

\* try_push fails: the loop tries again, unless the process is stopping.
ReplayBackpressure ==
    /\ Started /\ rpc = "push" /\ Len(queue) = QueueBound /\ ~running
    /\ rpc' = "exited"
    /\ UNCHANGED <<finished, replayed, position, record, queue, delivered>> /\ ReplayUnchanged

Replay == ReplayTop \/ ReadNext \/ ReadEnd \/ ReplayPush \/ ReplayBackpressure

--------------------------------------------------------------------------------
(* The processing thread (in full in LivePipeline), the commands of         *)
(* dashboard clients, the signal handler and the main thread.               *)

ProcessCheck ==
    /\ Started /\ ppc = "check"
    /\ ppc' = "pop" /\ draining' = ~running
    /\ UNCHANGED <<recordingVars, replayVars, running, paused, queue, delivered, mpc, signalled>>

ProcessPop ==
    /\ Started /\ ppc = "pop"
    /\ FIFO!Pop
    /\ ppc' = IF draining THEN "pop" ELSE "check"
    /\ UNCHANGED <<recordingVars, replayVars, running, paused, draining, mpc, signalled>>

ProcessEmpty ==
    /\ Started /\ ppc = "pop" /\ queue = <<>>
    /\ ppc' = IF draining THEN "exited" ELSE "check"
    /\ UNCHANGED <<recordingVars, replayVars, running, paused, queue, delivered, draining, mpc,
                   signalled>>

Process == ProcessCheck \/ ProcessPop \/ ProcessEmpty

\* pause() and resume(), called by the detached reader thread of a client.
Command ==
    /\ Started /\ mpc # "done"
    /\ paused' = ~paused
    /\ UNCHANGED <<recordingVars, replayVars, running, queue, delivered, processVars, mpc,
                   signalled>>

Signal ==
    /\ Started /\ running /\ mpc = "status"
    /\ running' = FALSE /\ signalled' = TRUE
    /\ UNCHANGED <<recordingVars, replayVars, paused, queue, delivered, processVars, mpc>>

\* The status loop: is_finished() && queue->empty() ends the process, ...
MainFinish ==
    /\ mpc = "status" /\ running /\ finished /\ queue = <<>>
    /\ running' = FALSE
    /\ UNCHANGED <<recordingVars, replayVars, paused, queue, delivered, processVars, mpc, signalled>>

\* ... and ends itself once running is false.  replay_engine->stop() unpauses
\* and joins, processor.stop() joins.
MainLeave ==
    /\ mpc = "status" /\ ~running
    /\ mpc' = "joinReplay"
    /\ paused' = FALSE
    /\ UNCHANGED <<recordingVars, replayVars, running, queue, delivered, processVars, signalled>>

MainJoin ==
    /\ \/ mpc = "joinReplay" /\ rpc = "exited" /\ mpc' = "joinProcessor"
       \/ mpc = "joinProcessor" /\ ppc = "exited" /\ mpc' = "done"
    /\ UNCHANGED <<recordingVars, replayVars, running, paused, queue, delivered, processVars,
                   signalled>>

Main == Load \/ MainFinish \/ MainLeave \/ MainJoin

Terminated == mpc = "done" /\ UNCHANGED vars

Next == \/ \E symbol \in Lengths : Write(symbol)
        \/ WriteFails \/ CloseRecording \/ CutRecording
        \/ Replay \/ Process \/ Command \/ Signal \/ Main \/ Terminated

Spec == Init /\ [][Next]_vars

\* The threads are scheduled and every sleep ends; a recording is closed in the end,
\* unless that fails or the process dies.
FairSpec == /\ Spec /\ WF_vars(Replay) /\ WF_vars(Process) /\ WF_vars(Main)
            /\ WF_vars(CloseRecording)

--------------------------------------------------------------------------------
\* A symbol on disk leaves room for its terminator, the counts of DiskLogger and
\* ReplayEngine agree with what they wrote and pushed.
TypeOK == /\ updates \in Seq(Updates) /\ Len(updates) <= MaxUpdates /\ intact \in 0..Len(updates)
          /\ file \in Seq(Chunks) /\ flushed \in 0..(Len(file) + 1)
          /\ recordCount \in 0..written /\ written \in 0..Len(updates)
          /\ position \in Nat \ {0} /\ record \in Records \cup {Garbage}
          /\ queue \in Seq(Records \cup {Garbage}) /\ delivered \in Seq(Records \cup {Garbage})
          /\ replayed = Len(delivered) + Len(queue)
          /\ fileHeader \in BOOLEAN /\ running \in BOOLEAN /\ paused \in BOOLEAN
          /\ finished \in BOOLEAN /\ signalled \in BOOLEAN /\ draining \in BOOLEAN
          /\ rpc \in {"top", "read", "push", "exited"} /\ ppc \in {"check", "pop", "exited"}
          /\ mpc \in {"recording", "load", "status", "joinReplay", "joinProcessor", "done"}

\* What a record of an update holds: its symbol as far as it leaves room for the
\* terminator.
Recorded(i) == [n |-> i, symbol |-> Shortest(updates[i].symbol, SymbolMaxLen - 1)]

\* A replay delivers what was recorded, in order, up to the first update the disk
\* lost, with nothing left out in between, and if every write() returned true
\* nothing made up behind it: whether the recording was closed or cut off, and
\* however the replay was paused, held up by a full queue or stopped.
ReplayFollowsRecording ==
    /\ \A i \in 1..Shortest(Len(delivered), intact) : delivered[i] = Recorded(i)
    /\ written = Len(updates) => Len(delivered) <= intact

\* The records that are whole on disk, when every write() returned true.
WholeRecords == Len(file) \div 2 - (IF file # <<>> /\ Len(file) % 2 = 0 /\ Last(file) = Torn THEN 1 ELSE 0)

\* "Replay complete": a replay that ends by itself has processed every record
\* before the first one lost, and if every write() returned true every record that
\* is whole in the file, also one of a recording that was never closed and whose
\* header says it has none.  A header that counts every update vouches for them.
CompleteReplayDeliversAll ==
    (mpc = "done" /\ fileHeader /\ ~signalled) =>
        /\ Len(delivered) >= intact
        /\ written = Len(updates) => Len(delivered) = WholeRecords
        /\ recordCount = Len(updates) => Len(delivered) = Len(updates)

\* The file begins with the two chunks of every update before the first one lost.
\* They cannot be lost any more once a write failed.
FileFollows ==
    /\ \A i \in 1..Len(updates) : updates[i].n = i
    /\ 2 * intact <= Len(file)
    /\ \A i \in 1..intact : /\ file[2 * i - 1] = HeaderChunk
                            /\ file[2 * i] = Payload(ToRecord(updates[i]))
    /\ written # Len(updates) => /\ intact < Len(updates)
                                 /\ mpc = "recording" => 2 * intact < flushed

\* If every write() returned true, only a part of the next record may follow.
PartFollows ==
    written = Len(updates) =>
        /\ mpc = "recording" => intact = Len(updates)
        /\ \/ Len(file) = 2 * intact
           \/ Len(file) = 2 * intact + 1 /\ mpc # "recording"
           \/ /\ Len(file) = 2 * intact + 2 /\ mpc # "recording"
              /\ file[2 * intact + 1] = HeaderChunk /\ file[2 * intact + 2] = Torn

\* The reader is behind the records pushed, and the one about to be pushed, until
\* it has passed the first one lost; it does not end before a whole record.
ReaderFollows ==
    /\ rpc \in {"top", "read"} /\ replayed <= intact => position = 2 * replayed + 1
    /\ rpc = "push" /\ replayed < intact =>
          position = 2 * replayed + 3 /\ record = ToRecord(updates[replayed + 1])
    /\ finished => /\ rpc = "exited" /\ ~RecordAhead
                   /\ replayed <= intact => position = 2 * replayed + 1
    /\ written = Len(updates) => replayed <= intact /\ (rpc = "push" => replayed < intact)

\* What was popped, and what is queued behind it, are the records in order.
QueueFollows ==
    /\ \A i \in 1..Len(delivered) : i <= intact => delivered[i] = ToRecord(updates[i])
    /\ \A i \in 1..Len(queue) :
          Len(delivered) + i <= intact => queue[i] = ToRecord(updates[Len(delivered) + i])

\* Nothing is replayed while recording, a record count in the header comes from
\* write()s that nothing was lost of unless some failed, and without a signal the
\* process stops only when everything was read and popped.
EndFollows ==
    /\ mpc = "recording" => /\ rpc = "top" /\ replayed = 0 /\ position = 1 /\ ~finished
                            /\ running /\ recordCount = 0
    /\ recordCount = Len(updates) => intact = Len(updates)
    /\ ~running /\ ~signalled => finished /\ queue = <<>>
    /\ mpc \in {"joinReplay", "joinProcessor"} \/ (mpc = "done" /\ fileHeader) => ~running

\* The inductive invariant of recording and replay.
ReplayInvariant ==
    TypeOK /\ FileFollows /\ PartFollows /\ ReaderFollows /\ QueueFollows /\ EndFollows

\* A stopped process ends, also when the replay is paused, a client pauses it
\* again during the shutdown, or the queue is full.
StopEndsReplay == ~running ~> (mpc = "done")

\* A replay that is not left paused ends by itself.
PlaybackEnds == <>[](~paused) => <>(mpc = "done")
================================================================================
