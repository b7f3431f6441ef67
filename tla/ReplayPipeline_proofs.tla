-------------------------- MODULE ReplayPipeline_proofs --------------------------
(***************************************************************************)
(* Proofs about ReplayPipeline for any number of updates, any symbols and   *)
(* any queue: a replay follows the recording it reads, whatever a failing   *)
(* disk, a crash, a pause or a full queue did to it, and one that ends by   *)
(* itself leaves nothing out.                                               *)
(***************************************************************************)
EXTENDS ReplayPipeline, SequenceTheorems, TLAPS

\* to_record makes a record that leaves room for the terminator.
LEMMA RecordOfUpdate == ASSUME NEW update \in Updates PROVE ToRecord(update) \in Records
<1>1. /\ update.n \in 1..MaxUpdates /\ update.symbol \in Nat
      /\ update = [n |-> update.n, symbol |-> update.symbol]
  BY ReplayAssumption DEF Updates
<1>2. ToRecord(update) = [n |-> update.n,
                          symbol |-> IF update.symbol >= SymbolMaxLen THEN SymbolMaxLen - 1
                                     ELSE update.symbol]
  BY <1>1 DEF ToRecord
<1>3. (IF update.symbol >= SymbolMaxLen THEN SymbolMaxLen - 1 ELSE update.symbol)
         \in 0..(SymbolMaxLen - 1)
  BY <1>1, ReplayAssumption
<1> QED BY <1>1, <1>2, <1>3 DEF Records

\* The chunks of a file, by their part.
LEMMA ChunkTypes == /\ Torn \in Chunks /\ HeaderChunk \in Chunks
                    /\ \A rec \in Records : Payload(rec) \in Chunks
                    /\ Torn # HeaderChunk
                    /\ \A rec : /\ Payload(rec).part = "payload" /\ Payload(rec).rec = rec
                                /\ Payload(rec) # Torn
                    /\ Torn.part # "payload"
BY DEF Torn, HeaderChunk, Payload, Chunks

LEMMA ReplayInit == Init => ReplayInvariant
<1> SUFFICES ASSUME Init PROVE ReplayInvariant
  OBVIOUS
<1> USE ReplayAssumption DEF Init, FIFO!Init
<1>1. TypeOK
  <2>1. /\ updates \in Seq(Updates) /\ Len(updates) = 0 /\ file \in Seq(Chunks)
        /\ queue \in Seq(Records \cup {Garbage}) /\ Len(queue) = 0
        /\ delivered \in Seq(Records \cup {Garbage}) /\ Len(delivered) = 0
    OBVIOUS
  <2>2. /\ Len(updates) <= MaxUpdates /\ intact \in 0..Len(updates)
        /\ flushed \in 0..(Len(file) + 1)
        /\ recordCount \in 0..written /\ written \in 0..Len(updates)
        /\ replayed = Len(delivered) + Len(queue) /\ position \in Nat \ {0}
    BY <2>1
  <2> QED BY <2>1, <2>2, Zenon DEF TypeOK
<1>2. FileFollows /\ PartFollows
  BY DEF FileFollows, PartFollows
<1>3. ReaderFollows
  BY DEF ReaderFollows
<1>4. QueueFollows
  BY DEF QueueFollows
<1>5. EndFollows
  BY DEF EndFollows
<1> QED BY <1>1, <1>2, <1>3, <1>4, <1>5 DEF ReplayInvariant

\* While the file is written the reader stands at its beginning.
LEMMA RecordingKeepsReader ==
    ASSUME ReplayInvariant, mpc = "recording", RecordingUnchanged,
           intact' \in 0..Len(updates'), Len(updates') \in Nat,
           mpc' \in {"recording", "load"}, mpc' = "recording" => recordCount' = 0,
           recordCount' = Len(updates') => intact' = Len(updates')
    PROVE  ReaderFollows' /\ QueueFollows' /\ EndFollows'
<1>1. /\ rpc' = "top" /\ replayed' = 0 /\ position' = 1 /\ finished' = FALSE /\ running'
      /\ running' = running /\ signalled' = signalled
  BY DEF ReplayInvariant, TypeOK, EndFollows, RecordingUnchanged, replayVars
<1>2. Len(queue') = 0 /\ Len(delivered') = 0
  BY DEF ReplayInvariant, TypeOK, EndFollows, RecordingUnchanged
<1>3. ReaderFollows'
  BY <1>1 DEF ReaderFollows
<1>4. QueueFollows'
  BY <1>2 DEF QueueFollows
<1>5. EndFollows'
  BY <1>1 DEF EndFollows
<1> QED BY <1>3, <1>4, <1>5

\* One more update.
LEMMA GivenUpdate ==
    ASSUME ReplayInvariant, NEW symbol \in Lengths, Given(symbol)
    PROVE  LET update == [n |-> Len(updates) + 1, symbol |-> symbol]
           IN /\ mpc = "recording" /\ mpc' = mpc /\ recordCount = 0 /\ recordCount' = 0
              /\ update \in Updates
              /\ updates' \in Seq(Updates) /\ Len(updates') = Len(updates) + 1
              /\ updates'[Len(updates) + 1] = update /\ Len(updates') <= MaxUpdates
              /\ \A i \in 1..Len(updates) : updates'[i] = updates[i]
              /\ \A i \in 1..Len(updates') : updates'[i].n = i
<1> DEFINE update == [n |-> Len(updates) + 1, symbol |-> symbol]
<1>1. /\ mpc = "recording" /\ mpc' = mpc /\ recordCount = 0 /\ recordCount' = 0
      /\ Len(updates) < MaxUpdates /\ updates' = Append(updates, update)
  BY DEF Given, ReplayInvariant, EndFollows
<1>2. updates \in Seq(Updates) /\ Len(updates) \in Nat /\ MaxUpdates \in Nat
  BY ReplayAssumption DEF ReplayInvariant, TypeOK
<1>3. update \in Updates /\ update.n = Len(updates) + 1
  BY <1>1, <1>2, ReplayAssumption DEF Updates
<1> HIDE DEF update
<1>4. /\ updates' \in Seq(Updates) /\ Len(updates') = Len(updates) + 1
      /\ updates'[Len(updates) + 1] = update
      /\ \A i \in 1..Len(updates) : updates'[i] = updates[i]
  BY <1>1, <1>2, <1>3
<1>5. ASSUME NEW i \in 1..Len(updates') PROVE updates'[i].n = i
  <2>1. CASE i \in 1..Len(updates)
    BY <1>4, <2>1 DEF ReplayInvariant, FileFollows
  <2>2. CASE i = Len(updates) + 1
    BY <1>3, <1>4, <2>2
  <2> QED BY <1>2, <1>4, <2>1, <2>2
<1>6. Len(updates') <= MaxUpdates
  BY <1>1, <1>2, <1>4
<1> QED BY <1>1, <1>3, <1>4, <1>5, <1>6 DEF update

\* write() succeeds: both chunks of the record are at the end of the file.
LEMMA WriteKeeps ==
    ASSUME ReplayInvariant, NEW symbol \in Lengths, Write(symbol)
    PROVE  ReplayInvariant'
<1> DEFINE update == [n |-> Len(updates) + 1, symbol |-> symbol]
           rec == ToRecord(update)
<1>1. /\ Given(symbol) /\ RecordingUnchanged
      /\ file' = file \o <<HeaderChunk, Payload(rec)>>
      /\ flushed' \in flushed..(Len(file) + 3)
      /\ written' = written + 1
      /\ intact' = IF intact = Len(updates) THEN intact + 1 ELSE intact
      /\ fileHeader' = fileHeader
  BY DEF Write, Given
<1>2. TypeOK /\ FileFollows /\ PartFollows
  BY DEF ReplayInvariant
<1>3. /\ updates \in Seq(Updates) /\ file \in Seq(Chunks)
      /\ Len(updates) \in Nat /\ Len(file) \in Nat /\ intact \in 0..Len(updates)
      /\ written \in 0..Len(updates) /\ flushed \in 0..(Len(file) + 1)
  BY <1>2 DEF TypeOK
<1>4. /\ mpc = "recording" /\ mpc' = mpc /\ recordCount = 0 /\ recordCount' = 0
      /\ update \in Updates
      /\ updates' \in Seq(Updates) /\ Len(updates') = Len(updates) + 1
      /\ updates'[Len(updates) + 1] = update /\ Len(updates') <= MaxUpdates
      /\ \A i \in 1..Len(updates) : updates'[i] = updates[i]
      /\ \A i \in 1..Len(updates') : updates'[i].n = i
  BY <1>1, GivenUpdate
<1>5. rec \in Records
  BY <1>4, RecordOfUpdate
<1> HIDE DEF update, rec
<1>6. Payload(rec) \in Chunks /\ HeaderChunk \in Chunks
  BY <1>5, ChunkTypes
<1>7. /\ file' \in Seq(Chunks) /\ Len(file') = Len(file) + 2
      /\ file'[Len(file) + 1] = HeaderChunk /\ file'[Len(file) + 2] = Payload(rec)
      /\ \A i \in 1..Len(file) : file'[i] = file[i]
  BY <1>1, <1>3, <1>6
<1>8. /\ intact' \in 0..Len(updates') /\ flushed' \in 0..(Len(file') + 1)
      /\ written' \in 0..Len(updates') /\ recordCount' # Len(updates')
      /\ recordCount' \in 0..written'
  BY <1>1, <1>3, <1>4, <1>7
<1>9. TypeOK'
  BY <1>1, <1>2, <1>4, <1>7, <1>8 DEF TypeOK, RecordingUnchanged, replayVars, processVars
<1>10. 2 * intact <= Len(file)
  BY <1>2 DEF FileFollows
<1>11. /\ intact = Len(updates) <=> written = Len(updates)
       /\ written # Len(updates) => 2 * intact < flushed
       /\ intact = Len(updates) => Len(file) = 2 * intact
  <2>1. /\ written # Len(updates) => intact < Len(updates) /\ 2 * intact < flushed
        /\ written = Len(updates) => intact = Len(updates) /\ Len(file) = 2 * intact
    BY <1>2, <1>4 DEF FileFollows, PartFollows
  <2> QED BY <1>3, <2>1
<1>12. /\ written' = Len(updates') => intact' = Len(updates') /\ Len(file') = 2 * intact'
       /\ written' # Len(updates') => intact' < Len(updates') /\ 2 * intact' < flushed'
  <2>1. Len(updates') = Len(updates) + 1 /\ Len(file') = Len(file) + 2
    BY <1>4, <1>7
  <2>2. CASE intact = Len(updates)
    <3>1. intact' = intact + 1 /\ written' = Len(updates')
      BY <1>1, <1>3, <1>11, <2>1, <2>2
    <3>2. 2 * (intact + 1) = Len(file) + 2
      BY <1>3, <1>11, <2>2
    <3> QED BY <2>1, <2>2, <3>1, <3>2
  <2>3. CASE intact # Len(updates)
    <3>1. intact' = intact /\ written' # Len(updates')
      BY <1>1, <1>3, <1>11, <2>1, <2>3
    <3>2. intact < Len(updates') /\ 2 * intact < flushed'
      BY <1>1, <1>3, <1>11, <2>1, <2>3
    <3> QED BY <3>1, <3>2
  <2> QED BY <2>2, <2>3
<1>13. FileFollows'
  <2>1. ASSUME NEW i \in 1..intact'
        PROVE  /\ file'[2 * i - 1] = HeaderChunk
               /\ file'[2 * i] = Payload(ToRecord(updates'[i]))
    <3>1. CASE i \in 1..intact
      <4>1. 2 * i - 1 \in 1..Len(file) /\ 2 * i \in 1..Len(file) /\ i \in 1..Len(updates)
        BY <1>3, <1>10, <3>1
      <4>2. file[2 * i - 1] = HeaderChunk /\ file[2 * i] = Payload(ToRecord(updates[i]))
        BY <1>2, <3>1 DEF FileFollows
      <4> QED BY <1>4, <1>7, <4>1, <4>2
    <3>2. CASE i \notin 1..intact
      <4>1. i = intact + 1 /\ intact = Len(updates)
        BY <1>1, <1>3, <3>2
      <4>2. 2 * i - 1 = Len(file) + 1 /\ 2 * i = Len(file) + 2 /\ i = Len(updates) + 1
        BY <1>3, <1>11, <4>1
      <4> QED BY <1>4, <1>7, <4>2 DEF rec
    <3> QED BY <3>1, <3>2
  <2>2. 2 * intact' <= Len(file')
    BY <1>1, <1>3, <1>7, <1>10, <1>11
  <2> QED BY <1>4, <1>12, <2>1, <2>2 DEF FileFollows
<1>14. PartFollows'
  BY <1>12 DEF PartFollows
<1>15. ReaderFollows' /\ QueueFollows' /\ EndFollows'
  <2>1. Len(updates') \in Nat /\ mpc' = "recording"
    BY <1>3, <1>4
  <2> QED BY <1>1, <1>4, <1>8, <2>1, RecordingKeepsReader
<1> QED BY <1>9, <1>13, <1>14, <1>15 DEF ReplayInvariant

\* What a cut leaves: the first k chunks, and perhaps a part of the next.
LEMMA CutLeaves ==
    ASSUME TypeOK, NEW chunks \in Seq(Chunks), NEW k \in 0..Len(chunks), Cut(chunks, k)
    PROVE  /\ file' \in Seq(Chunks) /\ Len(file') \in Nat
           /\ \A i \in 1..k : file'[i] = chunks[i]
           /\ \/ Len(file') = k
              \/ Len(file') = k + 1 /\ file'[k + 1] = Torn /\ k < Len(chunks)
           /\ flushed' = Len(file') + 1 /\ flushed' \in 0..(Len(file') + 1)
           /\ k + 1 >= flushed /\ flushed' >= k + 1
           /\ fileHeader' \in BOOLEAN
           /\ \E n \in 0..intact : intact' = n /\ n = Shortest(intact, k \div 2) /\ 2 * n <= k
<1>1. Len(chunks) \in Nat /\ k \in Nat /\ intact \in Nat /\ fileHeader \in BOOLEAN /\ flushed \in Nat
  BY DEF TypeOK
<1> DEFINE prefix == SubSeq(chunks, 1, k)
<1>2. prefix \in Seq(Chunks) /\ Len(prefix) = k /\ Torn \in Chunks
  BY <1>1, ChunkTypes
<1>3. \A i \in 1..k : prefix[i] = chunks[i]
  BY <1>1
<1>4. file' = prefix \/ (k < Len(chunks) /\ file' = Append(prefix, Torn))
  BY DEF Cut
<1> HIDE DEF prefix
<1>5. /\ file' \in Seq(Chunks) /\ Len(file') \in Nat
      /\ \A i \in 1..k : file'[i] = chunks[i]
      /\ \/ Len(file') = k
         \/ Len(file') = k + 1 /\ file'[k + 1] = Torn /\ k < Len(chunks)
  <2>1. CASE file' = prefix
    BY <1>1, <1>2, <1>3, <2>1
  <2>2. CASE k < Len(chunks) /\ file' = Append(prefix, Torn)
    <3>1. /\ file' \in Seq(Chunks) /\ Len(file') = k + 1 /\ file'[k + 1] = Torn
          /\ \A i \in 1..k : file'[i] = prefix[i]
      BY <1>1, <1>2, <2>2
    <3> QED BY <1>1, <1>3, <2>2, <3>1
  <2> QED BY <1>4, <2>1, <2>2
<1>6. flushed' = Len(file') + 1 /\ k + 1 >= flushed
  BY DEF Cut
<1>7. flushed' \in 0..(Len(file') + 1) /\ flushed' >= k + 1
  BY <1>1, <1>5, <1>6
<1>8. fileHeader' \in BOOLEAN
  BY <1>1 DEF Cut
<1>9. intact' = Shortest(intact, k \div 2)
  BY DEF Cut
<1>10. k \div 2 \in Nat /\ 2 * (k \div 2) <= k
  BY <1>1
<1> DEFINE n == Shortest(intact, k \div 2)
<1>11. n \in 0..intact /\ 2 * n <= k
  BY <1>1, <1>10 DEF Shortest
<1> QED BY <1>5, <1>6, <1>7, <1>8, <1>9, <1>11

\* The records before the first one lost are those before the cut, which leaves
\* behind them a part of one if every write() returned true.
LEMMA CutKeepsRecords ==
    ASSUME ReplayInvariant, mpc = "recording", NEW chunks \in Seq(Chunks),
           NEW k \in 0..Len(chunks), Cut(chunks, k), Len(chunks) >= Len(file),
           \A i \in 1..Len(file) : chunks[i] = file[i],
           NEW news, \A i \in 1..Len(updates) : news[i] = updates[i]
    PROVE  /\ 2 * intact' <= Len(file')
           /\ \A i \in 1..intact' : /\ file'[2 * i - 1] = HeaderChunk
                                    /\ file'[2 * i] = Payload(ToRecord(news[i]))
<1>1. TypeOK /\ FileFollows
  BY DEF ReplayInvariant
<1>2. /\ Len(file) \in Nat /\ intact \in 0..Len(updates) /\ Len(updates) \in Nat
      /\ 2 * intact <= Len(file)
  BY <1>1 DEF TypeOK, FileFollows
<1>3. PICK n \in 0..intact : intact' = n /\ 2 * n <= k
  BY <1>1, CutLeaves
<1>4. /\ Len(file') \in Nat /\ Len(file') >= k /\ k \in Nat
      /\ \A i \in 1..k : file'[i] = chunks[i]
  BY <1>1, CutLeaves
<1>5. 2 * n <= Len(file')
  BY <1>2, <1>3, <1>4
<1>6. ASSUME NEW i \in 1..n
      PROVE  file'[2 * i - 1] = HeaderChunk /\ file'[2 * i] = Payload(ToRecord(news[i]))
  <2>1. /\ i \in 1..intact /\ i \in 1..Len(updates)
        /\ 2 * i - 1 \in 1..k /\ 2 * i \in 1..k
        /\ 2 * i - 1 \in 1..Len(file) /\ 2 * i \in 1..Len(file)
    <3>1. 2 * i <= k /\ 2 * i <= Len(file)
      BY <1>2, <1>3, <1>4
    <3> QED BY <1>2, <1>3, <1>4, <3>1
  <2>2. file[2 * i - 1] = HeaderChunk /\ file[2 * i] = Payload(ToRecord(updates[i]))
    BY <1>1, <2>1 DEF FileFollows
  <2> QED BY <1>4, <2>1, <2>2
<1> QED BY <1>3, <1>5, <1>6

\* write() fails, and what the buffer held of earlier records is lost.
LEMMA WriteFailsKeeps ==
    ASSUME ReplayInvariant, WriteFails
    PROVE  ReplayInvariant'
<1> DEFINE symbol == CHOOSE symbol \in Lengths : TRUE
           chunks == file \o <<HeaderChunk, Torn>>
<1>1. symbol \in Lengths
  BY ReplayAssumption
<1>2. Given(symbol) /\ RecordingUnchanged /\ written' = written
  BY DEF WriteFails, Given
<1>3. PICK k \in 0..(Len(file) + 1) : Cut(chunks, k)
  BY DEF WriteFails
<1>4. TypeOK /\ FileFollows
  BY DEF ReplayInvariant
<1>5. /\ file \in Seq(Chunks) /\ Len(updates) \in Nat /\ Len(file) \in Nat
      /\ intact \in 0..Len(updates) /\ written \in 0..Len(updates)
  BY <1>4 DEF TypeOK
<1> HIDE DEF symbol
<1>6. /\ mpc = "recording" /\ mpc' = mpc /\ recordCount = 0 /\ recordCount' = 0
      /\ updates' \in Seq(Updates) /\ Len(updates') = Len(updates) + 1
      /\ Len(updates') <= MaxUpdates
      /\ \A i \in 1..Len(updates) : updates'[i] = updates[i]
      /\ \A i \in 1..Len(updates') : updates'[i].n = i
  BY <1>1, <1>2, GivenUpdate
<1>7. /\ chunks \in Seq(Chunks) /\ Len(chunks) = Len(file) + 2
      /\ \A i \in 1..Len(file) : chunks[i] = file[i]
  BY <1>5, ChunkTypes
<1> HIDE DEF chunks
<1>8. k \in 0..Len(chunks) /\ Len(chunks) >= Len(file)
  BY <1>5, <1>7
<1>9. /\ file' \in Seq(Chunks) /\ flushed' \in 0..(Len(file') + 1) /\ fileHeader' \in BOOLEAN
      /\ flushed' >= k + 1 /\ flushed' = Len(file') + 1 /\ Len(file') \in Nat
      /\ \E n \in 0..intact : intact' = n /\ 2 * n <= k
  BY <1>3, <1>4, <1>7, <1>8, CutLeaves
<1>10. /\ written' # Len(updates') /\ intact' < Len(updates') /\ intact' \in 0..Len(updates')
       /\ 2 * intact' < flushed' /\ recordCount' # Len(updates')
       /\ written' \in 0..Len(updates') /\ recordCount' \in 0..written'
  <2>1. PICK n \in 0..intact : intact' = n /\ 2 * n <= k
    BY <1>9
  <2>2. 2 * n < flushed' /\ n < Len(updates') /\ n \in 0..Len(updates')
    BY <1>3, <1>5, <1>6, <1>9, <2>1
  <2> QED BY <1>2, <1>5, <1>6, <2>1, <2>2
<1>11. TypeOK'
  BY <1>2, <1>4, <1>6, <1>9, <1>10 DEF TypeOK, RecordingUnchanged, replayVars, processVars
<1>12. FileFollows'
  <2>1. /\ 2 * intact' <= Len(file')
        /\ \A i \in 1..intact' : /\ file'[2 * i - 1] = HeaderChunk
                                 /\ file'[2 * i] = Payload(ToRecord(updates'[i]))
    BY <1>3, <1>6, <1>7, <1>8, CutKeepsRecords
  <2> QED BY <1>6, <1>10, <2>1 DEF FileFollows
<1>13. PartFollows'
  BY <1>10 DEF PartFollows
<1>14. ReaderFollows' /\ QueueFollows' /\ EndFollows'
  <2>1. Len(updates') \in Nat /\ mpc' = "recording"
    BY <1>5, <1>6
  <2> QED BY <1>2, <1>6, <1>10, <2>1, RecordingKeepsReader
<1> QED BY <1>11, <1>12, <1>13, <1>14 DEF ReplayInvariant

\* close() succeeds.
LEMMA CloseKeeps == ASSUME ReplayInvariant, CloseRecording PROVE ReplayInvariant'
<1>1. /\ mpc = "recording" /\ mpc' = "load" /\ recordCount' = written /\ RecordingUnchanged
      /\ flushed' = Len(file) + 1
      /\ UNCHANGED <<updates, intact, file, fileHeader, written>>
  BY DEF CloseRecording
<1>2. /\ TypeOK /\ FileFollows /\ PartFollows /\ Len(file) \in Nat /\ Len(updates) \in Nat
      /\ intact \in 0..Len(updates) /\ written \in 0..Len(updates)
  BY DEF ReplayInvariant, TypeOK
<1>3. TypeOK'
  <2>1. flushed' \in 0..(Len(file') + 1) /\ recordCount' \in 0..written'
    BY <1>1, <1>2
  <2> QED BY <1>1, <1>2, <2>1 DEF TypeOK, RecordingUnchanged, replayVars, processVars
<1>4. FileFollows' /\ PartFollows'
  BY <1>1, <1>2 DEF FileFollows, PartFollows
<1>5. written = Len(updates) => intact = Len(updates)
  BY <1>1, <1>2 DEF PartFollows
<1>6. ReaderFollows' /\ QueueFollows' /\ EndFollows'
  BY <1>1, <1>2, <1>5, RecordingKeepsReader
<1> QED BY <1>3, <1>4, <1>6 DEF ReplayInvariant

\* The recording is cut off: a prefix of the chunks is left, the last one torn.
LEMMA CutRecordingKeeps == ASSUME ReplayInvariant, CutRecording PROVE ReplayInvariant'
<1>1. PICK k \in 0..Len(file) : Cut(file, k)
  BY DEF CutRecording
<1>2. /\ mpc = "recording" /\ mpc' = "load" /\ RecordingUnchanged
      /\ UNCHANGED <<updates, recordCount, written>>
  BY DEF CutRecording
<1>3. /\ TypeOK /\ FileFollows /\ PartFollows /\ file \in Seq(Chunks) /\ Len(file) \in Nat
      /\ intact \in 0..Len(updates) /\ Len(updates) \in Nat /\ recordCount = 0
  BY <1>2 DEF ReplayInvariant, TypeOK, EndFollows
<1>4. /\ file' \in Seq(Chunks) /\ flushed' \in 0..(Len(file') + 1) /\ fileHeader' \in BOOLEAN
      /\ \A i \in 1..k : file'[i] = file[i]
      /\ \/ Len(file') = k
         \/ Len(file') = k + 1 /\ file'[k + 1] = Torn /\ k < Len(file)
      /\ \E n \in 0..intact : intact' = n /\ n = Shortest(intact, k \div 2)
  BY <1>1, <1>3, CutLeaves
<1>5. intact' \in 0..Len(updates') /\ Len(updates') \in Nat
  BY <1>2, <1>3, <1>4
<1>6. TypeOK'
  BY <1>2, <1>3, <1>4, <1>5 DEF TypeOK, RecordingUnchanged, replayVars, processVars
<1>7. FileFollows'
  <2>1. /\ 2 * intact' <= Len(file')
        /\ \A i \in 1..intact' : /\ file'[2 * i - 1] = HeaderChunk
                                 /\ file'[2 * i] = Payload(ToRecord(updates[i]))
    BY <1>1, <1>2, <1>3, CutKeepsRecords
  <2>2. written # Len(updates) => intact' < Len(updates)
    BY <1>3, <1>4 DEF FileFollows
  <2> QED BY <1>2, <1>3, <2>1, <2>2 DEF FileFollows
<1>8. PartFollows'
  <2>1. PICK n \in 0..intact : intact' = n /\ n = Shortest(intact, k \div 2)
    BY <1>4
  <2> SUFFICES ASSUME written = Len(updates)
               PROVE  \/ Len(file') = 2 * n
                      \/ Len(file') = 2 * n + 1
                      \/ /\ Len(file') = 2 * n + 2
                         /\ file'[2 * n + 1] = HeaderChunk /\ file'[2 * n + 2] = Torn
    BY <1>2, <2>1 DEF PartFollows
  <2>2. Len(file) = 2 * intact /\ k \in 0..(2 * intact) /\ intact \in Nat
    BY <1>2, <1>3 DEF PartFollows
  <2>3. n = k \div 2
    BY <2>1, <2>2 DEF Shortest
  <2>4. k = 2 * n \/ k = 2 * n + 1
    BY <2>2, <2>3
  <2>5. CASE Len(file') = k
    BY <2>4, <2>5
  <2>6. CASE Len(file') = k + 1 /\ file'[k + 1] = Torn /\ k < Len(file)
    <3>1. CASE k = 2 * n
      BY <2>6, <3>1
    <3>2. CASE k = 2 * n + 1
      <4>1. n + 1 \in 1..intact /\ 2 * (n + 1) - 1 = k /\ k \in 1..k /\ k + 1 = 2 * n + 2
        BY <2>2, <2>6, <3>2
      <4>2. file[k] = HeaderChunk
        BY <1>3, <4>1 DEF FileFollows
      <4>3. file'[k] = HeaderChunk
        BY <1>4, <4>1, <4>2
      <4> QED BY <2>6, <3>2, <4>1, <4>3
    <3> QED BY <2>4, <3>1, <3>2
  <2> QED BY <1>4, <2>5, <2>6
<1>9. recordCount' = Len(updates') => intact' = Len(updates')
  BY <1>2, <1>3, <1>4
<1> QED BY <1>2, <1>5, <1>6, <1>7, <1>8, <1>9, RecordingKeepsReader DEF ReplayInvariant

\* Once the file is written only the replay, the queue and the flags change.
LEMMA ReplayKeepsFile ==
    ASSUME ReplayInvariant, mpc # "recording", mpc' # "recording", UNCHANGED recordingVars
    PROVE  FileFollows' /\ PartFollows'
BY DEF ReplayInvariant, FileFollows, PartFollows, recordingVars

\* Behind the n-th record stands the next one, if it is before the first one lost.
LEMMA NextRecord ==
    ASSUME ReplayInvariant, NEW n \in Nat, n < intact, position = 2 * n + 1
    PROVE  RecordAhead /\ file[position + 1] = Payload(ToRecord(updates[n + 1]))
<1>1. /\ n + 1 \in 1..intact /\ Len(file) \in Nat /\ intact \in Nat /\ 2 * intact <= Len(file)
      /\ 2 * (n + 1) - 1 = position /\ 2 * (n + 1) = position + 1
  BY DEF ReplayInvariant, TypeOK, FileFollows
<1>2. file[position] = HeaderChunk /\ file[position + 1] = Payload(ToRecord(updates[n + 1]))
  BY <1>1 DEF ReplayInvariant, FileFollows
<1>3. position + 1 <= Len(file)
  BY <1>1
<1> QED BY <1>2, <1>3, ChunkTypes DEF RecordAhead

\* Behind the last whole record nothing can be read, if every write() returned true.
LEMMA NothingAhead ==
    ASSUME ReplayInvariant, written = Len(updates), position = 2 * intact + 1
    PROVE  /\ ~RecordAhead
           /\ ~(Misaligned /\ position + (IF file[position] = HeaderChunk THEN 2 ELSE 1) <= Len(file))
<1>1. /\ Len(file) \in Nat /\ intact \in Nat
      /\ \/ Len(file) = 2 * intact
         \/ Len(file) = 2 * intact + 1
         \/ /\ Len(file) = 2 * intact + 2
            /\ file[2 * intact + 1] = HeaderChunk /\ file[2 * intact + 2] = Torn
  BY DEF ReplayInvariant, TypeOK, PartFollows
<1>2. CASE Len(file) \in {2 * intact, 2 * intact + 1}
  BY <1>1, <1>2 DEF RecordAhead, Misaligned
<1>3. CASE /\ Len(file) = 2 * intact + 2
           /\ file[2 * intact + 1] = HeaderChunk /\ file[2 * intact + 2] = Torn
  <2>1. position + 1 = 2 * intact + 2
    BY <1>1
  <2>2. ~RecordAhead
    BY <1>3, <2>1, ChunkTypes DEF RecordAhead
  <2> QED BY <1>1, <1>3, <2>2
<1> QED BY <1>1, <1>2, <1>3

\* The replay thread reads a record, or bytes beyond a missing chunk.
LEMMA ReadNextKeeps == ASSUME ReplayInvariant, ReadNext PROVE ReplayInvariant'
<1>1. /\ rpc = "read" /\ rpc' = "push" /\ mpc # "recording" /\ mpc' = mpc
      /\ UNCHANGED <<finished, replayed, queue, delivered, recordingVars, running, paused,
                     processVars, signalled>>
  BY DEF ReadNext, ReplayUnchanged, Started
<1>2. \/ /\ RecordAhead
         /\ record' = file[position + 1].rec
         /\ position' = position + 2
      \/ /\ Misaligned
         /\ position + (IF file[position] = HeaderChunk THEN 2 ELSE 1) <= Len(file)
         /\ record' = Garbage
         /\ position' \in (position + 1)..(Len(file) + 1)
  BY DEF ReadNext
<1>3. /\ TypeOK /\ ReaderFollows /\ ~finished
      /\ position \in Nat \ {0} /\ Len(file) \in Nat /\ file \in Seq(Chunks)
      /\ replayed \in Nat /\ intact \in Nat /\ intact <= Len(updates) /\ Len(updates) \in Nat
  BY <1>1 DEF ReplayInvariant, TypeOK, ReaderFollows
<1>4. position' \in Nat \ {0}
  BY <1>2, <1>3
<1>5. record' \in Records \cup {Garbage}
  <2>1. CASE RecordAhead /\ record' = file[position + 1].rec
    <3>1. file[position + 1] \in Chunks /\ file[position + 1].part = "payload"
      BY <1>3, <2>1 DEF RecordAhead
    <3> QED BY <2>1, <3>1 DEF Chunks
  <2> QED BY <1>2, <2>1
<1>6. TypeOK'
  BY <1>1, <1>3, <1>4, <1>5 DEF TypeOK, recordingVars, processVars
<1>7. FileFollows' /\ PartFollows'
  BY <1>1, ReplayKeepsFile
<1>8. ASSUME replayed < intact
      PROVE  position' = 2 * replayed + 3 /\ record' = ToRecord(updates[replayed + 1])
  <2>1. position = 2 * replayed + 1
    BY <1>1, <1>3, <1>8 DEF ReaderFollows
  <2>2. RecordAhead /\ file[position + 1] = Payload(ToRecord(updates[replayed + 1]))
    BY <1>3, <1>8, <2>1, NextRecord
  <2>3. position' = position + 2 /\ record' = ToRecord(updates[replayed + 1])
    BY <1>2, <2>2, ChunkTypes DEF Misaligned
  <2> QED BY <1>3, <2>1, <2>3
<1>9. written = Len(updates) => replayed < intact
  <2> SUFFICES ASSUME written = Len(updates), ~(replayed < intact) PROVE FALSE
    OBVIOUS
  <2>1. replayed = intact /\ position = 2 * intact + 1
    BY <1>1, <1>3 DEF ReaderFollows
  <2> QED BY <1>2, <2>1, NothingAhead
<1>10. ReaderFollows'
  BY <1>1, <1>3, <1>8, <1>9 DEF ReaderFollows, recordingVars
<1>11. QueueFollows'
  BY <1>1 DEF ReplayInvariant, QueueFollows, recordingVars
<1>12. EndFollows'
  BY <1>1 DEF ReplayInvariant, EndFollows, recordingVars
<1> QED BY <1>6, <1>7, <1>10, <1>11, <1>12 DEF ReplayInvariant

\* The replay thread reaches the end of what it can read.
LEMMA ReadEndKeeps == ASSUME ReplayInvariant, ReadEnd PROVE ReplayInvariant'
<1>1. /\ rpc = "read" /\ rpc' = "exited" /\ mpc # "recording" /\ mpc' = mpc /\ finished' = TRUE
      /\ ~RecordAhead
      /\ UNCHANGED <<replayed, position, record, queue, delivered, recordingVars, running,
                     paused, processVars, signalled>>
  BY DEF ReadEnd, ReplayUnchanged, Started
<1>2. TypeOK'
  BY <1>1 DEF ReplayInvariant, TypeOK, recordingVars, processVars
<1>3. FileFollows' /\ PartFollows'
  BY <1>1, ReplayKeepsFile
<1>4. ~RecordAhead'
  BY <1>1 DEF RecordAhead, recordingVars
<1>5. ReaderFollows'
  BY <1>1, <1>4 DEF ReplayInvariant, ReaderFollows, recordingVars
<1>6. QueueFollows'
  BY <1>1 DEF ReplayInvariant, QueueFollows, recordingVars
<1>7. EndFollows'
  BY <1>1 DEF ReplayInvariant, EndFollows, recordingVars
<1> QED BY <1>2, <1>3, <1>5, <1>6, <1>7 DEF ReplayInvariant

\* The replay thread pushes the record it read.
LEMMA ReplayPushKeeps == ASSUME ReplayInvariant, ReplayPush PROVE ReplayInvariant'
<1>1. /\ rpc = "push" /\ rpc' = "top" /\ mpc # "recording" /\ mpc' = mpc
      /\ queue' = Append(queue, record) /\ replayed' = replayed + 1
      /\ UNCHANGED <<finished, position, record, delivered, recordingVars, running,
                     paused, processVars, signalled>>
  BY DEF ReplayPush, FIFO!Push, ReplayUnchanged, Started
<1>2. /\ TypeOK /\ ReaderFollows /\ QueueFollows /\ EndFollows /\ ~finished
      /\ queue \in Seq(Records \cup {Garbage}) /\ record \in Records \cup {Garbage}
      /\ Len(queue) \in Nat /\ Len(delivered) \in Nat /\ replayed = Len(delivered) + Len(queue)
      /\ intact \in Nat /\ Len(updates) \in Nat
  BY <1>1 DEF ReplayInvariant, TypeOK, ReaderFollows
<1>3. /\ queue' \in Seq(Records \cup {Garbage}) /\ Len(queue') = Len(queue) + 1
      /\ queue'[Len(queue) + 1] = record
      /\ \A i \in 1..Len(queue) : queue'[i] = queue[i]
  BY <1>1, <1>2
<1>4. TypeOK'
  <2>1. replayed' = Len(delivered') + Len(queue')
    BY <1>1, <1>2, <1>3
  <2> QED BY <1>1, <1>2, <1>3, <2>1 DEF TypeOK, recordingVars, processVars
<1>5. FileFollows' /\ PartFollows'
  BY <1>1, ReplayKeepsFile
<1>6. ReaderFollows'
  <2>1. replayed + 1 <= intact => position = 2 * (replayed + 1) + 1
    BY <1>1, <1>2 DEF ReaderFollows
  <2> QED BY <1>1, <1>2, <2>1 DEF ReaderFollows, recordingVars
<1>7. QueueFollows'
  <2>1. ASSUME NEW i \in 1..Len(queue'), Len(delivered) + i <= intact
        PROVE  queue'[i] = ToRecord(updates[Len(delivered) + i])
    <3>1. CASE i \in 1..Len(queue)
      BY <1>2, <1>3, <2>1, <3>1 DEF QueueFollows
    <3>2. CASE i \notin 1..Len(queue)
      <4>1. i = Len(queue) + 1 /\ Len(delivered) + i = replayed + 1
        BY <1>2, <1>3, <3>2
      <4>2. record = ToRecord(updates[replayed + 1])
        BY <1>1, <1>2, <2>1, <4>1 DEF ReaderFollows
      <4> QED BY <1>3, <4>1, <4>2
    <3> QED BY <3>1, <3>2
  <2> QED BY <1>1, <1>2, <2>1 DEF QueueFollows, recordingVars
<1>8. EndFollows'
  BY <1>1, <1>2 DEF EndFollows, recordingVars
<1> QED BY <1>4, <1>5, <1>6, <1>7, <1>8 DEF ReplayInvariant

\* The processing thread pops a record.
LEMMA PopKeeps == ASSUME ReplayInvariant, ProcessPop PROVE ReplayInvariant'
<1>1. /\ mpc # "recording" /\ mpc' = mpc /\ ppc' \in {"pop", "check"}
      /\ queue # <<>> /\ queue' = Tail(queue) /\ delivered' = Append(delivered, Head(queue))
      /\ UNCHANGED <<recordingVars, replayVars, running, paused, draining, signalled>>
  BY DEF ProcessPop, FIFO!Pop, Started
<1>2. /\ TypeOK /\ ReaderFollows /\ QueueFollows /\ EndFollows
      /\ queue \in Seq(Records \cup {Garbage}) /\ delivered \in Seq(Records \cup {Garbage})
      /\ Len(queue) \in Nat /\ Len(delivered) \in Nat /\ replayed = Len(delivered) + Len(queue)
  BY DEF ReplayInvariant, TypeOK
<1>3. /\ queue' \in Seq(Records \cup {Garbage}) /\ Len(queue') = Len(queue) - 1
      /\ \A i \in 1..Len(queue') : queue'[i] = queue[i + 1]
      /\ Len(queue) > 0 /\ Head(queue) = queue[1] /\ Head(queue) \in Records \cup {Garbage}
  BY <1>1, <1>2
<1>4. /\ delivered' \in Seq(Records \cup {Garbage}) /\ Len(delivered') = Len(delivered) + 1
      /\ delivered'[Len(delivered) + 1] = queue[1]
      /\ \A i \in 1..Len(delivered) : delivered'[i] = delivered[i]
  BY <1>1, <1>2, <1>3
<1>5. TypeOK'
  <2>1. replayed = Len(delivered') + Len(queue')
    BY <1>2, <1>3, <1>4
  <2> QED BY <1>1, <1>2, <1>3, <1>4, <2>1 DEF TypeOK, recordingVars, replayVars
<1>6. FileFollows' /\ PartFollows'
  BY <1>1, ReplayKeepsFile
<1>7. ReaderFollows'
  BY <1>1, <1>2 DEF ReaderFollows, RecordAhead, recordingVars, replayVars
<1>8. QueueFollows'
  <2>1. intact' = intact /\ updates' = updates /\ intact \in Nat
    BY <1>1, <1>2 DEF recordingVars, TypeOK
  <2>2. ASSUME NEW i \in 1..Len(delivered'), i <= intact
        PROVE  delivered'[i] = ToRecord(updates[i])
    <3>1. CASE i \in 1..Len(delivered)
      BY <1>2, <1>4, <2>2, <3>1 DEF QueueFollows
    <3>2. CASE i \notin 1..Len(delivered)
      <4>1. i = Len(delivered) + 1 /\ 1 \in 1..Len(queue)
        BY <1>2, <1>3, <1>4, <3>2
      <4> QED BY <1>2, <1>4, <2>2, <4>1 DEF QueueFollows
    <3> QED BY <3>1, <3>2
  <2>3. ASSUME NEW i \in 1..Len(queue'), Len(delivered') + i <= intact
        PROVE  queue'[i] = ToRecord(updates[Len(delivered') + i])
    <3>1. i + 1 \in 1..Len(queue) /\ Len(delivered) + (i + 1) = Len(delivered') + i
      BY <1>2, <1>3, <1>4
    <3> QED BY <1>2, <1>3, <2>3, <3>1 DEF QueueFollows
  <2> QED BY <2>1, <2>2, <2>3 DEF QueueFollows
<1>9. EndFollows'
  <2>1. running \/ signalled
    BY <1>1, <1>2 DEF EndFollows
  <2> QED BY <1>1, <1>2, <2>1 DEF EndFollows, recordingVars, replayVars
<1> QED BY <1>5, <1>6, <1>7, <1>8, <1>9 DEF ReplayInvariant

\* The other steps of the replay thread move it on or end it early.
LEMMA ReplayMoveKeeps ==
    ASSUME ReplayInvariant, ReplayTop \/ ReplayBackpressure PROVE ReplayInvariant'
<1>1. /\ mpc # "recording" /\ mpc' = mpc
      /\ \/ rpc = "top" /\ rpc' \in {"read", "exited"}
         \/ rpc = "push" /\ rpc' = "exited"
      /\ UNCHANGED <<finished, replayed, position, record, queue, delivered, recordingVars,
                     running, paused, processVars, signalled>>
  BY DEF ReplayTop, ReplayBackpressure, ReplayUnchanged, Started
<1>2. TypeOK'
  BY <1>1 DEF ReplayInvariant, TypeOK, recordingVars, processVars
<1>3. FileFollows' /\ PartFollows'
  BY <1>1, ReplayKeepsFile
<1>4. ReaderFollows'
  BY <1>1 DEF ReplayInvariant, ReaderFollows, recordingVars
<1>5. QueueFollows'
  BY <1>1 DEF ReplayInvariant, QueueFollows, recordingVars
<1>6. EndFollows'
  BY <1>1 DEF ReplayInvariant, EndFollows, recordingVars
<1> QED BY <1>2, <1>3, <1>4, <1>5, <1>6 DEF ReplayInvariant

\* The other steps of the processing thread, of the clients, the signal handler
\* and the main thread.
LEMMA OthersKeep ==
    ASSUME ReplayInvariant,
           \/ ProcessCheck \/ ProcessEmpty \/ Command \/ Signal \/ Main \/ Terminated
           \/ UNCHANGED vars
    PROVE  ReplayInvariant'
<1>1. /\ UNCHANGED <<recordingVars, replayVars, queue, delivered>>
      /\ paused' \in BOOLEAN /\ draining' \in BOOLEAN /\ running' \in BOOLEAN
      /\ signalled' \in BOOLEAN
      /\ ppc' \in {"check", "pop", "exited"}
  BY DEF ReplayInvariant, TypeOK, ProcessCheck, ProcessEmpty, Command, Signal, Main, Load,
         MainFinish, MainLeave, MainJoin, Terminated, vars, processVars
<1>2. /\ \/ mpc' = mpc /\ running' = running /\ signalled' = signalled
         \/ /\ mpc = "load" /\ mpc' = (IF fileHeader THEN "status" ELSE "done")
            /\ running' = running /\ signalled' = signalled
         \/ mpc = "status" /\ mpc' = mpc /\ running' = FALSE /\ signalled' = TRUE
         \/ /\ mpc = "status" /\ mpc' = mpc /\ running' = FALSE /\ signalled' = signalled
            /\ finished /\ queue = <<>>
         \/ /\ mpc = "status" /\ ~running /\ mpc' = "joinReplay" /\ running' = running
            /\ signalled' = signalled
         \/ /\ mpc \in {"joinReplay", "joinProcessor"} /\ mpc' \in {"joinProcessor", "done"}
            /\ running' = running /\ signalled' = signalled
  BY DEF ReplayInvariant, TypeOK, ProcessCheck, ProcessEmpty, Command, Signal, Main, Load,
         MainFinish, MainLeave, MainJoin, Terminated, vars, processVars
<1>3. mpc' \in {"recording", "load", "status", "joinReplay", "joinProcessor", "done"}
  BY <1>2 DEF ReplayInvariant, TypeOK
<1>4. TypeOK'
  BY <1>1, <1>3 DEF ReplayInvariant, TypeOK, recordingVars, replayVars
<1>5. FileFollows' /\ PartFollows'
  BY <1>1, <1>2 DEF ReplayInvariant, FileFollows, PartFollows, recordingVars
<1>6. ReaderFollows'
  BY <1>1 DEF ReplayInvariant, ReaderFollows, RecordAhead, recordingVars, replayVars
<1>7. QueueFollows'
  BY <1>1 DEF ReplayInvariant, QueueFollows, recordingVars
<1>8. EndFollows'
  BY <1>1, <1>2 DEF ReplayInvariant, EndFollows, recordingVars, replayVars
<1> QED BY <1>4, <1>5, <1>6, <1>7, <1>8 DEF ReplayInvariant

LEMMA ReplayStep == ReplayInvariant /\ [Next]_vars => ReplayInvariant'
BY WriteKeeps, WriteFailsKeeps, CloseKeeps, CutRecordingKeeps, ReadNextKeeps, ReadEndKeeps,
   ReplayPushKeeps, PopKeeps, ReplayMoveKeeps, OthersKeep, Zenon DEF Next, Replay, Process

\* The inductive invariant of recording and replay, for every disk failure, crash
\* and interleaving of the threads of the replaying process.
THEOREM ReplayInvariantHolds == Spec => []ReplayInvariant
BY ReplayInit, ReplayStep, PTL DEF Spec

\* What to_record keeps of an update.
LEMMA RecordedAs ==
    ASSUME ReplayInvariant, NEW i \in 1..Len(updates) PROVE ToRecord(updates[i]) = Recorded(i)
<1>1. updates[i] \in Updates /\ updates[i].n = i
  BY DEF ReplayInvariant, TypeOK, FileFollows
<1>2. /\ updates[i].symbol \in Nat
      /\ updates[i] = [n |-> i, symbol |-> updates[i].symbol]
  BY <1>1, ReplayAssumption DEF Updates
<1>3. ToRecord(updates[i]) = [n |-> i, symbol |-> IF updates[i].symbol >= SymbolMaxLen
                                                  THEN SymbolMaxLen - 1 ELSE updates[i].symbol]
  BY <1>2 DEF ToRecord
<1>4. (IF updates[i].symbol >= SymbolMaxLen THEN SymbolMaxLen - 1 ELSE updates[i].symbol)
         = Shortest(updates[i].symbol, SymbolMaxLen - 1)
  BY <1>2, ReplayAssumption DEF Shortest
<1> QED BY <1>3, <1>4 DEF Recorded

\* ReplayEngine delivers what DiskLogger recorded, in order, up to the first update
\* the disk lost, and nothing else if every write() returned true.
THEOREM ReplayFollowsHolds == Spec => []ReplayFollowsRecording
<1>1. ReplayInvariant => ReplayFollowsRecording
  <2> SUFFICES ASSUME ReplayInvariant PROVE ReplayFollowsRecording
    OBVIOUS
  <2>1. /\ Len(delivered) \in Nat /\ Len(queue) \in Nat /\ intact \in Nat
        /\ intact <= Len(updates) /\ Len(updates) \in Nat
        /\ replayed = Len(delivered) + Len(queue)
    BY DEF ReplayInvariant, TypeOK
  <2>2. ASSUME NEW i \in 1..Shortest(Len(delivered), intact)
        PROVE  delivered[i] = Recorded(i)
    <3>1. i \in 1..Len(delivered) /\ i <= intact /\ i \in 1..Len(updates)
      BY <2>1 DEF Shortest
    <3>2. delivered[i] = ToRecord(updates[i])
      BY <3>1 DEF ReplayInvariant, QueueFollows
    <3> QED BY <3>1, <3>2, RecordedAs
  <2>3. written = Len(updates) => Len(delivered) <= intact
    BY <2>1 DEF ReplayInvariant, ReaderFollows
  <2> QED BY <2>2, <2>3 DEF ReplayFollowsRecording
<1> QED BY <1>1, ReplayInvariantHolds, PTL

\* A reader that finished has read every record before the first one lost.
LEMMA FinishedReadAll == ASSUME ReplayInvariant, finished PROVE replayed >= intact
<1>1. replayed \in Nat /\ intact \in Nat /\ ~RecordAhead
  BY DEF ReplayInvariant, TypeOK, ReaderFollows
<1> SUFFICES ASSUME replayed < intact PROVE FALSE
  BY <1>1
<1>2. position = 2 * replayed + 1
  BY <1>1 DEF ReplayInvariant, ReaderFollows
<1> QED BY <1>1, <1>2, NextRecord

\* If every write() returned true, those are the records that are whole in the file.
LEMMA IntactAreWhole ==
    ASSUME ReplayInvariant, written = Len(updates), mpc # "recording" PROVE intact = WholeRecords
<1>1. /\ Len(file) \in Nat /\ intact \in Nat /\ file \in Seq(Chunks)
      /\ \/ Len(file) = 2 * intact
         \/ Len(file) = 2 * intact + 1
         \/ /\ Len(file) = 2 * intact + 2
            /\ file[2 * intact + 1] = HeaderChunk /\ file[2 * intact + 2] = Torn
  BY DEF ReplayInvariant, TypeOK, PartFollows
<1>2. CASE Len(file) = 2 * intact
  <2>1. Len(file) \div 2 = intact
    BY <1>1, <1>2
  <2>2. ~(file # <<>> /\ Last(file) = Torn)
    <3>1. CASE intact = 0
      BY <1>1, <1>2, <3>1
    <3>2. CASE intact > 0
      <4>1. intact \in 1..intact /\ Last(file) = file[2 * intact]
        BY <1>1, <1>2, <3>2 DEF Last
      <4>2. file[2 * intact] = Payload(ToRecord(updates[intact]))
        BY <4>1 DEF ReplayInvariant, FileFollows
      <4> QED BY <4>1, <4>2, ChunkTypes
    <3> QED BY <1>1, <3>1, <3>2
  <2> QED BY <1>1, <2>1, <2>2 DEF WholeRecords
<1>3. CASE Len(file) = 2 * intact + 1
  <2>1. Len(file) % 2 = 1 /\ Len(file) \div 2 = intact
    BY <1>1, <1>3
  <2> QED BY <1>1, <2>1 DEF WholeRecords
<1>4. CASE Len(file) = 2 * intact + 2 /\ file[2 * intact + 2] = Torn
  <2>1. file # <<>> /\ Last(file) = Torn
    BY <1>1, <1>4 DEF Last
  <2>2. Len(file) % 2 = 0 /\ Len(file) \div 2 = intact + 1
    BY <1>1, <1>4
  <2> QED BY <1>1, <2>1, <2>2 DEF WholeRecords
<1> QED BY <1>1, <1>2, <1>3, <1>4

\* A replay that ends by itself has processed every record before the first one
\* lost, and every record that is whole in the file if every write() returned true,
\* whatever the record count of its header says.
THEOREM CompleteReplayHolds == Spec => []CompleteReplayDeliversAll
<1>1. ReplayInvariant => CompleteReplayDeliversAll
  <2> SUFFICES ASSUME ReplayInvariant, mpc = "done", fileHeader, ~signalled
               PROVE  /\ Len(delivered) >= intact
                      /\ written = Len(updates) => Len(delivered) = WholeRecords
                      /\ recordCount = Len(updates) => Len(delivered) = Len(updates)
    BY DEF CompleteReplayDeliversAll
  <2>1. finished /\ queue = <<>>
    BY DEF ReplayInvariant, EndFollows
  <2>2. /\ replayed = Len(delivered) /\ Len(delivered) \in Nat /\ intact \in Nat
        /\ written \in 0..Len(updates) /\ recordCount \in 0..written /\ Len(updates) \in Nat
    BY <2>1 DEF ReplayInvariant, TypeOK
  <2>3. Len(delivered) >= intact
    BY <2>1, <2>2, FinishedReadAll
  <2>4. written = Len(updates) => Len(delivered) = intact
    BY <2>2, <2>3 DEF ReplayInvariant, ReaderFollows
  <2>5. recordCount = Len(updates) => Len(delivered) = Len(updates)
    BY <2>2, <2>4 DEF ReplayInvariant, EndFollows
  <2> QED BY <2>3, <2>4, <2>5, IntactAreWhole
<1> QED BY <1>1, ReplayInvariantHolds, PTL
================================================================================
