---------------------------- MODULE BinlogProofs ----------------------------
(***************************************************************************)
(* Proofs about Binlog, for any number of destinations, records, crashes   *)
(* and failures and for all sizes.                                         *)
(***************************************************************************)
EXTENDS Binlog, SequenceTheorems, TLAPS

\* The index file names the writer's file, or the next one while a rotation is
\* under way or after it failed.
IndexOK ==
  /\ index_file \in {EmptyIndex, g_binlog_index, g_binlog_index + 1}
  /\ wpc = "open" => index_file = g_binlog_index + 1

\* While a big record is being written its first part is the end of the file.
PartIsLast ==
  wpc = "direct_rest" =>
    /\ files[g_binlog_index] # <<>>
    /\ files[g_binlog_index][Len(files[g_binlog_index])] = Torn

\* No thread holds sync_thread_lock when the process is gone.
Unlocked == run = "down" => wpc = "idle"

TypeInv == TypeOK /\ IndexOK /\ PartIsLast /\ Unlocked

\* Readers and marks point into files that exist.
PositionOK == \A d \in Dest : binlog_index[d] <= g_binlog_index /\ mark[d].binlog_index <= g_binlog_index

\* A sync thread that handles a record stands before a whole record.
AtRecord ==
  \A d \in Dest : rpc[d] \in {"sync", "ack", "advance", "mark_freq"} =>
    binlog_offset[d] + 1 \in 1 .. Len(File(d)) /\ Current(d) # Torn

\* t is what a write makes of the file s: longer, with the same whole records.
Grown(t, s) ==
  /\ t \in Seq(Nat) /\ Len(t) >= Len(s)
  /\ \A k \in 1 .. Len(s) : s[k] # Torn => t[k] = s[k]

\* A one-element list is a sequence.
LEMMA SingletonSeq == \A x \in Nat : <<x>> \in Seq(Nat)
  OBVIOUS

\* What Append does to a list of records.
LEMMA AppendRecord ==
  \A s \in Seq(Nat), x \in Nat :
    /\ Append(s, x) \in Seq(Nat) /\ Append(s, x) # <<>>
    /\ Append(s, x)[Len(Append(s, x))] = x
  BY AppendProperties

\* Appending to a file makes it grow.
LEMMA ConcatGrows == ASSUME NEW s \in Seq(Nat), NEW u \in Seq(Nat) PROVE Grown(s \o u, s)
  BY ConcatProperties DEF Grown

\* Growing twice is growing.
LEMMA GrownTwice ==
  ASSUME NEW s \in Seq(Nat), NEW t, NEW u, Grown(t, s), Grown(u, t) PROVE Grown(u, s)
<1>1. t \in Seq(Nat) /\ u \in Seq(Nat) /\ Len(t) >= Len(s) /\ Len(u) >= Len(t)
  BY DEF Grown
<1>2. Len(s) \in Nat /\ Len(t) \in Nat /\ Len(u) \in Nat
  BY <1>1, LenProperties
<1>3. ASSUME NEW k \in 1 .. Len(s), s[k] # Torn PROVE u[k] = s[k]
  <2>1. t[k] = s[k]
    BY <1>3 DEF Grown
  <2>2. k \in 1 .. Len(t)
    BY <1>1, <1>2
  <2> QED
    BY <1>3, <2>1, <2>2 DEF Grown
<1> QED
  BY <1>1, <1>2, <1>3 DEF Grown

\* A whole record stays where it is.
LEMMA GrownRecord ==
  ASSUME NEW s \in Seq(Nat), NEW t, Grown(t, s), NEW n \in 1 .. Len(s), s[n] # Torn
  PROVE  n \in 1 .. Len(t) /\ t[n] = s[n]
<1>1. t \in Seq(Nat) /\ Len(t) >= Len(s) /\ t[n] = s[n]
  BY DEF Grown
<1>2. Len(s) \in Nat /\ Len(t) \in Nat
  BY <1>1, LenProperties
<1> QED
  BY <1>1, <1>2

\* The actions that write to the current file.
WritesFile == FlushWrite \/ FlushWriteFails \/ DirectWriteHeader \/ DirectWriteRest

\* A write changes only the current file, and only behind its whole records.
LEMMA WriteGrowsFile ==
  ASSUME TypeInv, WritesFile
  PROVE  \E t : files' = [files EXCEPT ![g_binlog_index] = t] /\ Grown(t, files[g_binlog_index])
<1> DEFINE s == files[g_binlog_index]
<1>1. s \in Seq(Nat) /\ cache \in Seq(Nat) /\ pend \in Nat /\ Torn \in Nat
  BY DEF TypeInv, TypeOK, Torn
<1>2. files = [files EXCEPT ![g_binlog_index] = s] /\ Grown(s, s)
  BY <1>1 DEF Grown, TypeInv, TypeOK
<1>3. ASSUME NEW u \in Seq(Nat) PROVE Grown(s \o u, s)
  BY <1>1, <1>3, ConcatGrows
<1>4. CASE FlushWrite
  <2>1. CASE files' = files
    BY <2>1, <1>2
  <2>2. CASE files' = [files EXCEPT ![g_binlog_index] = s \o cache]
    BY <2>2, <1>1, <1>3
  <2> QED
    BY <1>4, <2>1, <2>2 DEF FlushWrite
<1>5. CASE FlushWriteFails
  <2>1. CASE files' = files
    BY <2>1, <1>2
  <2>2. ASSUME NEW k \in 0 .. Len(cache) - 1, NEW part \in {<<>>, <<Torn>>},
               files' = [files EXCEPT ![g_binlog_index] = s \o SubSeq(cache, 1, k) \o part]
        PROVE  \E t : files' = [files EXCEPT ![g_binlog_index] = t] /\ Grown(t, s)
    <3> DEFINE head == SubSeq(cache, 1, k)
    <3>1. \A i \in 1 .. k : cache[i] \in Nat
      BY <1>1, ElementOfSeq, LenProperties
    <3>2. head \in Seq(Nat)
      BY <1>1, <3>1, LenProperties, SubSeqProperties
    <3>3. part \in Seq(Nat)
      BY <1>1, EmptySeq, SingletonSeq, Zenon
    <3>4. files' = [files EXCEPT ![g_binlog_index] = s \o head \o part]
      BY <2>2
    <3> HIDE DEF head, s
    <3>5. Grown(s \o head, s)
      BY <1>3, <3>2
    <3>6. s \o head \in Seq(Nat)
      BY <3>5 DEF Grown
    <3> DEFINE t == s \o head
    <3> HIDE DEF t
    <3>7. Grown(t \o part, t)
      BY <3>3, <3>6, ConcatGrows DEF t
    <3>8. Grown(t \o part, s)
      BY <1>1, <3>5, <3>7, GrownTwice DEF t
    <3> QED
      BY <3>4, <3>8 DEF t
  <2> QED
    BY <1>5, <2>1, <2>2 DEF FlushWriteFails
<1>6. CASE DirectWriteHeader
  <2>1. Grown(Append(s, Torn), s)
    BY <1>1, AppendProperties DEF Grown
  <2> QED
    BY <1>6, <2>1 DEF DirectWriteHeader
<1>7. CASE DirectWriteRest
  <2>1. s # <<>> /\ s[Len(s)] = Torn
    BY <1>7 DEF DirectWriteRest, TypeInv, PartIsLast
  <2>2. Len(s) \in 1 .. Len(s)
    BY <1>1, <2>1, EmptySeq
  <2>3. Grown([s EXCEPT ![Len(s)] = pend], s)
    BY <1>1, <2>1, <2>2, ExceptSeq DEF Grown
  <2> QED
    BY <1>7, <2>3 DEF DirectWriteRest
<1> QED
  BY <1>4, <1>5, <1>6, <1>7 DEF WritesFile

\* The initial state of sync.c has the declared types.
LEMMA TypeInit == Init => TypeInv
<1> SUFFICES ASSUME Init PROVE TypeInv
  OBVIOUS
<1>1. files \in [0 .. g_binlog_index -> Seq(Nat)] /\ index_file = g_binlog_index /\ g_binlog_index = 0
  BY EmptySeq DEF Init
<1>2. NoFile \in MarkRecord
  BY DEF NoFile, Mark, MarkRecord
<1>3. mark \in [Dest -> MarkRecord] /\ rpc \in [Dest -> ReaderPC]
  BY <1>2 DEF Init, ReaderPC
<1>4. cache \in Seq(Nat) /\ pend \in Nat /\ wpc \in WriterPC
  BY EmptySeq DEF Init, NoRecord, WriterPC
<1>5. IndexOK /\ PartIsLast /\ Unlocked
  BY <1>1 DEF Init, IndexOK, PartIsLast, Unlocked
<1>6. g_binlog_fd \in BOOLEAN /\ miscounted \in BOOLEAN
  BY Zenon DEF Init
<1>7. /\ need_sync_old \in [Dest -> BOOLEAN] /\ sync_old_done \in [Dest -> BOOLEAN]
      /\ skipping \in [Dest -> BOOLEAN] /\ dirty \in [Dest -> BOOLEAN]
  BY DEF Init
<1>8. /\ binlog_index \in [Dest -> Nat] /\ binlog_offset \in [Dest -> Nat]
      /\ until_timestamp \in [Dest -> Nat] /\ unmarked \in [Dest -> Nat]
      /\ applied \in [Dest -> SUBSET Nat]
  BY DEF Init
<1>9. /\ g_binlog_index \in Nat /\ g_binlog_file_size \in Nat /\ wlen \in Nat /\ seq \in Nat
      /\ index_file \in Nat /\ crashes \in Nat /\ faults \in Nat /\ run = "up"
  BY DEF Init
<1> QED
  BY <1>1, <1>3, <1>4, <1>5, <1>6, <1>7, <1>8, <1>9 DEF TypeInv, TypeOK

\* The fields of a mark file.
LEMMA MarkFields ==
  /\ \A m, i, n, done : m = Mark("full", i, n, done) =>
       m.binlog_index = i /\ m.binlog_offset = n /\ m.sync_old_done = done
  /\ Empty.state # "full" /\ Empty.binlog_index = 0
  BY DEF Mark, Empty

\* Where a sync thread goes after it wrote its mark file.
LEMMA AfterMarkPC ==
  \A pc \in MarkPC : /\ AfterMark[pc] \in {"check", "read", "advance", "enoent", "off"}
                     /\ AfterMark[pc] = "advance" => pc = "mark_freq"
<1> SUFFICES ASSUME NEW pc \in MarkPC
             PROVE  /\ AfterMark[pc] \in {"check", "read", "advance", "enoent", "off"}
                    /\ AfterMark[pc] = "advance" => pc = "mark_freq"
  OBVIOUS
<1>1. CASE pc \in {"mark_init", "mark_rotate", "mark_freq"}
  BY <1>1 DEF AfterMark
<1>2. CASE pc \in {"mark_done", "mark_idle", "mark_break"}
  BY <1>2 DEF AfterMark
<1> QED
  BY <1>1, <1>2 DEF MarkPC

\* Every step of a writer preserves the types.
LEMMA TypeWriter == TypeInv /\ (BinlogWrite \/ BinlogSyncFunc \/ Flush) => TypeInv'
<1> SUFFICES ASSUME TypeInv, BinlogWrite \/ BinlogSyncFunc \/ Flush PROVE TypeInv'
  OBVIOUS
<1> USE ConstantsAssumption
    DEF TypeInv, TypeOK, IndexOK, PartIsLast, Unlocked, Running, disk, size, writer, reader, position, joinInfo, rows, world, WriterPC,
        Torn, NoRecord, EmptyIndex
<1>0. WritesFile => files' \in [0 .. g_binlog_index -> Seq(Nat)]
  BY WriteGrowsFile DEF Grown
<1>1. CASE BinlogWrite
  <2>1. cache' \in Seq(Nat) /\ pend' \in Nat /\ seq' \in Nat
    <3>1. seq' = seq + 1 /\ seq' \in Nat /\ cache \in Seq(Nat) /\ pend \in Nat
      BY <1>1 DEF BinlogWrite
    <3>2. cache' \in {cache, Append(cache, seq')} /\ pend' \in {pend, seq'}
      BY <1>1 DEF BinlogWrite
    <3> QED
      BY <3>1, <3>2, AppendRecord, Zenon
  <2>2. /\ Running /\ wpc' \in {"idle", "flush"}
        /\ UNCHANGED <<disk, g_binlog_fd, g_binlog_index, size, wlen, reader, world>>
    BY <1>1 DEF BinlogWrite
  <2> QED
    BY <2>1, <2>2
<1>2. CASE BinlogSyncFunc
  BY <1>2 DEF BinlogSyncFunc
<1>3. CASE FlushWrite
  <2>1. wlen' \in Nat
    BY <1>3, LenProperties DEF FlushWrite
  <2>2. /\ Running /\ wpc' \in {"done", "fsync"}
        /\ UNCHANGED <<index_file, mark, cache, g_binlog_fd, g_binlog_index, size,
                       pend, seq, reader, world>>
    BY <1>3 DEF FlushWrite
  <2> QED
    BY <1>0, <1>3, <2>1, <2>2 DEF WritesFile
<1>4. CASE FlushWriteFails
  <2>1. faults' \in Nat /\ miscounted' \in BOOLEAN
    BY <1>4 DEF FlushWriteFails
  <2>2. /\ Running /\ wpc' = "failed"
        /\ UNCHANGED <<index_file, mark, cache, g_binlog_fd, g_binlog_index, g_binlog_file_size,
                       pend, wlen, seq, reader, run, crashes, applied>>
    BY <1>4 DEF FlushWriteFails
  <2> QED
    BY <1>0, <1>4, <2>1, <2>2 DEF WritesFile
<1>5. CASE Fsync
  BY <1>5 DEF Fsync
<1>6. CASE FsyncFails
  BY <1>6 DEF FsyncFails
<1>7. CASE FlushEnd
  <2>1. cache' \in Seq(Nat) /\ pend' \in Nat
    <3>1. cache' \in {<<>>, <<pend>>} /\ pend' \in {0, pend} /\ pend \in Nat /\ 0 \in Nat
      BY <1>7 DEF FlushEnd
    <3> QED
      BY <3>1, SingletonSeq, EmptySeq, Zenon
  <2>2. /\ Running /\ wpc' \in {"idle", "direct"}
        /\ UNCHANGED <<disk, g_binlog_fd, g_binlog_index, size, wlen, seq, reader,
                       world>>
    BY <1>7 DEF FlushEnd
  <2> QED
    BY <2>1, <2>2
<1>8. CASE IndexTruncate
  BY <1>8 DEF IndexTruncate
<1>9. CASE IndexWrite
  BY <1>9 DEF IndexWrite
<1>10. CASE OpenNextWritableBinlog
  BY <1>10 DEF OpenNextWritableBinlog
<1>11. CASE ResetFileSize
  BY <1>11 DEF ResetFileSize
<1>12. CASE RotateFails
  BY <1>12 DEF RotateFails
<1>13. CASE DirectWriteHeader
  <2>1. files'[g_binlog_index] = Append(files[g_binlog_index], Torn)
    BY <1>13 DEF DirectWriteHeader
  <2>2. PartIsLast'
    <3>1. files[g_binlog_index] \in Seq(Nat) /\ Torn \in Nat /\ g_binlog_index' = g_binlog_index
      BY <1>13 DEF DirectWriteHeader
    <3> DEFINE t == Append(files[g_binlog_index], Torn)
    <3>2. t # <<>> /\ t[Len(t)] = Torn
      BY <3>1, AppendRecord, Zenon
    <3> HIDE DEF t
    <3> QED
      BY <2>1, <3>1, <3>2 DEF t
  <2>3. /\ Running /\ wpc' = "direct_rest"
        /\ UNCHANGED <<index_file, mark, cache, g_binlog_fd, g_binlog_index, size,
                       pend, wlen, seq, reader, world>>
    BY <1>13 DEF DirectWriteHeader
  <2> QED
    BY <1>0, <1>13, <2>2, <2>3 DEF WritesFile
<1>14. CASE DirectWriteRest
  BY <1>0, <1>14 DEF DirectWriteRest, WritesFile
<1>15. CASE DirectWriteFails
  BY <1>15 DEF DirectWriteFails
<1> QED
  BY <1>1, <1>2, <1>3, <1>4, <1>5, <1>6, <1>7, <1>8, <1>9, <1>10, <1>11, <1>12, <1>13, <1>14,
     <1>15 DEF Flush

\* Every step of a sync thread preserves the types.
LEMMA TypeReader == TypeInv /\ PositionOK /\ AtRecord /\ (\E d \in Dest : SyncThread(d)) => TypeInv'
<1> SUFFICES ASSUME TypeInv, PositionOK, AtRecord, NEW d \in Dest, SyncThread(d) PROVE TypeInv'
  OBVIOUS
<1> DEFINE MarkTyped == mark' \in [Dest -> MarkRecord]
           PCTyped == rpc' \in [Dest -> ReaderPC]
<1>a. /\ \A i, o \in Nat, done \in BOOLEAN : Mark("full", i, o, done) \in MarkRecord
      /\ Empty \in MarkRecord
  BY DEF Mark, Empty, MarkRecord
<1>b. \A pc \in ReaderPC : /\ Goto(d, pc) => PCTyped
                           /\ MarkTruncate(d, pc) => PCTyped /\ MarkTyped
  <2> SUFFICES ASSUME NEW pc \in ReaderPC
               PROVE  /\ Goto(d, pc) => PCTyped
                      /\ MarkTruncate(d, pc) => PCTyped /\ MarkTyped
    OBVIOUS
  <2>1. rpc \in [Dest -> ReaderPC] /\ mark \in [Dest -> MarkRecord]
    BY DEF TypeInv, TypeOK
  <2>2. Goto(d, pc) => PCTyped
    BY <2>1 DEF Goto
  <2>3. mark' = [mark EXCEPT ![d] = Empty] => MarkTyped
    BY <1>a, <2>1
  <2> QED
    BY <2>2, <2>3 DEF MarkTruncate
<1>c. UNCHANGED mark => MarkTyped
  BY DEF TypeInv, TypeOK
<1>d. /\ {"off", "check", "check_size", "read", "eof", "sync", "ack", "advance", "enoent"}
           \subseteq ReaderPC
      /\ MarkPC \subseteq ReaderPC
      /\ MarkPC = {"mark_init", "mark_rotate", "mark_freq", "mark_done", "mark_idle", "mark_break"}
  BY DEF ReaderPC, MarkPC
<1>e. Break(d) => PCTyped /\ MarkTyped
  BY <1>b, <1>c, <1>d DEF Break
<1>f. NoMoreData(d) => PCTyped /\ MarkTyped /\ skipping' \in [Dest -> BOOLEAN]
  BY <1>b, <1>c, <1>d DEF NoMoreData, TypeInv, TypeOK
<1>g. binlog_offset[d] + 1 \in Nat /\ binlog_index[d] + 1 \in Nat /\ unmarked[d] + 1 \in Nat
  BY DEF TypeInv, TypeOK
<1> USE DEF TypeInv, TypeOK, IndexOK, PartIsLast, Unlocked, Running,
            disk, size, writer, reader, position, joinInfo, rows, world
<1> HIDE DEF MarkTyped, PCTyped
<1>1. CASE ReaderInit(d)
  <2>1. mark[d].binlog_index \in Nat /\ mark[d].binlog_offset \in Nat /\ mark[d].sync_old_done \in BOOLEAN
    BY DEF MarkRecord
  <2>2. /\ binlog_index' \in [Dest -> Nat] /\ binlog_offset' \in [Dest -> Nat]
        /\ sync_old_done' \in [Dest -> BOOLEAN] /\ skipping' \in [Dest -> BOOLEAN]
        /\ dirty' \in [Dest -> BOOLEAN] /\ unmarked' \in [Dest -> Nat]
    BY <1>1, <2>1 DEF ReaderInit
  <2>3. PCTyped /\ UNCHANGED <<disk, size, writer, need_sync_old, until_timestamp, world>>
    BY <1>1, <1>b, <1>d DEF ReaderInit
  <2> QED
    BY <2>2, <2>3 DEF PCTyped
<1>2. CASE ReaderInitFails(d)
  BY <1>2, <1>a, <1>b, <1>c, <1>d, <1>e, <1>f, <1>g DEF ReaderInitFails, MarkTyped, PCTyped, vars
<1>3. CASE ReaderInitNew(d)
  <2>1. PICK old \in BOOLEAN, until \in 0 .. seq + 1 :
          /\ need_sync_old' = [need_sync_old EXCEPT ![d] = old]
          /\ until_timestamp' = [until_timestamp EXCEPT ![d] = until]
          /\ skipping' = [skipping EXCEPT ![d] = ~old /\ until > 0]
          /\ Goto(d, IF ~old /\ until > 0 THEN "check" ELSE "mark_init")
    BY <1>3 DEF ReaderInitNew
  <2>2. /\ need_sync_old' \in [Dest -> BOOLEAN] /\ until_timestamp' \in [Dest -> Nat]
        /\ skipping' \in [Dest -> BOOLEAN] /\ PCTyped
    BY <2>1, <1>b, <1>d
  <2>3. /\ binlog_index' \in [Dest -> Nat] /\ binlog_offset' \in [Dest -> Nat]
        /\ sync_old_done' \in [Dest -> BOOLEAN]
        /\ dirty' \in [Dest -> BOOLEAN] /\ unmarked' \in [Dest -> Nat]
    BY <1>3 DEF ReaderInitNew
  <2>4. MarkTyped /\ UNCHANGED <<files, index_file, writer, world>>
    BY <1>3, <1>a DEF ReaderInitNew, MarkTyped
  <2> QED
    BY <2>2, <2>3, <2>4 DEF MarkTyped, PCTyped
<1>4. CASE CheckIndex(d)
  BY <1>4, <1>a, <1>b, <1>c, <1>d, <1>e, <1>f, <1>g DEF CheckIndex, MarkTyped, PCTyped
<1>5. CASE CheckSize(d)
  BY <1>5, <1>a, <1>b, <1>c, <1>d, <1>e, <1>f, <1>g DEF CheckSize, MarkTyped, PCTyped
<1>6. CASE ReadRecord(d)
  BY <1>6, <1>a, <1>b, <1>c, <1>d, <1>e, <1>f, <1>g DEF ReadRecord, MarkTyped, PCTyped
<1>7. CASE SkipRecord(d)
  <2>1. PCTyped /\ MarkTyped /\ skipping' \in [Dest -> BOOLEAN]
    BY <1>7, <1>b, <1>c, <1>d, <1>f DEF SkipRecord
  <2>2. /\ binlog_offset' \in [Dest -> Nat]
        /\ UNCHANGED <<files, index_file, writer, binlog_index, need_sync_old, sync_old_done,
                       until_timestamp, rows, world>>
    BY <1>7, <1>g DEF SkipRecord
  <2> QED
    BY <2>1, <2>2 DEF MarkTyped, PCTyped
<1>8. CASE ReadPartial(d)
  BY <1>8, <1>a, <1>b, <1>c, <1>d, <1>e, <1>f, <1>g DEF ReadPartial, MarkTyped, PCTyped
<1>9. CASE ReadInvalid(d)
  BY <1>9, <1>a, <1>b, <1>c, <1>d, <1>e, <1>f, <1>g DEF ReadInvalid, MarkTyped, PCTyped
<1>10. CASE ReadEof(d)
  BY <1>10, <1>a, <1>b, <1>c, <1>d, <1>e, <1>f, <1>g DEF ReadEof, MarkTyped, PCTyped
<1>11. CASE Rotate(d)
  <2>1. PCTyped /\ MarkTyped /\ skipping' \in [Dest -> BOOLEAN]
    BY <1>11, <1>b, <1>c, <1>d, <1>f DEF Rotate
  <2>2. /\ binlog_offset' \in [Dest -> Nat] /\ binlog_index' \in [Dest -> Nat]
        /\ UNCHANGED <<files, index_file, writer, need_sync_old, sync_old_done, until_timestamp,
                       rows, world>>
    <3>1. CASE UNCHANGED position
      BY <1>11, <3>1 DEF Rotate
    <3>2. CASE /\ binlog_index' = [binlog_index EXCEPT ![d] = @ + 1]
               /\ binlog_offset' = [binlog_offset EXCEPT ![d] = 0]
      BY <1>11, <1>g, <3>2 DEF Rotate
    <3> QED
      BY <1>11, <3>1, <3>2 DEF Rotate
  <2> QED
    BY <2>1, <2>2 DEF MarkTyped, PCTyped
<1>12. CASE SyncSkip(d)
  BY <1>12, <1>a, <1>b, <1>c, <1>d, <1>e, <1>f, <1>g DEF SyncSkip, MarkTyped, PCTyped
<1>13. CASE SyncSend(d)
  <2>1. binlog_index[d] \in 0 .. g_binlog_index
    BY DEF PositionOK
  <2>2. binlog_offset[d] + 1 \in 1 .. Len(File(d))
    BY <1>13 DEF SyncSend, AtRecord
  <2>3. Current(d) \in Nat
    BY <2>1, <2>2, ElementOfSeq DEF Current, File
  <2>4. PCTyped /\ UNCHANGED <<disk, size, writer, position, joinInfo, rows, run, crashes, faults>>
    BY <1>13, <1>b, <1>d DEF SyncSend
  <2>5. applied' \in [Dest -> SUBSET Nat]
    BY <1>13, <2>3 DEF SyncSend
  <2> QED
    BY <2>4, <2>5 DEF PCTyped
<1>14. CASE SyncFails(d)
  BY <1>14, <1>a, <1>b, <1>c, <1>d, <1>e, <1>f, <1>g DEF SyncFails, MarkTyped, PCTyped
<1>15. CASE SyncAck(d)
  BY <1>15, <1>a, <1>b, <1>c, <1>d, <1>e, <1>f, <1>g DEF SyncAck, MarkTyped, PCTyped
<1>16. CASE Advance(d)
  BY <1>16, <1>a, <1>b, <1>c, <1>d, <1>e, <1>f, <1>g DEF Advance, MarkTyped, PCTyped
<1>17. CASE ReportSyncDone(d)
  BY <1>17, <1>a, <1>b, <1>c, <1>d, <1>e, <1>f, <1>g DEF ReportSyncDone, MarkTyped, PCTyped
<1>18. CASE Wait(d)
  BY <1>18, <1>a, <1>b, <1>c, <1>d, <1>e, <1>f, <1>g DEF Wait, MarkTyped, PCTyped
<1>19. CASE ConnectionLost(d)
  BY <1>19, <1>a, <1>b, <1>c, <1>d, <1>e, <1>f, <1>g DEF ConnectionLost, MarkTyped, PCTyped
<1>20. CASE MarkWrite(d)
  <2>1. PCTyped
    <3>1. AfterMark[rpc[d]] \in ReaderPC /\ Goto(d, AfterMark[rpc[d]])
      BY <1>20, <1>d, AfterMarkPC DEF MarkWrite
    <3> QED
      BY <1>b, <3>1
  <2>2. MarkTyped
    BY <1>20, <1>a DEF MarkWrite, MarkTyped
  <2>3. /\ dirty' \in [Dest -> BOOLEAN] /\ unmarked' \in [Dest -> Nat]
        /\ UNCHANGED <<files, index_file, writer, position, joinInfo, world>>
    BY <1>20 DEF MarkWrite
  <2> QED
    BY <2>1, <2>2, <2>3 DEF MarkTyped, PCTyped
<1>21. CASE MarkWriteFails(d)
  <2>1. PCTyped /\ MarkTyped
    BY <1>21, <1>b, <1>c, <1>d, <1>e DEF MarkWriteFails
  <2>2. /\ faults' \in Nat /\ run' \in {run, "stopping"}
        /\ UNCHANGED <<files, index_file, writer, position, joinInfo, rows, crashes, applied>>
    BY <1>21 DEF MarkWriteFails
  <2> QED
    BY <2>1, <2>2 DEF MarkTyped, PCTyped
<1> QED
  BY <1>1, <1>2, <1>3, <1>4, <1>5, <1>6, <1>7, <1>8, <1>9, <1>10, <1>11, <1>12, <1>13, <1>14,
     <1>15, <1>16, <1>17, <1>18, <1>19, <1>20, <1>21 DEF SyncThread

\* Stopping, crashing and starting preserve the types: fdht_sync_init finds the
\* file that the index file names, or creates it as the next one.
LEMMA TypeProcess == TypeInv /\ Process => TypeInv'
<1> SUFFICES ASSUME TypeInv, Process PROVE TypeInv'
  OBVIOUS
<1>1. Gone /\ crashes' \in Nat => TypeInv'
  BY EmptySeq DEF Gone, TypeInv, TypeOK, IndexOK, PartIsLast, Unlocked, disk, size, position, joinInfo,
                  WriterPC, ReaderPC, NoRecord
<1>2. CASE Crash
  <2>1. Gone /\ crashes' \in Nat
    BY <1>2 DEF Crash, TypeInv, TypeOK
  <2> QED
    BY <1>1, <2>1
<1>3. CASE Exit
  <2>1. Gone /\ crashes' \in Nat
    BY <1>3 DEF Exit, TypeInv, TypeOK
  <2> QED
    BY <1>1, <2>1
<1> USE DEF TypeInv, TypeOK, IndexOK, PartIsLast, Unlocked, Running, disk, size, writer, reader, position,
            joinInfo, rows, world, WriterPC, ReaderPC, NoRecord, EmptyIndex
<1>4. CASE Terminate
  BY <1>4 DEF Terminate
<1>5. CASE SyncDestroy
  BY <1>5 DEF SyncDestroy
<1>6. CASE SyncInit
  <2>1. index_file \in 0 .. g_binlog_index + 1 /\ g_binlog_index' = index_file
    BY <1>6 DEF SyncInit
  <2>2. <<>> \in Seq(Nat)
    BY EmptySeq
  <2>3. files' \in [0 .. g_binlog_index' -> Seq(Nat)]
    BY <1>6, <2>1, <2>2 DEF SyncInit
  <2>4. g_binlog_file_size' \in Nat
    BY <1>6, <2>1, <2>3, LenProperties DEF SyncInit
  <2>5. wpc = "idle"
    BY <1>6 DEF SyncInit
  <2> QED
    BY <1>6, <2>1, <2>3, <2>4, <2>5 DEF SyncInit
<1>7. CASE SyncInitFails
  BY <1>7 DEF SyncInitFails, vars
<1> QED
  BY <1>2, <1>3, <1>4, <1>5, <1>6, <1>7 DEF Process

\* What a step may do to the files: the current file grows, the older ones stay
\* as they are, new ones come at the end.
FilesKept ==
  /\ g_binlog_index' \in {g_binlog_index, g_binlog_index + 1}
  /\ \A i \in 0 .. g_binlog_index : Grown(files'[i], files[i])
  /\ \A i \in 0 .. g_binlog_index - 1 : files'[i] = files[i]

\* No step of any thread, and no crash or restart, takes a whole record away
\* from a binlog file or moves it.
LEMMA StepKeepsFiles == TypeInv /\ [Next]_vars => FilesKept
<1> SUFFICES ASSUME TypeInv, [Next]_vars PROVE FilesKept
  OBVIOUS
<1>1. files \in [0 .. g_binlog_index -> Seq(Nat)] /\ g_binlog_index \in Nat
  BY DEF TypeInv, TypeOK
<1>2. \A i \in 0 .. g_binlog_index : Grown(files[i], files[i])
  BY <1>1, LenProperties DEF Grown
<1>3. UNCHANGED <<files, g_binlog_index>> => FilesKept
  BY <1>2 DEF FilesKept
<1>4. CASE WritesFile
  <2>1. PICK t : files' = [files EXCEPT ![g_binlog_index] = t] /\ Grown(t, files[g_binlog_index])
    BY <1>4, WriteGrowsFile
  <2>2. UNCHANGED g_binlog_index
    BY <1>4 DEF WritesFile, FlushWrite, FlushWriteFails, DirectWriteHeader, DirectWriteRest
  <2> QED
    BY <1>1, <1>2, <2>1, <2>2 DEF FilesKept
<1>5. CASE OpenNextWritableBinlog
  <2>1. \A i \in 0 .. g_binlog_index : files'[i] = files[i]
    BY <1>1, <1>5 DEF OpenNextWritableBinlog
  <2>2. g_binlog_index' = g_binlog_index + 1
    BY <1>5 DEF OpenNextWritableBinlog
  <2> QED
    BY <1>1, <1>2, <2>1, <2>2 DEF FilesKept
<1>6. CASE SyncInit
  <2>1. \A i \in 0 .. g_binlog_index : files'[i] = files[i]
    BY <1>1, <1>6 DEF SyncInit
  <2>2. g_binlog_index' \in {g_binlog_index, g_binlog_index + 1}
    BY <1>6 DEF SyncInit, TypeInv, IndexOK
  <2> QED
    BY <1>1, <1>2, <2>1, <2>2 DEF FilesKept
<1>7. BinlogWrite \/ BinlogSyncFunc \/ (Flush /\ ~WritesFile /\ ~OpenNextWritableBinlog)
        => UNCHANGED <<files, g_binlog_index>>
  BY DEF BinlogWrite, BinlogSyncFunc, Flush, WritesFile, Fsync, FsyncFails, FlushEnd, IndexTruncate,
         IndexWrite, ResetFileSize, RotateFails, DirectWriteFails, disk
<1>8. Process /\ ~SyncInit => UNCHANGED <<files, g_binlog_index>>
  BY DEF Process, Crash, Terminate, SyncDestroy, Exit, SyncInitFails, Gone, disk, size, writer, vars
<1>9. ASSUME NEW d \in Dest, SyncThread(d) PROVE UNCHANGED <<files, g_binlog_index>>
  BY <1>9 DEF SyncThread, ReaderInit, ReaderInitFails, ReaderInitNew, CheckIndex, CheckSize, ReadRecord,
       SkipRecord, ReadPartial, ReadInvalid, ReadEof, Rotate, SyncSkip, SyncSend, SyncFails, SyncAck,
       Advance, ReportSyncDone, Wait, ConnectionLost, MarkWrite, MarkWriteFails, disk, size, writer, vars
<1>10. UNCHANGED vars => UNCHANGED <<files, g_binlog_index>>
  BY DEF vars, disk, size, writer
<1> QED
  BY <1>3, <1>4, <1>5, <1>6, <1>7, <1>8, <1>9, <1>10 DEF Next

\* What belongs to d stays, except that the sync threads end with the process.
Untouched(d) ==
  /\ mark'[d] = mark[d] /\ applied'[d] = applied[d]
  /\ binlog_index'[d] = binlog_index[d] /\ binlog_offset'[d] = binlog_offset[d]
  /\ need_sync_old'[d] = need_sync_old[d] /\ sync_old_done'[d] = sync_old_done[d]
  /\ until_timestamp'[d] = until_timestamp[d] /\ skipping'[d] = skipping[d]
  /\ (rpc'[d] = rpc[d] /\ dirty'[d] = dirty[d]) \/ rpc'[d] = "off"

\* Only the sync thread of d touches what belongs to d.
LEMMA OthersKeep ==
  ASSUME TypeInv, NEW d \in Dest, [Next]_vars, ~SyncThread(d)
  PROVE  Untouched(d)
<1> USE DEF disk, size, writer, reader, position, joinInfo, rows, world, vars, Untouched
<1>1. CASE BinlogWrite \/ BinlogSyncFunc \/ Flush
  BY <1>1 DEF BinlogWrite, BinlogSyncFunc, Flush, FlushWrite, FlushWriteFails, Fsync, FsyncFails,
       FlushEnd, IndexTruncate, IndexWrite, OpenNextWritableBinlog, ResetFileSize, RotateFails,
       DirectWriteHeader, DirectWriteRest, DirectWriteFails
<1>2. CASE Process
  BY <1>2 DEF Process, Crash, Terminate, SyncDestroy, Exit, SyncInit, SyncInitFails, Gone
<1>3. CASE UNCHANGED vars
  BY <1>3
<1>4. ASSUME NEW e \in Dest \ {d}, SyncThread(e) PROVE Untouched(d)
  <2> USE DEF TypeInv, TypeOK, Goto, MarkTruncate, Break, NoMoreData
  <2>1. ReaderInit(e) \/ ReaderInitFails(e) => Untouched(d)
    BY DEF ReaderInit, ReaderInitFails
  <2>2. ReaderInitNew(e) => Untouched(d)
    BY DEF ReaderInitNew
  <2>3. CheckIndex(e) \/ CheckSize(e) \/ ReadRecord(e) \/ ReadEof(e) => Untouched(d)
    BY DEF CheckIndex, CheckSize, ReadRecord, ReadEof
  <2>4. SkipRecord(e) \/ ReadPartial(e) \/ ReadInvalid(e) => Untouched(d)
    BY DEF SkipRecord, ReadPartial, ReadInvalid
  <2>5. Rotate(e) \/ Advance(e) \/ SyncSkip(e) \/ SyncSend(e) => Untouched(d)
    BY DEF Rotate, Advance, SyncSkip, SyncSend
  <2>6. SyncFails(e) \/ SyncAck(e) \/ ReportSyncDone(e) => Untouched(d)
    BY DEF SyncFails, SyncAck, ReportSyncDone
  <2>7. Wait(e) \/ ConnectionLost(e) \/ MarkWrite(e) \/ MarkWriteFails(e) => Untouched(d)
    BY DEF Wait, ConnectionLost, MarkWrite, MarkWriteFails
  <2> HIDE DEF Untouched
  <2> QED
    BY <1>4, <2>1, <2>2, <2>3, <2>4, <2>5, <2>6, <2>7 DEF SyncThread
<1> HIDE DEF Untouched
<1> QED
  BY <1>1, <1>2, <1>3, <1>4 DEF Next

\* Readers stay inside the files.
PosInv == TypeInv /\ PositionOK /\ AtRecord

\* The file of a reader exists.
LEMMA InFile ==
  ASSUME PosInv, NEW d \in Dest
  PROVE  /\ binlog_index[d] \in 0 .. g_binlog_index /\ mark[d].binlog_index \in 0 .. g_binlog_index
         /\ File(d) \in Seq(Nat)
  BY DEF PosInv, TypeInv, TypeOK, PositionOK, MarkRecord, File

\* A sync thread keeps to the files and to whole records.
LEMMA PositionReader ==
  ASSUME PosInv, NEW d \in Dest, SyncThread(d)
  PROVE  /\ binlog_index'[d] <= g_binlog_index /\ mark'[d].binlog_index <= g_binlog_index
         /\ rpc'[d] \in {"sync", "ack", "advance", "mark_freq"} =>
              /\ UNCHANGED <<binlog_index[d], binlog_offset[d]>>
              /\ binlog_offset[d] + 1 \in 1 .. Len(File(d)) /\ Current(d) # Torn
<1> DEFINE Handling == {"sync", "ack", "advance", "mark_freq"}
           Good == /\ binlog_index'[d] <= g_binlog_index /\ mark'[d].binlog_index <= g_binlog_index
                   /\ rpc'[d] \in Handling =>
                        /\ UNCHANGED <<binlog_index[d], binlog_offset[d]>>
                        /\ binlog_offset[d] + 1 \in 1 .. Len(File(d)) /\ Current(d) # Torn
<1> USE DEF TypeInv, TypeOK, position, disk, vars, reader, writer, Goto, MarkTruncate, Break, NoMoreData,
            Mark, Empty, PosInv
<1>1. /\ binlog_index[d] <= g_binlog_index /\ mark[d].binlog_index <= g_binlog_index
      /\ Empty.binlog_index <= g_binlog_index
  BY DEF PositionOK
<1>2. rpc[d] \in Handling => binlog_offset[d] + 1 \in 1 .. Len(File(d)) /\ Current(d) # Torn
  BY DEF AtRecord
<1>3. Len(File(d)) \in Nat
  BY <1>1, LenProperties DEF File
<1>4. ReaderInit(d) \/ ReaderInitNew(d) => Good
  BY <1>1 DEF ReaderInit, ReaderInitNew
<1>5. ReaderInitFails(d) => Good
  BY <1>1, <1>2 DEF ReaderInitFails
<1>6. CheckIndex(d) \/ CheckSize(d) \/ ReadEof(d) \/ ReadPartial(d) \/ ReadInvalid(d) => Good
  BY <1>1 DEF CheckIndex, CheckSize, ReadEof, ReadPartial, ReadInvalid
<1>7. ReadRecord(d) => Good
  BY <1>1, <1>3 DEF ReadRecord
<1>8. SkipRecord(d) => Good
  BY <1>1 DEF SkipRecord
<1>9. Rotate(d) => Good
  BY <1>1 DEF Rotate
<1>10. SyncSkip(d) \/ SyncSend(d) \/ SyncAck(d) \/ SyncFails(d) => Good
  BY <1>1, <1>2 DEF SyncSkip, SyncSend, SyncAck, SyncFails
<1>11. Advance(d) \/ ReportSyncDone(d) \/ Wait(d) \/ ConnectionLost(d) => Good
  BY <1>1 DEF Advance, ReportSyncDone, Wait, ConnectionLost
<1>12. MarkWrite(d) => Good
  <2> SUFFICES ASSUME MarkWrite(d) PROVE Good
    OBVIOUS
  <2>1. /\ rpc[d] \in MarkPC /\ rpc'[d] = AfterMark[rpc[d]]
        /\ UNCHANGED <<binlog_index, binlog_offset>> /\ mark'[d].binlog_index = binlog_index[d]
    BY DEF MarkWrite
  <2>2. rpc'[d] \in Handling => rpc[d] \in Handling
    BY <2>1, AfterMarkPC
  <2> QED
    BY <1>1, <1>2, <2>1, <2>2
<1>13. MarkWriteFails(d) => Good
  BY <1>1 DEF MarkWriteFails
<1> HIDE DEF Good
<1>14. Good
  BY <1>4, <1>5, <1>6, <1>7, <1>8, <1>9, <1>10, <1>11, <1>12, <1>13 DEF SyncThread
<1> QED
  BY <1>14 DEF Good

\* Every step keeps the readers inside the files.
LEMMA PositionStep == PosInv /\ TypeInv' /\ [Next]_vars => PositionOK' /\ AtRecord'
<1> SUFFICES ASSUME PosInv, TypeInv', [Next]_vars, NEW d \in Dest
             PROVE  /\ (binlog_index[d] <= g_binlog_index)' /\ (mark[d].binlog_index <= g_binlog_index)'
                    /\ (rpc[d] \in {"sync", "ack", "advance", "mark_freq"} =>
                          binlog_offset[d] + 1 \in 1 .. Len(File(d)) /\ Current(d) # Torn)'
  BY DEF PositionOK, AtRecord
<1> DEFINE Handling == {"sync", "ack", "advance", "mark_freq"}
<1>1. FilesKept
  BY StepKeepsFiles DEF PosInv
<1>2. /\ binlog_index'[d] <= g_binlog_index /\ mark'[d].binlog_index <= g_binlog_index
      /\ rpc'[d] \in Handling =>
           /\ UNCHANGED <<binlog_index[d], binlog_offset[d]>>
           /\ binlog_offset[d] + 1 \in 1 .. Len(File(d)) /\ Current(d) # Torn
  <2>1. CASE SyncThread(d)
    BY <2>1, PositionReader
  <2>2. CASE ~SyncThread(d)
    <3>1. Untouched(d)
      BY <2>2, OthersKeep DEF PosInv
    <3> QED
      BY <3>1 DEF PosInv, PositionOK, AtRecord, Untouched
  <2> QED
    BY <2>1, <2>2
<1>3. /\ g_binlog_index \in Nat /\ g_binlog_index' \in Nat /\ g_binlog_index' >= g_binlog_index
      /\ binlog_index[d] \in 0 .. g_binlog_index /\ files[binlog_index[d]] \in Seq(Nat)
      /\ binlog_index'[d] \in Nat /\ mark'[d].binlog_index \in Nat
  <2>1. g_binlog_index \in Nat /\ g_binlog_index' \in Nat /\ g_binlog_index' >= g_binlog_index
    BY <1>1 DEF PosInv, TypeInv, TypeOK, FilesKept
  <2>2. binlog_index[d] \in 0 .. g_binlog_index /\ files[binlog_index[d]] \in Seq(Nat)
    BY InFile DEF File
  <2>3. binlog_index'[d] \in Nat /\ mark'[d] \in MarkRecord
    BY DEF TypeInv, TypeOK
  <2> QED
    BY <2>1, <2>2, <2>3 DEF MarkRecord
<1>4. Grown(files'[binlog_index[d]], files[binlog_index[d]])
  BY <1>1, <1>3 DEF FilesKept
<1>5. ASSUME rpc'[d] \in Handling
      PROVE  binlog_offset'[d] + 1 \in 1 .. Len(files'[binlog_index'[d]])
             /\ files'[binlog_index'[d]][binlog_offset'[d] + 1] # Torn
  <2>1. /\ binlog_offset[d] + 1 \in 1 .. Len(files[binlog_index[d]])
        /\ files[binlog_index[d]][binlog_offset[d] + 1] # Torn
    BY <1>2, <1>5 DEF File, Current
  <2>2. /\ binlog_offset[d] + 1 \in 1 .. Len(files'[binlog_index[d]])
        /\ files'[binlog_index[d]][binlog_offset[d] + 1] # Torn
    <3> DEFINE s == files[binlog_index[d]]
               t == files'[binlog_index[d]]
               n == binlog_offset[d] + 1
    <3>1. Grown(t, s) /\ n \in 1 .. Len(s) /\ s[n] # Torn /\ s \in Seq(Nat)
      BY <1>3, <1>4, <2>1
    <3> HIDE DEF s, t, n
    <3>2. n \in 1 .. Len(t) /\ t[n] # Torn
      BY <3>1, GrownRecord
    <3> QED
      BY <3>2 DEF s, t, n
  <2> QED
    BY <1>2, <1>5, <2>2
<1>6. binlog_index'[d] <= g_binlog_index' /\ mark'[d].binlog_index <= g_binlog_index'
  BY <1>2, <1>3
<1>7. (rpc[d] \in Handling =>
         binlog_offset[d] + 1 \in 1 .. Len(File(d)) /\ Current(d) # Torn)'
  BY <1>5 DEF File, Current
<1> QED
  BY <1>6, <1>7

\* Every step preserves the types and keeps the readers inside the files.
LEMMA PosStep == PosInv /\ [Next]_vars => PosInv'
<1> SUFFICES ASSUME PosInv, [Next]_vars PROVE PosInv'
  OBVIOUS
<1>1. CASE UNCHANGED vars
  BY <1>1 DEF PosInv, PositionOK, AtRecord, File, Current, TypeInv, TypeOK, IndexOK, PartIsLast, Unlocked,
              disk, size, writer, reader, position, joinInfo, rows, world, vars
<1>2. CASE Next
  <2>1. TypeInv'
    BY <1>2, TypeWriter, TypeReader, TypeProcess DEF Next, PosInv
  <2> QED
    BY <2>1, PositionStep DEF PosInv
<1> QED
  BY <1>1, <1>2

\* The initial state of sync.c.
LEMMA PosInit == Init => PosInv
  BY TypeInit DEF Init, PosInv, PositionOK, AtRecord, NoFile, Mark

\* The invariant holds throughout.
LEMMA PosInvariant == Spec => []PosInv
  BY PosInit, PosStep, PTL DEF Spec

\* The state of server/sync.c always has the declared types; in particular the
\* files on disk are exactly those up to g_binlog_index, and every file a
\* rotation or a restart turns to exists.
THEOREM TypeCorrect == Spec => []TypeOK
<1>1. PosInv => TypeOK
  BY DEF PosInv, TypeInv
<1> QED
  BY <1>1, PosInvariant, PTL
=============================================================================
