------------------------------- MODULE Binlog -------------------------------
(***************************************************************************)
(* The binlog of one server (server/sync.c): worker threads append records *)
(* through a write cache, the cache is flushed to numbered files that      *)
(* rotate, and one sync thread per destination server reads the files,     *)
(* pushes the records and saves its position in a mark file.               *)
(*                                                                         *)
(* A record is the number of its fdht_binlog_write call, which also stands *)
(* for its timestamp.  Every record has length 1, so offsets and sizes     *)
(* count records.  Torn is the partial record a failed or interrupted      *)
(* write leaves behind.                                                    *)
(***************************************************************************)
EXTENDS Integers, Sequences, FiniteSets

CONSTANTS
  Dest,         \* the other servers of the group, one sync thread for each
  Replica,      \* records with op type 's' or 'd' (received from a peer)
  Big,          \* records not shorter than BINLOG_BUFF_SIZE
  Expiring,     \* records whose expires may have passed when they are read
  MaxFileSize,  \* SYNC_BINLOG_FILE_MAX_SIZE
  CacheSize,    \* BINLOG_BUFF_SIZE
  MarkFreq,     \* g_write_mark_file_freq
  Preempt,      \* may a rotation complete between a reader's end of file and
                \* its test of g_binlog_index
  MaxRecords, MaxCrashes, MaxFaults   \* bounds of the exploration

ASSUME ConstantsAssumption ==
  /\ Replica \subseteq Nat /\ Big \subseteq Nat /\ Expiring \subseteq Nat
  /\ MaxFileSize \in Nat \ {0} /\ CacheSize \in Nat \ {0} /\ MarkFreq \in Nat \ {0}
  /\ Preempt \in BOOLEAN
  /\ MaxRecords \in Nat /\ MaxCrashes \in Nat /\ MaxFaults \in Nat

Torn == 0
NoRecord == 0
EmptyIndex == -1      \* binlog.index truncated and not rewritten
Mark(state, index, offset, done) ==
  [state |-> state, binlog_index |-> index, binlog_offset |-> offset, sync_old_done |-> done]
NoFile == Mark("nofile", 0, 0, FALSE)
Empty == Mark("empty", 0, 0, FALSE)   \* a mark file truncated and not rewritten

VARIABLES
  \* on disk
  files,              \* binlog.00000, binlog.00001, ...
  index_file,         \* binlog.index
  mark,               \* mark file of each destination
  \* the writing side, under sync_thread_lock
  cache,              \* binlog_write_cache_buff
  g_binlog_fd,        \* g_binlog_fd >= 0
  g_binlog_index, g_binlog_file_size,
  miscounted,         \* data that was not counted is in the current file
  wpc,                \* where the holder of sync_thread_lock is
  pend,               \* record that waits for the flush to end
  wlen,               \* write_len
  seq,                \* fdht_binlog_write calls so far
  \* the sync thread of each destination (BinLogReader)
  rpc, binlog_index, binlog_offset, need_sync_old, sync_old_done,
  until_timestamp, skipping,
  dirty,              \* last_scan_rows # scan_row_count
  unmarked,           \* sync_row_count - last_sync_rows
  \* the process and the world
  run, crashes, faults,
  applied             \* records each destination has applied

disk == <<files, index_file, mark>>
size == <<g_binlog_file_size, miscounted>>
writer == <<cache, g_binlog_fd, g_binlog_index, size, wpc, pend, wlen, seq>>
position == <<binlog_index, binlog_offset>>
joinInfo == <<need_sync_old, sync_old_done, until_timestamp, skipping>>
rows == <<dirty, unmarked>>
reader == <<rpc, position, joinInfo, rows>>
world == <<run, crashes, faults, applied>>
vars == <<disk, writer, reader, world>>

Running == run \in {"up", "stopping", "closing"}

(***************************************************************************)
(* Writing.                                                                *)
(***************************************************************************)

\* fdht_binlog_write: a record that fits goes to the cache; otherwise the
\* caller keeps the lock and flushes first.
BinlogWrite ==
  /\ run \in {"up", "stopping"} /\ wpc = "idle" /\ seq < MaxRecords
  /\ seq' = seq + 1
  /\ IF seq' \notin Big /\ Len(cache) < CacheSize
       THEN cache' = Append(cache, seq') /\ UNCHANGED <<wpc, pend>>
       ELSE wpc' = "flush" /\ pend' = seq' /\ UNCHANGED cache
  /\ UNCHANGED <<disk, g_binlog_fd, g_binlog_index, size, wlen, reader, world>>

\* fdht_binlog_sync_func, called by the schedule thread.
BinlogSyncFunc ==
  /\ run \in {"up", "stopping"} /\ wpc = "idle" /\ cache # <<>>
  /\ wpc' = "flush"
  /\ UNCHANGED <<disk, cache, g_binlog_fd, g_binlog_index, size, pend, wlen, seq,
                 reader, world>>

\* fdht_binlog_fsync: write the whole cache, nothing when it is empty.
FlushWrite ==
  /\ Running /\ wpc = "flush"
  /\ \/ cache = <<>> /\ wpc' = "done" /\ UNCHANGED <<files, wlen>>
     \/ /\ cache # <<>> /\ g_binlog_fd
        /\ files' = [files EXCEPT ![g_binlog_index] = @ \o cache]
        /\ wlen' = Len(cache)
        /\ wpc' = "fsync"
  /\ UNCHANGED <<index_file, mark, cache, g_binlog_fd, g_binlog_index, size, pend,
                 seq, reader, world>>

\* write() fails or is short: k whole records and possibly a part of the next
\* one reach the file; the size is not advanced.
FlushWriteFails ==
  /\ Running /\ wpc = "flush" /\ cache # <<>>
  /\ wpc' = "failed"
  /\ \/ ~g_binlog_fd /\ UNCHANGED <<files, faults, miscounted>>
     \/ /\ g_binlog_fd /\ faults < MaxFaults /\ faults' = faults + 1
        /\ \E k \in 0 .. Len(cache) - 1, part \in {<<>>, <<Torn>>} :
             /\ files' = [files EXCEPT ![g_binlog_index] = @ \o SubSeq(cache, 1, k) \o part]
             /\ miscounted' = (miscounted \/ k > 0 \/ part # <<>>)
  /\ UNCHANGED <<index_file, mark, cache, g_binlog_fd, g_binlog_index, g_binlog_file_size, pend,
                 wlen, seq, reader, run, crashes, applied>>

\* fsync() succeeds and the size is advanced; a file that reached its maximal
\* size is rotated.
Fsync ==
  /\ Running /\ wpc = "fsync"
  /\ g_binlog_file_size' = g_binlog_file_size + wlen
  /\ wpc' = IF g_binlog_file_size' >= MaxFileSize THEN "rotate" ELSE "done"
  /\ UNCHANGED <<disk, cache, g_binlog_fd, g_binlog_index, miscounted, pend, wlen, seq,
                 reader, world>>

\* fsync() fails: the data is in the file but is not counted.
FsyncFails ==
  /\ Running /\ wpc = "fsync" /\ faults < MaxFaults
  /\ faults' = faults + 1
  /\ miscounted' = TRUE /\ wpc' = "failed"
  /\ UNCHANGED <<disk, cache, g_binlog_fd, g_binlog_index, g_binlog_file_size, pend, wlen, seq,
                 reader, run, crashes, applied>>

\* write_to_binlog_index(g_binlog_index + 1): O_TRUNC, then write.
IndexTruncate ==
  /\ Running /\ wpc = "rotate"
  /\ index_file' = EmptyIndex /\ wpc' = "index"
  /\ UNCHANGED <<files, mark, cache, g_binlog_fd, g_binlog_index, size, pend, wlen,
                 seq, reader, world>>

IndexWrite ==
  /\ Running /\ wpc = "index"
  /\ index_file' = g_binlog_index + 1 /\ wpc' = "open"
  /\ UNCHANGED <<files, mark, cache, g_binlog_fd, g_binlog_index, size, pend, wlen,
                 seq, reader, world>>

\* A rotation that overtakes a sync thread standing between its read() and its
\* test of g_binlog_index: one flush fits between the two statements, no more.
MayOvertake(d) == Preempt /\ Len(files[binlog_index[d]]) <= binlog_offset[d] + CacheSize

\* Mutant: the number goes up and no file is created.
OpenNextWithoutCreate ==
  /\ Running /\ wpc = "open"
  /\ g_binlog_index' = g_binlog_index + 1
  /\ wpc' = "reset"
  /\ UNCHANGED <<disk, cache, g_binlog_fd, size, pend, wlen, seq, reader, world>>

\* open_next_writable_binlog: create the file, then g_binlog_index++.
OpenNextWritableBinlog ==
  /\ Running /\ wpc = "open"
  /\ \A d \in Dest : rpc[d] = "eof" /\ binlog_index[d] = g_binlog_index => MayOvertake(d)
  /\ files' = [i \in DOMAIN files \cup {g_binlog_index + 1} |->
                 IF i = g_binlog_index + 1 THEN <<>> ELSE files[i]]
  /\ g_binlog_index' = g_binlog_index + 1
  /\ wpc' = "reset"
  /\ UNCHANGED <<index_file, mark, cache, g_binlog_fd, size, pend, wlen, seq,
                 reader, world>>

ResetFileSize ==
  /\ Running /\ wpc = "reset"
  /\ g_binlog_file_size' = 0 /\ miscounted' = FALSE /\ wpc' = "done"
  /\ UNCHANGED <<disk, cache, g_binlog_fd, g_binlog_index, pend, wlen, seq, reader, world>>

\* The index file cannot be opened or written, or the next file cannot be
\* opened after the old descriptor was closed: fdht_terminate.
RotateFails ==
  /\ Running /\ wpc \in {"rotate", "index", "open"} /\ faults < MaxFaults
  /\ faults' = faults + 1
  /\ g_binlog_fd' = (wpc # "open")
  /\ g_binlog_file_size' = 0 /\ miscounted' = TRUE /\ wpc' = "failed"
  /\ run' = IF run = "up" THEN "stopping" ELSE run
  /\ UNCHANGED <<disk, cache, g_binlog_index, pend, wlen, seq, reader, crashes, applied>>

\* Mutant: a failed flush keeps the cache for the next one.
FlushEndKeepsCache ==
  /\ Running /\ wpc \in {"done", "failed"}
  /\ wpc' = "idle" /\ pend' = NoRecord
  /\ cache' = (IF wpc = "failed" THEN cache ELSE <<>>)
               \o (IF pend = NoRecord \/ pend \in Big THEN <<>> ELSE <<pend>>)
  /\ UNCHANGED <<disk, g_binlog_fd, g_binlog_index, size, wlen, seq, reader, world>>

\* The end of the flush resets the cache whatever happened.  A short record
\* that waited is cached even after a failure, a big one only after a success
\* and by fdht_binlog_direct_write.
FlushEnd ==
  /\ Running /\ wpc \in {"done", "failed"}
  /\ \/ /\ pend = NoRecord \/ (pend \in Big /\ wpc = "failed")
        /\ wpc' = "idle" /\ cache' = <<>> /\ pend' = NoRecord
     \/ /\ pend # NoRecord /\ pend \notin Big
        /\ wpc' = "idle" /\ cache' = <<pend>> /\ pend' = NoRecord
     \/ /\ pend \in Big /\ pend # NoRecord /\ wpc = "done"
        /\ wpc' = "direct" /\ cache' = <<>> /\ UNCHANGED pend
  /\ UNCHANGED <<disk, g_binlog_fd, g_binlog_index, size, wlen, seq, reader, world>>

\* fdht_binlog_direct_write: header and key, then value and newline.
DirectWriteHeader ==
  /\ Running /\ wpc = "direct" /\ g_binlog_fd
  /\ files' = [files EXCEPT ![g_binlog_index] = Append(@, Torn)]
  /\ wpc' = "direct_rest"
  /\ UNCHANGED <<index_file, mark, cache, g_binlog_fd, g_binlog_index, size, pend,
                 wlen, seq, reader, world>>

DirectWriteRest ==
  /\ Running /\ wpc = "direct_rest"
  /\ files' = [files EXCEPT ![g_binlog_index] = [@ EXCEPT ![Len(@)] = pend]]
  /\ pend' = NoRecord /\ wlen' = 1 /\ wpc' = "fsync"
  /\ UNCHANGED <<index_file, mark, cache, g_binlog_fd, g_binlog_index, size, seq,
                 reader, world>>

DirectWriteFails ==
  /\ Running /\ wpc \in {"direct", "direct_rest"}
  /\ \/ ~g_binlog_fd /\ UNCHANGED faults
     \/ g_binlog_fd /\ faults < MaxFaults /\ faults' = faults + 1
  /\ miscounted' = (miscounted \/ wpc = "direct_rest")
  /\ pend' = NoRecord /\ wpc' = "failed"
  /\ UNCHANGED <<disk, cache, g_binlog_fd, g_binlog_index, g_binlog_file_size, wlen, seq, reader,
                 run, crashes, applied>>

(***************************************************************************)
(* Reading: one sync thread per destination.                               *)
(***************************************************************************)

File(d) == files[binlog_index[d]]
Current(d) == File(d)[binlog_offset[d] + 1]
Goto(d, pc) == rpc' = [rpc EXCEPT ![d] = pc]

MarkPC == {"mark_init", "mark_rotate", "mark_freq", "mark_done", "mark_idle", "mark_break"}

\* fdht_write_to_mark_file: the file is truncated (here), then written
\* (MarkWrite).
MarkTruncate(d, pc) == Goto(d, pc) /\ mark' = [mark EXCEPT ![d] = Empty]

AfterMark == [mark_init |-> "check", mark_rotate |-> "read", mark_freq |-> "advance",
              mark_done |-> "enoent", mark_idle |-> "check", mark_break |-> "off"]

MarkWrite(d) ==
  /\ Running /\ rpc[d] \in MarkPC
  /\ mark' = [mark EXCEPT ![d] =
                Mark("full", binlog_index[d], binlog_offset[d], sync_old_done[d])]
  /\ dirty' = [dirty EXCEPT ![d] = FALSE]
  /\ unmarked' = [unmarked EXCEPT ![d] = 0]
  /\ Goto(d, AfterMark[rpc[d]])
  /\ UNCHANGED <<files, index_file, writer, position, joinInfo, world>>

\* End of the inner loop of fdht_sync_thread_entrance: save the position when
\* rows were scanned since the last mark, close, reconnect.
Break(d) ==
  IF dirty[d] THEN MarkTruncate(d, "mark_break") ELSE Goto(d, "off") /\ UNCHANGED mark

\* The mark file cannot be written.  Failing in fdht_binlog_read or in
\* fdht_reader_init only ends the session, failing elsewhere the program.
MarkWriteFails(d) ==
  /\ Running /\ rpc[d] \in MarkPC /\ faults < MaxFaults
  /\ faults' = faults + 1
  /\ IF rpc[d] \in {"mark_init", "mark_break"} \/ skipping[d]
       THEN Goto(d, "off") /\ UNCHANGED mark
       ELSE Break(d)
  /\ run' = IF run = "up" /\ rpc[d] \notin {"mark_init", "mark_rotate"} THEN "stopping" ELSE run
  /\ UNCHANGED <<files, index_file, writer, position, joinInfo, rows, crashes, applied>>

\* fdht_reader_init with a mark file: resume where it says.
ReaderInit(d) ==
  /\ run = "up" /\ rpc[d] = "off" /\ mark[d].state = "full"
  /\ binlog_index' = [binlog_index EXCEPT ![d] = mark[d].binlog_index]
  /\ binlog_offset' = [binlog_offset EXCEPT ![d] = mark[d].binlog_offset]
  /\ sync_old_done' = [sync_old_done EXCEPT ![d] = mark[d].sync_old_done]
  /\ skipping' = [skipping EXCEPT ![d] = FALSE]
  /\ dirty' = [dirty EXCEPT ![d] = FALSE]
  /\ unmarked' = [unmarked EXCEPT ![d] = 0]
  /\ Goto(d, "check")
  /\ UNCHANGED <<disk, writer, need_sync_old, until_timestamp, world>>

\* A mark file without its seven items is refused, at every attempt.
ReaderInitFails(d) == run = "up" /\ rpc[d] = "off" /\ mark[d].state = "empty" /\ UNCHANGED vars

\* fdht_reader_init without a mark file: the answer to FDHT_PROTO_CMD_SYNC_REQ
\* says whether this server is the one to push old data, and until when; a
\* server that is not gets its answer once the old data is there.  Then the
\* mark file is created, and written after fdht_binlog_reader_skip.
ReaderInitNew(d) ==
  /\ run = "up" /\ rpc[d] = "off" /\ mark[d].state = "nofile"
  /\ \E old \in BOOLEAN, until \in 0 .. seq + 1 :
       /\ old => until > 0
       /\ need_sync_old' = [need_sync_old EXCEPT ![d] = old]
       /\ until_timestamp' = [until_timestamp EXCEPT ![d] = until]
       /\ sync_old_done' = [sync_old_done EXCEPT ![d] = ~old]
       /\ skipping' = [skipping EXCEPT ![d] = ~old /\ until > 0]
       /\ Goto(d, IF ~old /\ until > 0 THEN "check" ELSE "mark_init")
  /\ mark' = [mark EXCEPT ![d] = Empty]
  /\ binlog_index' = [binlog_index EXCEPT ![d] = 0]
  /\ binlog_offset' = [binlog_offset EXCEPT ![d] = 0]
  /\ dirty' = [dirty EXCEPT ![d] = FALSE]
  /\ unmarked' = [unmarked EXCEPT ![d] = 0]
  /\ UNCHANGED <<files, index_file, writer, world>>

\* What the callers of fdht_binlog_read do with ENOENT.
NoMoreData(d) ==
  IF skipping[d]
    THEN MarkTruncate(d, "mark_init") /\ skipping' = [skipping EXCEPT ![d] = FALSE]
    ELSE Goto(d, "enoent") /\ UNCHANGED <<mark, skipping>>

\* Mutant: the reader leaves a file as soon as the writer has left it.
CheckIndexLeaves(d) ==
  /\ Running /\ rpc[d] = "check"
  /\ IF ~skipping[d] /\ run # "up"
       THEN Break(d)
       ELSE /\ Goto(d, IF binlog_index[d] = g_binlog_index THEN "check_size" ELSE "eof")
            /\ UNCHANGED mark
  /\ UNCHANGED <<files, index_file, writer, position, joinInfo, rows, world>>

\* fdht_binlog_read, the test before any read: the two globals are read one
\* after the other and without the lock.
CheckIndex(d) ==
  /\ Running /\ rpc[d] = "check"
  /\ IF ~skipping[d] /\ run # "up"
       THEN Break(d)
       ELSE /\ Goto(d, IF binlog_index[d] = g_binlog_index THEN "check_size" ELSE "read")
            /\ UNCHANGED mark
  /\ UNCHANGED <<files, index_file, writer, position, joinInfo, rows, world>>

\* Once data was not counted, records of any length make the offset and the
\* size differ or agree by chance.
CheckSize(d) ==
  /\ Running /\ rpc[d] = "check_size"
  /\ \E equal \in IF miscounted THEN BOOLEAN ELSE {binlog_offset[d] = g_binlog_file_size} :
       IF equal THEN NoMoreData(d) ELSE Goto(d, "read") /\ UNCHANGED <<mark, skipping>>
  /\ UNCHANGED <<files, index_file, writer, position, need_sync_old, sync_old_done,
                 until_timestamp, rows, world>>

\* read() finds a whole record.
ReadRecord(d) ==
  /\ Running /\ rpc[d] = "read" /\ ~skipping[d]
  /\ binlog_offset[d] < Len(File(d)) /\ Current(d) # Torn
  /\ Goto(d, "sync")
  /\ UNCHANGED <<disk, writer, position, joinInfo, rows, world>>

\* fdht_binlog_reader_skip: drop the record, or rewind and stop at the first
\* one that is not older than the join.
SkipRecord(d) ==
  /\ Running /\ rpc[d] = "read" /\ skipping[d]
  /\ binlog_offset[d] < Len(File(d)) /\ Current(d) # Torn
  /\ IF Current(d) >= until_timestamp[d]
       THEN NoMoreData(d) /\ UNCHANGED binlog_offset
       ELSE /\ binlog_offset' = [binlog_offset EXCEPT ![d] = @ + 1]
            /\ Goto(d, "check") /\ UNCHANGED <<mark, skipping>>
  /\ UNCHANGED <<files, index_file, writer, binlog_index, need_sync_old, sync_old_done,
                 until_timestamp, rows, world>>

\* Mutant: a part of a record at the end of the file is a format error.
ReadPartialInvalid(d) ==
  /\ Running /\ rpc[d] = "read"
  /\ binlog_offset[d] + 1 = Len(File(d)) /\ Current(d) = Torn
  /\ Goto(d, "off") /\ run' = "stopping"
  /\ UNCHANGED <<disk, writer, position, joinInfo, rows, crashes, faults, applied>>

\* read() finds a part of a record at the end of the file: rewind, ENOENT.
ReadPartial(d) ==
  /\ Running /\ rpc[d] = "read"
  /\ binlog_offset[d] + 1 = Len(File(d)) /\ Current(d) = Torn
  /\ NoMoreData(d)
  /\ UNCHANGED <<files, index_file, writer, position, need_sync_old, sync_old_done,
                 until_timestamp, rows, world>>

\* A part of a record with other data behind it fails the format check: EINVAL
\* stops the server, or only the session when fdht_reader_init is skipping.
ReadInvalid(d) ==
  /\ Running /\ rpc[d] = "read"
  /\ binlog_offset[d] + 1 < Len(File(d)) /\ Current(d) = Torn
  /\ IF skipping[d] THEN Goto(d, "off") /\ UNCHANGED mark ELSE Break(d)
  /\ run' = IF run = "up" /\ ~skipping[d] THEN "stopping" ELSE run
  /\ UNCHANGED <<files, index_file, writer, position, joinInfo, rows, crashes, faults, applied>>

ReadEof(d) ==
  /\ Running /\ rpc[d] = "read"
  /\ binlog_offset[d] >= Len(File(d))
  /\ Goto(d, "eof")
  /\ UNCHANGED <<disk, writer, position, joinInfo, rows, world>>

\* Mutant: the reader goes on only when the writer is two files ahead.
RotateLate(d) ==
  /\ Running /\ rpc[d] = "eof"
  /\ IF binlog_index[d] + 1 < g_binlog_index
       THEN /\ binlog_index' = [binlog_index EXCEPT ![d] = @ + 1]
            /\ binlog_offset' = [binlog_offset EXCEPT ![d] = 0]
            /\ MarkTruncate(d, "mark_rotate") /\ UNCHANGED skipping
       ELSE NoMoreData(d) /\ UNCHANGED position
  /\ UNCHANGED <<files, index_file, writer, need_sync_old, sync_old_done, until_timestamp, rows,
                 world>>

\* End of file: go to the next file when the writer has left this one.
Rotate(d) ==
  /\ Running /\ rpc[d] = "eof"
  /\ IF binlog_index[d] < g_binlog_index
       THEN /\ binlog_index' = [binlog_index EXCEPT ![d] = @ + 1]
            /\ binlog_offset' = [binlog_offset EXCEPT ![d] = 0]
            /\ MarkTruncate(d, "mark_rotate") /\ UNCHANGED skipping
       ELSE NoMoreData(d) /\ UNCHANGED position
  /\ UNCHANGED <<files, index_file, writer, need_sync_old, sync_old_done, until_timestamp, rows,
                 world>>

\* fdht_sync_data: a replica record goes only to a destination that gets its
\* old data from this server.
Wanted(d, r) ==
  r \notin Replica \/ (need_sync_old[d] /\ ~sync_old_done[d] /\ r <= until_timestamp[d])

SyncSkip(d) ==
  /\ Running /\ rpc[d] = "sync"
  /\ ~Wanted(d, Current(d)) \/ Current(d) \in Expiring
  /\ Goto(d, "advance")
  /\ UNCHANGED <<disk, writer, position, joinInfo, rows, world>>

\* fdht_sync_set, fdht_sync_del: the destination applies the record.
SyncSend(d) ==
  /\ Running /\ rpc[d] = "sync" /\ Wanted(d, Current(d))
  /\ applied' = [applied EXCEPT ![d] = @ \cup {Current(d)}]
  /\ Goto(d, "ack")
  /\ UNCHANGED <<disk, writer, position, joinInfo, rows, run, crashes, faults>>

\* Mutant: a failed push is passed over like an acknowledged one.
SyncFailsPasses(d) ==
  /\ Running
  /\ rpc[d] = "ack" \/ (rpc[d] = "sync" /\ Wanted(d, Current(d)))
  /\ Goto(d, "advance")
  /\ UNCHANGED <<disk, writer, position, joinInfo, rows, world>>

\* The request does not arrive or is refused, or its answer is lost.
SyncFails(d) ==
  /\ Running
  /\ rpc[d] = "ack" \/ (rpc[d] = "sync" /\ Wanted(d, Current(d)))
  /\ Break(d)
  /\ UNCHANGED <<files, index_file, writer, position, joinInfo, rows, world>>


\* The answer arrives: sync_row_count++, and every MarkFreq rows the mark file
\* is written, with the offset of the record just sent.
SyncAck(d) ==
  /\ Running /\ rpc[d] = "ack"
  /\ unmarked' = [unmarked EXCEPT ![d] = @ + 1]
  /\ IF unmarked[d] + 1 >= MarkFreq
       THEN MarkTruncate(d, "mark_freq")
       ELSE Goto(d, "advance") /\ UNCHANGED mark
  /\ UNCHANGED <<files, index_file, writer, position, joinInfo, dirty, world>>

\* Mutant: scan_row_count is not counted.
AdvanceUncounted(d) ==
  /\ Running /\ rpc[d] = "advance"
  /\ binlog_offset' = [binlog_offset EXCEPT ![d] = @ + 1]
  /\ Goto(d, "check")
  /\ UNCHANGED <<disk, writer, binlog_index, joinInfo, rows, world>>

\* ++scan_row_count; binlog_offset += record_len.
Advance(d) ==
  /\ Running /\ rpc[d] = "advance"
  /\ dirty' = [dirty EXCEPT ![d] = TRUE]
  /\ binlog_offset' = [binlog_offset EXCEPT ![d] = @ + 1]
  /\ Goto(d, "check")
  /\ UNCHANGED <<disk, writer, binlog_index, joinInfo, unmarked, world>>

\* ENOENT in fdht_sync_thread_entrance: old data is done, heart beat, save the
\* position, wait.
ReportSyncDone(d) ==
  /\ Running /\ rpc[d] = "enoent" /\ need_sync_old[d] /\ ~sync_old_done[d]
  /\ sync_old_done' = [sync_old_done EXCEPT ![d] = TRUE]
  /\ MarkTruncate(d, "mark_done")
  /\ UNCHANGED <<files, index_file, writer, position, need_sync_old, until_timestamp, skipping,
                 rows, world>>

Wait(d) ==
  /\ Running /\ rpc[d] = "enoent" /\ ~(need_sync_old[d] /\ ~sync_old_done[d])
  /\ IF dirty[d] THEN MarkTruncate(d, "mark_idle") ELSE Goto(d, "check") /\ UNCHANGED mark
  /\ UNCHANGED <<files, index_file, writer, position, joinInfo, rows, world>>

\* fdht_report_sync_done or fdht_client_heart_beat fails.
ConnectionLost(d) ==
  /\ Running /\ rpc[d] = "enoent"
  /\ Break(d)
  /\ UNCHANGED <<files, index_file, writer, position, joinInfo, rows, world>>

(***************************************************************************)
(* The process.                                                            *)
(***************************************************************************)

\* What is left of the process when it is gone: the disk.
Gone ==
  /\ run' = "down"
  /\ cache' = <<>> /\ wpc' = "idle" /\ pend' = NoRecord /\ wlen' = 0
  /\ rpc' = [d \in Dest |-> "off"]
  /\ dirty' = [d \in Dest |-> FALSE] /\ unmarked' = [d \in Dest |-> 0]
  /\ UNCHANGED <<disk, g_binlog_fd, g_binlog_index, size, seq, position, joinInfo,
                 faults, applied>>

Crash ==
  /\ Running /\ crashes < MaxCrashes
  /\ crashes' = crashes + 1
  /\ Gone

\* sigQuitHandler: fdht_terminate.
Terminate ==
  /\ run = "up" /\ crashes < MaxCrashes
  /\ crashes' = crashes + 1 /\ run' = "stopping"
  /\ UNCHANGED <<disk, writer, reader, faults, applied>>

\* fdht_sync_destroy, after the worker and schedule threads: a last flush.
SyncDestroy ==
  /\ run = "stopping" /\ wpc = "idle"
  /\ run' = "closing"
  /\ wpc' = IF g_binlog_fd THEN "flush" ELSE "idle"
  /\ UNCHANGED <<disk, cache, g_binlog_fd, g_binlog_index, size, pend, wlen, seq,
                 reader, crashes, faults, applied>>

\* The end of main does not wait for the sync threads.
Exit ==
  /\ run = "closing" /\ wpc = "idle"
  /\ Gone /\ UNCHANGED crashes

\* fdht_sync_init: an empty index file is an error, at every attempt.
SyncInit ==
  /\ run = "down" /\ index_file # EmptyIndex
  /\ run' = "up"
  /\ g_binlog_index' = index_file
  /\ files' = [i \in DOMAIN files \cup {index_file} |->
                 IF i \in DOMAIN files THEN files[i] ELSE <<>>]
  /\ g_binlog_file_size' = Len(files'[index_file])
  /\ miscounted' = FALSE /\ g_binlog_fd' = TRUE
  /\ UNCHANGED <<index_file, mark, cache, wpc, pend, wlen, seq, reader, crashes, faults, applied>>

SyncInitFails == run = "down" /\ index_file = EmptyIndex /\ UNCHANGED vars

Init ==
  /\ files = [i \in {0} |-> <<>>] /\ index_file = 0 /\ mark = [d \in Dest |-> NoFile]
  /\ cache = <<>> /\ g_binlog_fd = TRUE /\ g_binlog_index = 0
  /\ g_binlog_file_size = 0 /\ miscounted = FALSE
  /\ wpc = "idle" /\ pend = NoRecord /\ wlen = 0 /\ seq = 0
  /\ rpc = [d \in Dest |-> "off"]
  /\ binlog_index = [d \in Dest |-> 0] /\ binlog_offset = [d \in Dest |-> 0]
  /\ need_sync_old = [d \in Dest |-> FALSE] /\ sync_old_done = [d \in Dest |-> FALSE]
  /\ until_timestamp = [d \in Dest |-> 0] /\ skipping = [d \in Dest |-> FALSE]
  /\ dirty = [d \in Dest |-> FALSE] /\ unmarked = [d \in Dest |-> 0]
  /\ run = "up" /\ crashes = 0 /\ faults = 0
  /\ applied = [d \in Dest |-> {}]

Flush ==
  \/ FlushWrite \/ FlushWriteFails \/ Fsync \/ FsyncFails \/ FlushEnd
  \/ IndexTruncate \/ IndexWrite \/ OpenNextWritableBinlog \/ ResetFileSize \/ RotateFails
  \/ DirectWriteHeader \/ DirectWriteRest \/ DirectWriteFails

SyncThread(d) ==
  \/ ReaderInit(d) \/ ReaderInitFails(d) \/ ReaderInitNew(d)
  \/ CheckIndex(d) \/ CheckSize(d) \/ ReadRecord(d) \/ SkipRecord(d) \/ ReadPartial(d)
  \/ ReadInvalid(d) \/ ReadEof(d) \/ Rotate(d)
  \/ SyncSkip(d) \/ SyncSend(d) \/ SyncFails(d) \/ SyncAck(d) \/ Advance(d)
  \/ ReportSyncDone(d) \/ Wait(d) \/ ConnectionLost(d)
  \/ MarkWrite(d) \/ MarkWriteFails(d)

Process == Crash \/ Terminate \/ SyncDestroy \/ Exit \/ SyncInit \/ SyncInitFails

Next ==
  \/ BinlogWrite \/ BinlogSyncFunc \/ Flush
  \/ \E d \in Dest : SyncThread(d)
  \/ Process

Spec == Init /\ [][Next]_vars

\* The threads run, the disk answers, the network does not fail for ever, and
\* the server is started again after it stopped.
Fairness ==
  /\ WF_vars(BinlogSyncFunc) /\ WF_vars(Flush) /\ SF_vars(OpenNextWritableBinlog)
  /\ WF_vars(SyncDestroy) /\ WF_vars(Exit) /\ WF_vars(SyncInit)
  /\ \A d \in Dest : WF_vars(SyncThread(d)) /\ SF_vars(SyncSend(d)) /\ SF_vars(SyncAck(d))

FairSpec == Spec /\ Fairness

(***************************************************************************)
(* Properties.                                                             *)
(***************************************************************************)

WriterPC == {"idle", "flush", "fsync", "rotate", "index", "open", "reset", "done", "failed",
             "direct", "direct_rest"}
ReaderPC == {"off", "check", "check_size", "read", "eof", "sync", "ack", "advance", "enoent"}
            \cup MarkPC
MarkRecord == [state : {"nofile", "empty", "full"}, binlog_index : Nat, binlog_offset : Nat,
               sync_old_done : BOOLEAN]

\* Type invariant: the state of sync.c, with exactly the files 0 to
\* g_binlog_index on disk.
TypeOK ==
  /\ files \in [0 .. g_binlog_index -> Seq(Nat)]
  /\ index_file \in Nat \cup {EmptyIndex}
  /\ mark \in [Dest -> MarkRecord]
  /\ cache \in Seq(Nat) /\ g_binlog_fd \in BOOLEAN
  /\ g_binlog_index \in Nat /\ g_binlog_file_size \in Nat /\ miscounted \in BOOLEAN
  /\ wpc \in WriterPC /\ pend \in Nat /\ wlen \in Nat /\ seq \in Nat
  /\ rpc \in [Dest -> ReaderPC]
  /\ binlog_index \in [Dest -> Nat] /\ binlog_offset \in [Dest -> Nat]
  /\ need_sync_old \in [Dest -> BOOLEAN] /\ sync_old_done \in [Dest -> BOOLEAN]
  /\ until_timestamp \in [Dest -> Nat] /\ skipping \in [Dest -> BOOLEAN]
  /\ dirty \in [Dest -> BOOLEAN] /\ unmarked \in [Dest -> Nat]
  /\ run \in {"up", "stopping", "closing", "down"} /\ crashes \in Nat /\ faults \in Nat
  /\ applied \in [Dest -> SUBSET Nat]

\* A record the reader of d may leave behind: whole, and applied by d unless it
\* is not this server's to push.
Settled(d, r) ==
  /\ r # Torn
  /\ \/ r \in applied[d] \/ r \in Replica \/ r \in Expiring
     \/ ~need_sync_old[d] /\ r < until_timestamp[d]

\* The same for the old data of a destination that joins.
OldSettled(d, r) ==
  need_sync_old[d] /\ r \in Replica \ Expiring /\ r <= until_timestamp[d] => r \in applied[d]

SettledUpTo(d, i, offset, done) ==
  \A k \in 1 .. offset :
    /\ k \in DOMAIN files[i]
    /\ Settled(d, files[i][k])
    /\ done \/ OldSettled(d, files[i][k])

HasMark(d) == mark[d].state = "full"

\* Within a file nothing is skipped: every record before the offset that a mark
\* file holds was applied by the destination, so a restart at any moment, with
\* failed writes, lost answers and a rotation under way, resumes without a gap
\* (fdht_write_to_mark_file, fdht_reader_init, fdht_sync_data).
MarkIsSafe ==
  \A d \in Dest : HasMark(d) =>
    /\ mark[d].binlog_index \in DOMAIN files
    /\ SettledUpTo(d, mark[d].binlog_index, mark[d].binlog_offset, mark[d].sync_old_done)

\* The same across files: fdht_binlog_read leaves a file only when every record
\* of it has been pushed.
NoGap ==
  \A d \in Dest : HasMark(d) =>
    \A i \in 0 .. mark[d].binlog_index - 1 :
      SettledUpTo(d, i, Len(files[i]), mark[d].sync_old_done)

\* A reader that has not scanned a row since its mark stands exactly at the
\* mark: the tests "last_scan_rows != scan_row_count" never save a write that
\* was needed.
CleanMarkIsPosition ==
  \A d \in Dest :
    rpc[d] \notin MarkPC \cup {"off"} /\ ~skipping[d] /\ ~dirty[d] =>
      mark[d] = Mark("full", binlog_index[d], binlog_offset[d], sync_old_done[d])


\* The records on disk, then those in the cache, are in the order of the
\* fdht_binlog_write calls and none is there twice, whatever flush failed and
\* whichever record took the direct path.
LogOrdered ==
  LET Whole(s) == {k \in DOMAIN s : s[k] # Torn}
      Ordered(s) == \A j, k \in Whole(s) : j < k => s[j] < s[k]
      Before(s, t) == \A j \in Whole(s), k \in Whole(t) : s[j] < t[k]
  IN  /\ Ordered(cache) /\ \A i \in DOMAIN files : Ordered(files[i])
      /\ \A i, j \in DOMAIN files : i < j => Before(files[i], files[j])
      /\ wpc = "idle" => \A i \in DOMAIN files : Before(files[i], cache)

\* A sync thread that meets a record still being written never stops the
\* server: the format check of fdht_binlog_read fails only after a crash or a
\* failed write.
HealthyServerStaysUp == run = "up" \/ crashes > 0 \/ faults > 0

\* Everything that reaches the disk is pushed in the end, across flushes,
\* rotations, lost connections and restarts, unless a crash left an unreadable
\* mark file, index file or record.
EventuallyPushed ==
  \A d \in Dest :
    <>[](\/ cache = <<>> /\ \A i \in DOMAIN files : SettledUpTo(d, i, Len(files[i]), TRUE)
         \/ index_file = EmptyIndex \/ mark[d] = Empty
         \/ \E i \in DOMAIN files : \E k \in DOMAIN files[i] : files[i][k] = Torn)
=============================================================================
