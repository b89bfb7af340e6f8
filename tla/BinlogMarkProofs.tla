-------------------------- MODULE BinlogMarkProofs --------------------------
(***************************************************************************)
(* Proofs that a mark file never promises too much: MarkIsSafe,            *)
(* CleanMarkIsPosition and, when no rotation completes between a reader's  *)
(* end of file and its test of g_binlog_index, NoGap.                      *)
(***************************************************************************)
EXTENDS BinlogProofs

\* Settled and OldSettled, as a relation between a record, the set of records
\* the destination has applied, and the join data of the destination.
Fine(r, app, need, until, done) ==
  /\ r # Torn
  /\ r \in app \/ r \in Replica \/ r \in Expiring \/ (~need /\ r < until)
  /\ done \/ (need /\ r \in Replica \ Expiring /\ r <= until => r \in app)

FineUpTo(s, n, app, need, until, done) ==
  \A k \in 1 .. n : k \in 1 .. Len(s) /\ Fine(s[k], app, need, until, done)

\* File i up to offset n is settled for d.
Safe(d, i, n, done) ==
  FineUpTo(files[i], n, applied[d], need_sync_old[d], until_timestamp[d], done)

\* Only a destination whose old data comes from elsewhere is skipped to.
SkipOK(d) == skipping[d] => ~need_sync_old[d]

\* A record that was handled and not yet passed is settled.
Handled(d) ==
  rpc[d] \in {"ack", "advance", "mark_freq"} =>
    Fine(Current(d), applied[d], need_sync_old[d], until_timestamp[d], sync_old_done[d])

PosSafe(d) == Safe(d, binlog_index[d], binlog_offset[d], sync_old_done[d])

MarkSafe(d) ==
  HasMark(d) => Safe(d, mark[d].binlog_index, mark[d].binlog_offset, mark[d].sync_old_done)

MarkInv == PosInv /\ \A d \in Dest : SkipOK(d) /\ Handled(d) /\ PosSafe(d) /\ MarkSafe(d)

\* Applying more, and writing behind whole records, keeps a prefix settled.
LEMMA FineGrows ==
  ASSUME NEW s \in Seq(Nat), NEW t, Grown(t, s), NEW n, NEW a, NEW b, a \subseteq b,
         NEW need, NEW until, NEW done \in BOOLEAN, NEW done2 \in BOOLEAN, done => done2,
         FineUpTo(s, n, a, need, until, done)
  PROVE  FineUpTo(t, n, b, need, until, done2)
<1> SUFFICES ASSUME NEW k \in 1 .. n
             PROVE  k \in 1 .. Len(t) /\ Fine(t[k], b, need, until, done2)
  BY DEF FineUpTo
<1>1. k \in 1 .. Len(s) /\ Fine(s[k], a, need, until, done)
  BY DEF FineUpTo
<1>2. k \in 1 .. Len(t) /\ t[k] = s[k]
  BY <1>1, GrownRecord DEF Fine
<1>3. Fine(s[k], b, need, until, done2)
  BY <1>1 DEF Fine
<1> QED
  BY <1>2, <1>3

\* One more settled record makes a longer settled prefix.
LEMMA FineExtends ==
  ASSUME NEW s, NEW n \in Nat, NEW a, NEW need, NEW until, NEW done,
         FineUpTo(s, n, a, need, until, done),
         n + 1 \in 1 .. Len(s), Fine(s[n + 1], a, need, until, done)
  PROVE  FineUpTo(s, n + 1, a, need, until, done)
  BY DEF FineUpTo

\* Nothing stands before the start of a file.
LEMMA FineZero ==
  ASSUME NEW s, NEW a, NEW need, NEW until, NEW done
  PROVE  FineUpTo(s, 0, a, need, until, done)
  BY DEF FineUpTo

\* Safe says of file i what SettledUpTo says.
LEMMA SafeIsSettled ==
  ASSUME TypeInv, NEW d \in Dest, NEW i \in 0 .. g_binlog_index, NEW n, NEW done, Safe(d, i, n, done)
  PROVE  SettledUpTo(d, i, n, done)
<1>1. DOMAIN files[i] = 1 .. Len(files[i])
  BY LenProperties DEF TypeInv, TypeOK
<1> QED
  BY <1>1 DEF Safe, FineUpTo, Fine, SettledUpTo, Settled, OldSettled

\* The initial state.
LEMMA MarkInit == Init => MarkInv
<1> SUFFICES ASSUME Init, NEW d \in Dest PROVE SkipOK(d) /\ Handled(d) /\ PosSafe(d) /\ MarkSafe(d)
  BY PosInit DEF MarkInv
<1>1. ~skipping[d] /\ rpc[d] = "off" /\ binlog_offset[d] = 0 /\ ~HasMark(d)
  BY DEF Init, HasMark, NoFile, Mark
<1> QED
  BY <1>1, FineZero DEF SkipOK, Handled, PosSafe, MarkSafe, Safe

\* A settled prefix stays settled when files grow and the destination's join
\* data stays.
LEMMA SafeStays ==
  ASSUME TypeInv, FilesKept, NEW d \in Dest, NEW i \in 0 .. g_binlog_index, NEW n,
         NEW done \in BOOLEAN, NEW done2 \in BOOLEAN, done => done2, Safe(d, i, n, done),
         applied[d] \subseteq applied'[d],
         need_sync_old'[d] = need_sync_old[d], until_timestamp'[d] = until_timestamp[d]
  PROVE  FineUpTo(files'[i], n, applied'[d], need_sync_old'[d], until_timestamp'[d], done2)
<1>1. files[i] \in Seq(Nat) /\ Grown(files'[i], files[i])
  BY DEF TypeInv, TypeOK, FilesKept
<1>2. FineUpTo(files[i], n, applied[d], need_sync_old[d], until_timestamp[d], done)
  BY DEF Safe
<1>3. FineUpTo(files'[i], n, applied'[d], need_sync_old[d], until_timestamp[d], done2)
  BY <1>1, <1>2, FineGrows
<1> QED
  BY <1>3

\* The types of what belongs to a destination.
LEMMA DestTypes ==
  ASSUME TypeInv, NEW d \in Dest
  PROVE  /\ binlog_index[d] \in Nat /\ binlog_offset[d] \in Nat /\ sync_old_done[d] \in BOOLEAN
         /\ mark[d].binlog_offset \in Nat /\ mark[d].sync_old_done \in BOOLEAN
         /\ mark[d] = Mark(mark[d].state, mark[d].binlog_index, mark[d].binlog_offset,
                           mark[d].sync_old_done)
  BY DEF TypeInv, TypeOK, MarkRecord, Mark

\* What a step of another thread, a crash or a restart does to the invariant of
\* d: nothing.
LEMMA MarkOthers ==
  ASSUME MarkInv, FilesKept, NEW d \in Dest, Untouched(d)
  PROVE  (SkipOK(d) /\ Handled(d) /\ PosSafe(d) /\ MarkSafe(d))'
<1>1. /\ PosInv /\ TypeInv
      /\ SkipOK(d) /\ Handled(d) /\ PosSafe(d) /\ MarkSafe(d)
  BY DEF MarkInv, PosInv
<1>2. SkipOK(d)'
  BY <1>1 DEF SkipOK, Untouched
<1>3. PosSafe(d)'
  <2>1. FineUpTo(files'[binlog_index[d]], binlog_offset[d], applied'[d], need_sync_old'[d],
                 until_timestamp'[d], sync_old_done[d])
    BY <1>1, DestTypes, InFile, SafeStays DEF PosSafe, Untouched
  <2> QED
    BY <2>1 DEF PosSafe, Safe, Untouched
<1>4. MarkSafe(d)'
  <2>1. HasMark(d) => FineUpTo(files'[mark[d].binlog_index], mark[d].binlog_offset, applied'[d],
                 need_sync_old'[d], until_timestamp'[d], mark[d].sync_old_done)
    BY <1>1, DestTypes, InFile, SafeStays DEF MarkSafe, Untouched
  <2> QED
    BY <2>1 DEF MarkSafe, Safe, HasMark, Untouched
<1>5. Handled(d)'
  <2>1. CASE rpc'[d] \notin {"ack", "advance", "mark_freq"}
    BY <2>1 DEF Handled
  <2>2. CASE rpc'[d] \in {"ack", "advance", "mark_freq"}
    <3>1. rpc'[d] = rpc[d]
      BY <2>2 DEF Untouched
    <3>2. binlog_offset[d] + 1 \in 1 .. Len(File(d)) /\ Current(d) # Torn
      BY <1>1, <2>2, <3>1 DEF PosInv, AtRecord
    <3>3. File(d) \in Seq(Nat) /\ Grown(files'[binlog_index[d]], File(d))
      BY <1>1, InFile DEF FilesKept, File
    <3>4. files'[binlog_index[d]][binlog_offset[d] + 1] = Current(d)
      BY <3>2, <3>3, GrownRecord DEF Current
    <3> QED
      BY <1>1, <2>2, <3>1, <3>4 DEF Handled, File, Current, Untouched
  <2> QED
    BY <2>1, <2>2
<1> QED
  BY <1>2, <1>3, <1>4, <1>5

\* What the steps of a sync thread that leave its position alone do.
Still(d) ==
  /\ files' = files /\ applied' = applied
  /\ binlog_index'[d] = binlog_index[d] /\ binlog_offset'[d] = binlog_offset[d]
  /\ need_sync_old'[d] = need_sync_old[d] /\ until_timestamp'[d] = until_timestamp[d]
  /\ sync_old_done[d] => sync_old_done'[d]
  /\ mark'[d] = mark[d] \/ mark'[d] = Empty
  /\ skipping'[d] => skipping[d]

\* Such a step keeps the settled prefixes.
LEMMA StillKeeps ==
  ASSUME MarkInv, TypeInv', NEW d \in Dest, Still(d)
  PROVE  (SkipOK(d) /\ PosSafe(d) /\ MarkSafe(d))'
<1>1. /\ PosInv /\ TypeInv
      /\ SkipOK(d) /\ PosSafe(d) /\ MarkSafe(d)
  BY DEF MarkInv, PosInv
<1>2. SkipOK(d)'
  BY <1>1 DEF SkipOK, Still
<1>3. MarkSafe(d)'
  BY <1>1 DEF Still, MarkSafe, Safe, HasMark, Empty, Mark
<1>4. sync_old_done[d] \in BOOLEAN /\ sync_old_done'[d] \in BOOLEAN /\ File(d) \in Seq(Nat)
  BY <1>1, InFile DEF TypeInv, TypeOK
<1>5. PosSafe(d)'
  <2>1. Grown(File(d), File(d))
    BY <1>4, LenProperties DEF Grown
  <2>2. FineUpTo(File(d), binlog_offset[d], applied[d], need_sync_old[d], until_timestamp[d],
                 sync_old_done[d])
    BY <1>1 DEF PosSafe, Safe, File
  <2>3. sync_old_done[d] => sync_old_done'[d]
    BY DEF Still
  <2>4. FineUpTo(File(d), binlog_offset[d], applied[d], need_sync_old[d], until_timestamp[d],
                 sync_old_done'[d])
    BY <1>4, <2>1, <2>2, <2>3, FineGrows
  <2> QED
    BY <2>4 DEF Still, PosSafe, Safe, File
<1> QED
  BY <1>2, <1>3, <1>5

\* The steps of a sync thread that leave its position alone.
LEMMA StillSteps ==
  ASSUME MarkInv, NEW d \in Dest
  PROVE  /\ (\/ CheckIndex(d) \/ CheckSize(d) \/ ReadRecord(d) \/ ReadPartial(d) \/ ReadInvalid(d)
             \/ ReadEof(d) \/ SyncFails(d) \/ ReportSyncDone(d) \/ Wait(d) \/ ConnectionLost(d)
             \/ MarkWriteFails(d) \/ ReaderInitFails(d)
             \/ (Rotate(d) /\ NoMoreData(d) /\ UNCHANGED position)
             \/ (SkipRecord(d) /\ NoMoreData(d) /\ UNCHANGED binlog_offset))
           => Still(d) /\ rpc'[d] \notin {"ack", "advance", "mark_freq"}
         /\ SyncSkip(d) \/ SyncAck(d) => Still(d) /\ UNCHANGED joinInfo
<1>1. PosInv /\ TypeInv /\ rpc \in [Dest -> ReaderPC] /\ mark \in [Dest -> MarkRecord]
      /\ skipping \in [Dest -> BOOLEAN] /\ sync_old_done \in [Dest -> BOOLEAN]
  BY DEF MarkInv, PosInv, TypeInv, TypeOK
<1> USE DEF position, disk, size, writer, reader, joinInfo, rows, world, vars, Still, Goto, MarkTruncate, Break,
            NoMoreData
<1> DEFINE Good == Still(d) /\ rpc'[d] \notin {"ack", "advance", "mark_freq"}
<1>2. CheckIndex(d) \/ CheckSize(d) \/ ReadRecord(d) \/ ReadEof(d) => Good
  BY <1>1 DEF CheckIndex, CheckSize, ReadRecord, ReadEof
<1>3. ReadPartial(d) \/ ReadInvalid(d) \/ SyncFails(d) \/ ConnectionLost(d) => Good
  BY <1>1 DEF ReadPartial, ReadInvalid, SyncFails, ConnectionLost
<1>4. ReportSyncDone(d) \/ Wait(d) => Good
  BY <1>1 DEF ReportSyncDone, Wait
<1>5. MarkWriteFails(d) => Good
  BY <1>1 DEF MarkWriteFails
<1>6. ReaderInitFails(d) => Good
  BY <1>1 DEF ReaderInitFails
<1>7. Rotate(d) /\ NoMoreData(d) /\ UNCHANGED position => Good
  BY <1>1 DEF Rotate
<1>8. SkipRecord(d) /\ NoMoreData(d) /\ UNCHANGED binlog_offset => Good
  BY <1>1 DEF SkipRecord
<1>9. SyncSkip(d) \/ SyncAck(d) => Still(d) /\ UNCHANGED joinInfo
  BY <1>1 DEF SyncSkip, SyncAck
<1> HIDE DEF Good, Still, NoMoreData, position, joinInfo
<1>10. (\/ CheckIndex(d) \/ CheckSize(d) \/ ReadRecord(d) \/ ReadPartial(d) \/ ReadInvalid(d)
        \/ ReadEof(d) \/ SyncFails(d) \/ ReportSyncDone(d) \/ Wait(d) \/ ConnectionLost(d)
        \/ MarkWriteFails(d) \/ ReaderInitFails(d)
        \/ (Rotate(d) /\ NoMoreData(d) /\ UNCHANGED position)
        \/ (SkipRecord(d) /\ NoMoreData(d) /\ UNCHANGED binlog_offset))
       => Good
  BY <1>2, <1>3, <1>4, <1>5, <1>6, <1>7, <1>8
<1> QED
  BY <1>9, <1>10 DEF Good

\* A step of the sync thread of d preserves the invariant of d: it passes a
\* record only after the destination applied it or when it need not.
LEMMA MarkReader ==
  ASSUME MarkInv, TypeInv', NEW d \in Dest, SyncThread(d)
  PROVE  (SkipOK(d) /\ Handled(d) /\ PosSafe(d) /\ MarkSafe(d))'
<1> DEFINE Good == (SkipOK(d) /\ Handled(d) /\ PosSafe(d) /\ MarkSafe(d))'
<1> SUFFICES Good
  OBVIOUS
<1>1. /\ PosInv /\ TypeInv
      /\ SkipOK(d) /\ Handled(d) /\ PosSafe(d) /\ MarkSafe(d)
  BY DEF MarkInv, PosInv
<1>2. rpc \in [Dest -> ReaderPC] /\ mark \in [Dest -> MarkRecord]
      /\ skipping \in [Dest -> BOOLEAN] /\ sync_old_done \in [Dest -> BOOLEAN]
      /\ need_sync_old \in [Dest -> BOOLEAN] /\ until_timestamp \in [Dest -> Nat]
      /\ binlog_index \in [Dest -> Nat] /\ binlog_offset \in [Dest -> Nat]
      /\ applied \in [Dest -> SUBSET Nat]
  BY <1>1 DEF TypeInv, TypeOK
<1>3. ASSUME Still(d), rpc'[d] \notin {"ack", "advance", "mark_freq"} PROVE Good
  BY <1>3, StillKeeps DEF Handled
<1>4. ASSUME Still(d), UNCHANGED joinInfo,
             Fine(Current(d), applied[d], need_sync_old[d], until_timestamp[d], sync_old_done[d])
      PROVE  Good
  <2>1. Handled(d)'
    BY <1>4 DEF Still, Handled, Current, File, joinInfo
  <2> QED
    BY <1>4, <2>1, StillKeeps
<1>5. CASE SyncSkip(d)
  <2>1. Fine(Current(d), applied[d], need_sync_old[d], until_timestamp[d], sync_old_done[d])
    <3>1. Current(d) # Torn
      BY <1>1, <1>5 DEF SyncSkip, PosInv, AtRecord
    <3> QED
      BY <1>5, <3>1 DEF SyncSkip, Wanted, Fine
  <2> QED
    BY <1>4, <1>5, <2>1, StillSteps
<1>6. CASE SyncAck(d)
  <2>1. Fine(Current(d), applied[d], need_sync_old[d], until_timestamp[d], sync_old_done[d])
    BY <1>1, <1>6 DEF SyncAck, Handled
  <2> QED
    BY <1>4, <1>6, <2>1, StillSteps
<1>7. CASE SyncSend(d)
  <2>1. /\ UNCHANGED <<files, mark, binlog_index, binlog_offset, need_sync_old, sync_old_done,
                       until_timestamp, skipping>>
        /\ applied'[d] = applied[d] \cup {Current(d)}
    BY <1>2, <1>7 DEF SyncSend, disk, position, joinInfo
  <2>2. Current(d) # Torn
    BY <1>1, <1>7 DEF SyncSend, PosInv, AtRecord
  <2>3. SkipOK(d)'
    BY <1>1, <2>1 DEF SkipOK
  <2>4. Handled(d)'
    BY <2>1, <2>2 DEF Handled, Fine, Current, File
  <2>5. \A s, n, done : FineUpTo(s, n, applied[d], need_sync_old[d], until_timestamp[d], done)
             => FineUpTo(s, n, applied'[d], need_sync_old[d], until_timestamp[d], done)
    BY <2>1 DEF FineUpTo, Fine
  <2>6. PosSafe(d)'
    BY <1>1, <2>1, <2>5 DEF PosSafe, Safe
  <2>7. MarkSafe(d)'
    BY <1>1, <2>1, <2>5 DEF MarkSafe, Safe, HasMark
  <2> QED
    BY <2>3, <2>4, <2>6, <2>7
<1>8. CASE Advance(d)
  <2>1. /\ UNCHANGED <<files, mark, applied, binlog_index, need_sync_old, sync_old_done,
                       until_timestamp, skipping>>
        /\ binlog_offset'[d] = binlog_offset[d] + 1 /\ rpc'[d] = "check" /\ rpc[d] = "advance"
    BY <1>2, <1>8 DEF Advance, disk, joinInfo, world, Goto
  <2>2. PosSafe(d)'
    <3>1. /\ binlog_offset[d] + 1 \in 1 .. Len(File(d)) /\ binlog_offset[d] \in Nat
          /\ Fine(File(d)[binlog_offset[d] + 1], applied[d], need_sync_old[d], until_timestamp[d],
                  sync_old_done[d])
      BY <1>1, <1>2, <2>1 DEF PosInv, AtRecord, Handled, Current
    <3>2. FineUpTo(File(d), binlog_offset[d], applied[d], need_sync_old[d], until_timestamp[d],
                   sync_old_done[d])
      BY <1>1 DEF PosSafe, Safe, File
    <3>3. FineUpTo(File(d), binlog_offset[d] + 1, applied[d], need_sync_old[d], until_timestamp[d],
                   sync_old_done[d])
      BY <3>1, <3>2, FineExtends
    <3> QED
      BY <2>1, <3>3 DEF PosSafe, Safe, File
  <2> QED
    BY <1>1, <2>1, <2>2 DEF SkipOK, Handled, MarkSafe, Safe, HasMark
<1>9. CASE SkipRecord(d) /\ ~(NoMoreData(d) /\ UNCHANGED binlog_offset)
  <2>1. /\ UNCHANGED <<files, mark, applied, binlog_index, need_sync_old, sync_old_done,
                       until_timestamp, skipping>>
        /\ binlog_offset'[d] = binlog_offset[d] + 1 /\ rpc'[d] = "check" /\ skipping[d]
        /\ binlog_offset[d] < Len(File(d)) /\ Current(d) # Torn
        /\ ~(Current(d) >= until_timestamp[d])
    BY <1>2, <1>9 DEF SkipRecord, world, Goto
  <2>2. PosSafe(d)'
    <3>1. File(d) \in Seq(Nat) /\ Len(File(d)) \in Nat /\ binlog_offset[d] \in Nat
          /\ until_timestamp[d] \in Nat /\ ~need_sync_old[d]
      BY <1>1, <1>2, <2>1, InFile, LenProperties DEF SkipOK
    <3>2. binlog_offset[d] + 1 \in 1 .. Len(File(d))
      BY <2>1, <3>1
    <3>3. Current(d) \in Nat /\ Current(d) < until_timestamp[d]
      BY <2>1, <3>1, <3>2, ElementOfSeq DEF Current
    <3>4. Fine(File(d)[binlog_offset[d] + 1], applied[d], need_sync_old[d], until_timestamp[d],
               sync_old_done[d])
      BY <2>1, <3>1, <3>3 DEF Fine, Current
    <3>5. FineUpTo(File(d), binlog_offset[d], applied[d], need_sync_old[d], until_timestamp[d],
                   sync_old_done[d])
      BY <1>1 DEF PosSafe, Safe, File
    <3>6. FineUpTo(File(d), binlog_offset[d] + 1, applied[d], need_sync_old[d], until_timestamp[d],
                   sync_old_done[d])
      BY <3>1, <3>2, <3>4, <3>5, FineExtends
    <3> QED
      BY <2>1, <3>6 DEF PosSafe, Safe, File
  <2> QED
    BY <1>1, <2>1, <2>2 DEF SkipOK, Handled, MarkSafe, Safe, HasMark
<1>10. CASE Rotate(d) /\ ~(NoMoreData(d) /\ UNCHANGED position)
  <2>1. /\ UNCHANGED <<need_sync_old, skipping>>
        /\ binlog_offset'[d] = 0 /\ rpc'[d] = "mark_rotate" /\ mark'[d] = Empty
    BY <1>2, <1>10 DEF Rotate, Goto, MarkTruncate
  <2> QED
    <3>1. SkipOK(d)' /\ Handled(d)'
      BY <1>1, <2>1 DEF SkipOK, Handled
    <3>2. PosSafe(d)'
      BY <2>1, FineZero DEF PosSafe, Safe
    <3>3. MarkSafe(d)'
      BY <2>1, MarkFields DEF MarkSafe, HasMark
    <3> QED
      BY <3>1, <3>2, <3>3
<1>11. CASE MarkWrite(d)
  <2>1. /\ UNCHANGED <<files, applied, binlog_index, binlog_offset, need_sync_old, sync_old_done,
                       until_timestamp, skipping>>
        /\ mark'[d] = Mark("full", binlog_index[d], binlog_offset[d], sync_old_done[d])
        /\ rpc[d] \in MarkPC /\ rpc'[d] = AfterMark[rpc[d]]
    BY <1>2, <1>11 DEF MarkWrite, position, joinInfo, world, Goto
  <2>2. SkipOK(d)' /\ PosSafe(d)'
    BY <1>1, <2>1 DEF SkipOK, PosSafe, Safe
  <2>3. Handled(d)'
    <3>1. rpc'[d] \in {"ack", "advance", "mark_freq"} => rpc[d] = "mark_freq"
      BY <2>1, AfterMarkPC
    <3> QED
      BY <1>1, <2>1, <3>1 DEF Handled, Current, File
  <2>4. MarkSafe(d)'
    <3>1. /\ mark'[d].binlog_index = binlog_index[d] /\ mark'[d].binlog_offset = binlog_offset[d]
          /\ mark'[d].sync_old_done = sync_old_done[d]
      <4>1. mark'[d] = Mark("full", binlog_index[d], binlog_offset[d], sync_old_done[d])
        BY <2>1
      <4> QED
        BY <4>1, MarkFields, Zenon
    <3> QED
      BY <1>1, <2>1, <3>1 DEF PosSafe, MarkSafe, Safe
  <2> QED
    BY <2>2, <2>3, <2>4
<1>12. CASE ReaderInit(d)
  <2>1. /\ UNCHANGED <<files, mark, applied, need_sync_old, until_timestamp>>
        /\ binlog_index'[d] = mark[d].binlog_index /\ binlog_offset'[d] = mark[d].binlog_offset
        /\ sync_old_done'[d] = mark[d].sync_old_done
        /\ ~skipping'[d] /\ rpc'[d] = "check" /\ HasMark(d)
    BY <1>2, <1>12 DEF ReaderInit, disk, world, Goto, HasMark
  <2> QED
    BY <1>1, <2>1 DEF SkipOK, Handled, PosSafe, MarkSafe, Safe, HasMark
<1>13. CASE ReaderInitNew(d)
  <2>1. /\ skipping'[d] => ~need_sync_old'[d]
        /\ binlog_offset'[d] = 0 /\ mark'[d] = Empty /\ rpc'[d] \in {"check", "mark_init"}
    BY <1>2, <1>13 DEF ReaderInitNew, Goto
  <2> QED
    <3>1. SkipOK(d)' /\ Handled(d)'
      BY <2>1 DEF SkipOK, Handled
    <3>2. PosSafe(d)'
      BY <2>1, FineZero DEF PosSafe, Safe
    <3>3. MarkSafe(d)'
      BY <2>1, MarkFields DEF MarkSafe, HasMark
    <3> QED
      BY <3>1, <3>2, <3>3
<1> HIDE DEF Good
<1>14. CASE \/ CheckIndex(d) \/ CheckSize(d) \/ ReadRecord(d) \/ ReadPartial(d) \/ ReadInvalid(d)
            \/ ReadEof(d) \/ SyncFails(d) \/ ReportSyncDone(d) \/ Wait(d) \/ ConnectionLost(d)
            \/ MarkWriteFails(d) \/ ReaderInitFails(d)
            \/ (Rotate(d) /\ NoMoreData(d) /\ UNCHANGED position)
            \/ (SkipRecord(d) /\ NoMoreData(d) /\ UNCHANGED binlog_offset)
  BY <1>3, <1>14, StillSteps
<1> QED
  BY <1>5, <1>6, <1>7, <1>8, <1>9, <1>10, <1>11, <1>12, <1>13, <1>14 DEF SyncThread

\* Every step preserves the invariant.
LEMMA MarkStep == MarkInv /\ [Next]_vars => MarkInv'
<1> SUFFICES ASSUME MarkInv, [Next]_vars PROVE MarkInv'
  OBVIOUS
<1>1. PosInv /\ TypeInv /\ PosInv' /\ TypeInv' /\ FilesKept
  BY PosStep, StepKeepsFiles DEF MarkInv, PosInv
<1>2. ASSUME NEW d \in Dest PROVE (SkipOK(d) /\ Handled(d) /\ PosSafe(d) /\ MarkSafe(d))'
  <2>1. CASE SyncThread(d)
    BY <1>1, <2>1, MarkReader
  <2>2. CASE ~SyncThread(d)
    <3>1. Untouched(d)
      BY <1>1, <2>2, OthersKeep
    <3> QED
      BY <1>1, <3>1, MarkOthers
  <2> QED
    BY <2>1, <2>2
<1> QED
  BY <1>1, <1>2 DEF MarkInv

\* The invariant says what MarkIsSafe says.
LEMMA MarkInvImplies == MarkInv => MarkIsSafe
<1> SUFFICES ASSUME MarkInv, NEW d \in Dest, HasMark(d)
             PROVE  /\ mark[d].binlog_index \in DOMAIN files
                    /\ SettledUpTo(d, mark[d].binlog_index, mark[d].binlog_offset,
                                   mark[d].sync_old_done)
  BY DEF MarkIsSafe
<1>1. PosInv /\ TypeInv /\ DOMAIN files = 0 .. g_binlog_index
  BY DEF MarkInv, PosInv, TypeInv, TypeOK
<1>2. mark[d].binlog_index \in 0 .. g_binlog_index
  BY <1>1, InFile
<1>3. Safe(d, mark[d].binlog_index, mark[d].binlog_offset, mark[d].sync_old_done)
  BY DEF MarkInv, MarkSafe
<1> QED
  BY <1>1, <1>2, <1>3, SafeIsSettled

\* Whatever fails and whenever the server stops, every record before the
\* position in a mark file has been applied by that destination, or is one this
\* server does not push: fdht_reader_init resumes without a gap in the file.
THEOREM MarkIsAlwaysSafe == Spec => []MarkIsSafe
  BY MarkInit, MarkStep, MarkInvImplies, PTL DEF Spec

\* What CleanMarkIsPosition says of one destination.
Clean(d) ==
  rpc[d] \notin MarkPC \cup {"off"} /\ ~skipping[d] /\ ~dirty[d] =>
    mark[d] = Mark("full", binlog_index[d], binlog_offset[d], sync_old_done[d])

\* A sync thread keeps its mark in step with its position.
LEMMA CleanReader ==
  ASSUME TypeInv, NEW d \in Dest, Clean(d), SyncThread(d)
  PROVE  Clean(d)'
<1>1. rpc \in [Dest -> ReaderPC] /\ mark \in [Dest -> MarkRecord]
      /\ skipping \in [Dest -> BOOLEAN] /\ sync_old_done \in [Dest -> BOOLEAN]
      /\ binlog_index \in [Dest -> Nat] /\ binlog_offset \in [Dest -> Nat]
      /\ dirty \in [Dest -> BOOLEAN]
  BY DEF TypeInv, TypeOK
<1> USE DEF position, disk, size, writer, reader, joinInfo, rows, world, vars, Goto, MarkTruncate, Break,
            NoMoreData, Clean, MarkPC
<1>2. ReaderInit(d) => Clean(d)'
  BY <1>1, DestTypes DEF ReaderInit
<1>3. ReaderInitFails(d) => Clean(d)'
  BY <1>1 DEF ReaderInitFails
<1>4. ReaderInitNew(d) => Clean(d)'
  BY <1>1 DEF ReaderInitNew
<1>5. CheckIndex(d) \/ CheckSize(d) \/ ReadRecord(d) \/ ReadEof(d) => Clean(d)'
  BY <1>1 DEF CheckIndex, CheckSize, ReadRecord, ReadEof
<1>6. ReadPartial(d) \/ ReadInvalid(d) \/ SyncFails(d) \/ ConnectionLost(d) => Clean(d)'
  BY <1>1 DEF ReadPartial, ReadInvalid, SyncFails, ConnectionLost
<1>7. SkipRecord(d) => Clean(d)'
  BY <1>1 DEF SkipRecord
<1>8. Rotate(d) => Clean(d)'
  BY <1>1 DEF Rotate
<1>9. SyncSkip(d) \/ SyncSend(d) \/ SyncAck(d) => Clean(d)'
  BY <1>1 DEF SyncSkip, SyncSend, SyncAck
<1>10. Advance(d) \/ ReportSyncDone(d) \/ Wait(d) => Clean(d)'
  BY <1>1 DEF Advance, ReportSyncDone, Wait
<1>11. MarkWrite(d) => Clean(d)'
  BY <1>1 DEF MarkWrite
<1>12. MarkWriteFails(d) => Clean(d)'
  BY <1>1 DEF MarkWriteFails
<1> HIDE DEF Clean
<1> QED
  BY <1>2, <1>3, <1>4, <1>5, <1>6, <1>7, <1>8, <1>9, <1>10, <1>11, <1>12 DEF SyncThread

\* A sync thread that scanned nothing since it wrote its mark file stands at the
\* position that file holds, so fdht_sync_thread_entrance may leave the file as
\* it is when last_scan_rows = scan_row_count.
THEOREM CleanMarkAlways == Spec => []CleanMarkIsPosition
<1>1. CleanMarkIsPosition <=> \A d \in Dest : Clean(d)
  BY DEF CleanMarkIsPosition, Clean
<1>2. Init => CleanMarkIsPosition
  BY <1>1 DEF Init, Clean
<1>3. PosInv /\ CleanMarkIsPosition /\ [Next]_vars => CleanMarkIsPosition'
  <2> SUFFICES ASSUME PosInv, \A d \in Dest : Clean(d), [Next]_vars, NEW d \in Dest PROVE Clean(d)'
    BY <1>1 DEF CleanMarkIsPosition, Clean
  <2>1. CASE SyncThread(d)
    BY <2>1, CleanReader DEF PosInv
  <2>2. CASE ~SyncThread(d)
    <3>1. Untouched(d)
      BY <2>2, OthersKeep DEF PosInv
    <3> QED
      BY <3>1 DEF Clean, Untouched
  <2> QED
    BY <2>1, <2>2
<1> QED
  BY <1>2, <1>3, PosInvariant, PTL DEF Spec

\* Every record of the files before file i is settled for a destination.
LeftFine(fs, i, app, need, until, done) ==
  \A j \in 0 .. i - 1 : FineUpTo(fs[j], Len(fs[j]), app, need, until, done)

PosLeft(d) ==
  LeftFine(files, binlog_index[d], applied[d], need_sync_old[d], until_timestamp[d], sync_old_done[d])

MarkLeft(d) ==
  HasMark(d) => LeftFine(files, mark[d].binlog_index, applied[d], need_sync_old[d],
                         until_timestamp[d], mark[d].sync_old_done)

\* A reader about to go to the next file has read this one to its end.
AtEnd(d) == rpc[d] = "eof" /\ binlog_index[d] < g_binlog_index => binlog_offset[d] >= Len(File(d))

\* The sync threads end with the process.
ThreadsGone == run = "down" => \A d \in Dest : rpc[d] = "off"

GapInv ==
  /\ MarkInv /\ ThreadsGone
  /\ ~Preempt => \A d \in Dest : AtEnd(d) /\ PosLeft(d) /\ MarkLeft(d)

\* A part of a settled prefix is settled.
LEMMA FineShorter ==
  ASSUME NEW s, NEW n \in Nat, NEW m \in Nat, m <= n, NEW a, NEW need, NEW until, NEW done,
         FineUpTo(s, n, a, need, until, done)
  PROVE  FineUpTo(s, m, a, need, until, done)
  BY DEF FineUpTo

\* One more settled file.
LEMMA LeftExtends ==
  ASSUME NEW fs, NEW i \in Nat, NEW a, NEW need, NEW until, NEW done,
         LeftFine(fs, i, a, need, until, done), FineUpTo(fs[i], Len(fs[i]), a, need, until, done)
  PROVE  LeftFine(fs, i + 1, a, need, until, done)
  BY DEF LeftFine

\* There is no file before the first.
LEMMA LeftNone ==
  ASSUME NEW fs, NEW a, NEW need, NEW until, NEW done PROVE LeftFine(fs, 0, a, need, until, done)
  BY DEF LeftFine

\* What the steps of a sync thread do to the file number it holds and to the one
\* in its mark file: leave them or save the position,
Quiet(d) ==
  /\ binlog_index'[d] = binlog_index[d]
  /\ need_sync_old'[d] = need_sync_old[d] /\ until_timestamp'[d] = until_timestamp[d]
  /\ applied[d] \subseteq applied'[d]
  /\ sync_old_done[d] => sync_old_done'[d]
  /\ \/ mark'[d] = mark[d] \/ mark'[d] = Empty
     \/ /\ mark'[d] = Mark("full", binlog_index[d], binlog_offset[d], sync_old_done[d])
        /\ sync_old_done'[d] = sync_old_done[d]

\* go to the next file,
NextFile(d) ==
  /\ rpc[d] = "eof" /\ binlog_index[d] < g_binlog_index
  /\ binlog_index'[d] = binlog_index[d] + 1 /\ mark'[d] = Empty
  /\ need_sync_old'[d] = need_sync_old[d] /\ until_timestamp'[d] = until_timestamp[d]
  /\ sync_old_done'[d] = sync_old_done[d] /\ applied'[d] = applied[d]

\* resume at the mark,
Resume(d) ==
  /\ HasMark(d) /\ mark'[d] = mark[d]
  /\ binlog_index'[d] = mark[d].binlog_index /\ sync_old_done'[d] = mark[d].sync_old_done
  /\ need_sync_old'[d] = need_sync_old[d] /\ until_timestamp'[d] = until_timestamp[d]
  /\ applied'[d] = applied[d]

\* or start at the first file.
Fresh(d) == binlog_index'[d] = 0 /\ mark'[d] = Empty

\* A reader reaches the end of file only by reading there.
EofRead(d) ==
  rpc'[d] = "eof" => /\ binlog_index'[d] = binlog_index[d] /\ binlog_offset'[d] = binlog_offset[d]
                     /\ binlog_offset[d] >= Len(File(d))

\* Every step of a sync thread is one of these.
LEMMA GapEffect ==
  ASSUME TypeInv, NEW d \in Dest, SyncThread(d)
  PROVE  /\ files' = files /\ g_binlog_index' = g_binlog_index
         /\ Quiet(d) \/ NextFile(d) \/ Resume(d) \/ Fresh(d)
         /\ EofRead(d)
<1>1. rpc \in [Dest -> ReaderPC] /\ mark \in [Dest -> MarkRecord]
      /\ skipping \in [Dest -> BOOLEAN] /\ sync_old_done \in [Dest -> BOOLEAN]
      /\ need_sync_old \in [Dest -> BOOLEAN] /\ until_timestamp \in [Dest -> Nat]
      /\ binlog_index \in [Dest -> Nat] /\ binlog_offset \in [Dest -> Nat]
      /\ applied \in [Dest -> SUBSET Nat]
  BY DEF TypeInv, TypeOK
<1> DEFINE Same == files' = files /\ g_binlog_index' = g_binlog_index
<1> USE DEF Quiet, EofRead, position, disk, size, writer, reader, joinInfo, rows, world, vars, Goto, MarkTruncate, Break,
            NoMoreData
<1>2. CheckIndex(d) \/ CheckSize(d) \/ ReadRecord(d) \/ ReadEof(d) => Same /\ Quiet(d) /\ EofRead(d)
  BY <1>1 DEF CheckIndex, CheckSize, ReadRecord, ReadEof
<1>3. ReadPartial(d) \/ ReadInvalid(d) \/ SyncFails(d) \/ ConnectionLost(d) => Same /\ Quiet(d) /\ EofRead(d)
  BY <1>1 DEF ReadPartial, ReadInvalid, SyncFails, ConnectionLost
<1>4. SkipRecord(d) \/ Advance(d) => Same /\ Quiet(d) /\ EofRead(d)
  BY <1>1 DEF SkipRecord, Advance
<1>5. ReportSyncDone(d) \/ Wait(d) \/ SyncSkip(d) \/ SyncSend(d) \/ SyncAck(d) => Same /\ Quiet(d) /\ EofRead(d)
  BY <1>1 DEF ReportSyncDone, Wait, SyncSkip, SyncSend, SyncAck
<1>6. MarkWriteFails(d) \/ ReaderInitFails(d) => Same /\ Quiet(d) /\ EofRead(d)
  BY <1>1 DEF MarkWriteFails, ReaderInitFails
<1>7. MarkWrite(d) => Same /\ Quiet(d) /\ EofRead(d)
  <2> SUFFICES ASSUME MarkWrite(d) PROVE Same /\ Quiet(d) /\ EofRead(d)
    OBVIOUS
  <2>1. /\ rpc[d] \in MarkPC /\ rpc'[d] = AfterMark[rpc[d]]
        /\ UNCHANGED <<files, g_binlog_index, binlog_index, binlog_offset, need_sync_old,
                       until_timestamp, applied, sync_old_done>>
        /\ mark'[d] = Mark("full", binlog_index[d], binlog_offset[d], sync_old_done[d])
    BY <1>1 DEF MarkWrite
  <2>2. rpc'[d] # "eof"
    BY <2>1, AfterMarkPC
  <2> QED
    BY <2>1, <2>2
<1>8. Rotate(d) => Same /\ (Quiet(d) \/ NextFile(d)) /\ EofRead(d)
  BY <1>1 DEF Rotate, NextFile
<1>9. ReaderInit(d) => Same /\ Resume(d) /\ EofRead(d)
  BY <1>1 DEF ReaderInit, HasMark, Resume
<1>10. ReaderInitNew(d) => Same /\ Fresh(d) /\ EofRead(d)
  BY <1>1 DEF ReaderInitNew, Fresh
<1> HIDE DEF Quiet, EofRead
<1> QED
  BY <1>2, <1>3, <1>4, <1>5, <1>6, <1>7, <1>8, <1>9, <1>10 DEF SyncThread

\* The number of the current file changes only by a rotation that overtakes no
\* reader, or at a restart.
LEMMA NewFile ==
  ASSUME [Next]_vars, g_binlog_index' # g_binlog_index
  PROVE  OpenNextWritableBinlog \/ SyncInit
<1> USE DEF disk, size, writer, reader, position, joinInfo, rows, world, vars
<1>1. CASE BinlogWrite \/ BinlogSyncFunc \/ Flush
  BY <1>1 DEF BinlogWrite, BinlogSyncFunc, Flush, FlushWrite, FlushWriteFails, Fsync, FsyncFails,
       FlushEnd, IndexTruncate, IndexWrite, ResetFileSize, RotateFails,
       DirectWriteHeader, DirectWriteRest, DirectWriteFails
<1>2. CASE Process
  BY <1>2 DEF Process, Crash, Terminate, SyncDestroy, Exit, SyncInitFails, Gone
<1>3. ASSUME NEW d \in Dest, SyncThread(d) PROVE UNCHANGED g_binlog_index
  BY <1>3 DEF SyncThread, ReaderInit, ReaderInitFails, ReaderInitNew, CheckIndex, CheckSize, ReadRecord,
       SkipRecord, ReadPartial, ReadInvalid, ReadEof, Rotate, SyncSkip, SyncSend, SyncFails, SyncAck,
       Advance, ReportSyncDone, Wait, ConnectionLost, MarkWrite, MarkWriteFails
<1> QED
  BY <1>1, <1>2, <1>3 DEF Next

\* The sync threads end with the process, and no other step happens then.
LEMMA ThreadsGoneStep ==
  ASSUME TypeInv, ThreadsGone, [Next]_vars
  PROVE  ThreadsGone'
<1> USE DEF ThreadsGone, Running, disk, size, writer, reader, position, joinInfo, rows, world, vars
<1>0. run \in {"up", "stopping", "closing", "down"}
  BY DEF TypeInv, TypeOK
<1>1. CASE BinlogWrite \/ BinlogSyncFunc \/ Flush
  BY <1>1 DEF BinlogWrite, BinlogSyncFunc, Flush, FlushWrite, FlushWriteFails, Fsync, FsyncFails,
       FlushEnd, IndexTruncate, IndexWrite, OpenNextWritableBinlog, ResetFileSize, RotateFails,
       DirectWriteHeader, DirectWriteRest, DirectWriteFails
<1>2. CASE Process
  BY <1>2 DEF Process, Crash, Terminate, SyncDestroy, Exit, SyncInit, SyncInitFails, Gone
<1>3. ASSUME NEW d \in Dest, SyncThread(d) PROVE run' # "down"
  BY <1>0, <1>3 DEF SyncThread, ReaderInit, ReaderInitFails, ReaderInitNew, CheckIndex, CheckSize,
       ReadRecord, SkipRecord, ReadPartial, ReadInvalid, ReadEof, Rotate, SyncSkip, SyncSend,
       SyncFails, SyncAck, Advance, ReportSyncDone, Wait, ConnectionLost, MarkWrite, MarkWriteFails
<1>4. CASE UNCHANGED vars
  BY <1>4
<1> QED
  BY <1>1, <1>2, <1>3, <1>4 DEF Next

\* A step of the sync thread of d leaves a file only when all of it is settled.
LEMMA GapReader ==
  ASSUME GapInv, TypeInv', ~Preempt, NEW d \in Dest, SyncThread(d)
  PROVE  (AtEnd(d) /\ PosLeft(d) /\ MarkLeft(d))'
<1> DEFINE need == need_sync_old[d]
           until == until_timestamp[d]
<1>1. /\ PosInv /\ TypeInv /\ PosSafe(d)
      /\ AtEnd(d) /\ PosLeft(d) /\ MarkLeft(d)
  BY DEF GapInv, MarkInv, PosInv
<1>2. /\ files' = files /\ g_binlog_index' = g_binlog_index
      /\ Quiet(d) \/ NextFile(d) \/ Resume(d) \/ Fresh(d)
      /\ EofRead(d)
  BY <1>1, GapEffect
<1>3. AtEnd(d)'
  BY <1>2 DEF AtEnd, File, EofRead
<1>4. sync_old_done[d] \in BOOLEAN /\ sync_old_done'[d] \in BOOLEAN
      /\ binlog_index[d] \in Nat /\ binlog_offset[d] \in Nat
  BY <1>1 DEF TypeInv, TypeOK
<1>5. mark'[d] = Empty => MarkLeft(d)'
  BY MarkFields DEF MarkLeft, HasMark
<1>6. CASE Quiet(d)
  <2>1. /\ applied[d] \subseteq applied'[d]
        /\ sync_old_done[d] => sync_old_done'[d]
        /\ need_sync_old'[d] = need /\ until_timestamp'[d] = until
        /\ binlog_index'[d] = binlog_index[d]
    BY <1>6 DEF Quiet
  <2>2. LeftFine(files, binlog_index[d], applied[d], need, until, sync_old_done[d])
    BY <1>1 DEF PosLeft
  <2>0. ASSUME NEW i, NEW done \in BOOLEAN, NEW done2 \in BOOLEAN, done => done2,
               LeftFine(files, i, applied[d], need, until, done)
        PROVE  LeftFine(files, i, applied'[d], need, until, done2)
    <3> SUFFICES ASSUME NEW j \in 0 .. i - 1, NEW k \in 1 .. Len(files[j])
                 PROVE  Fine(files[j][k], applied'[d], need, until, done2)
      BY DEF LeftFine, FineUpTo
    <3>1. Fine(files[j][k], applied[d], need, until, done)
      BY <2>0 DEF LeftFine, FineUpTo
    <3>2. \A r : r \in applied[d] => r \in applied'[d]
      BY <2>1
    <3> QED
      BY <2>0, <3>1, <3>2 DEF Fine
  <2>3. LeftFine(files, binlog_index[d], applied'[d], need, until, sync_old_done'[d])
    BY <1>4, <2>0, <2>1, <2>2
  <2>4. PosLeft(d)'
    BY <1>2, <2>1, <2>3 DEF PosLeft
  <2>5. CASE mark'[d] = mark[d]
    <3>1. mark[d].sync_old_done \in BOOLEAN
      BY <1>1, DestTypes
    <3>2. ASSUME HasMark(d)
          PROVE  LeftFine(files, mark[d].binlog_index, applied'[d], need, until, mark[d].sync_old_done)
      <4>1. LeftFine(files, mark[d].binlog_index, applied[d], need, until, mark[d].sync_old_done)
        BY <1>1, <3>2 DEF MarkLeft
      <4> QED
        BY <2>0, <3>1, <4>1
    <3>3. MarkLeft(d)'
      BY <1>2, <2>1, <2>5, <3>2 DEF MarkLeft, HasMark
    <3> QED
      BY <1>3, <2>4, <3>3
  <2>6. CASE /\ mark'[d] = Mark("full", binlog_index[d], binlog_offset[d], sync_old_done[d])
             /\ sync_old_done'[d] = sync_old_done[d]
    <3>1. /\ mark'[d].binlog_index = binlog_index[d] /\ mark'[d].binlog_offset = binlog_offset[d]
          /\ mark'[d].sync_old_done = sync_old_done[d]
      <4>1. mark'[d] = Mark("full", binlog_index[d], binlog_offset[d], sync_old_done[d])
        BY <2>6
      <4> QED
        BY <4>1, MarkFields, Zenon
    <3>2. MarkLeft(d)'
      BY <1>2, <2>1, <2>3, <2>6, <3>1 DEF MarkLeft
    <3> QED
      BY <1>3, <2>4, <3>2
  <2> QED
    BY <1>3, <1>5, <1>6, <2>4, <2>5, <2>6 DEF Quiet
<1>7. CASE NextFile(d)
  <2>1. File(d) \in Seq(Nat) /\ Len(File(d)) \in Nat /\ binlog_offset[d] >= Len(File(d))
    BY <1>1, <1>7, InFile, LenProperties DEF AtEnd, NextFile
  <2>2. FineUpTo(File(d), binlog_offset[d], applied[d], need, until, sync_old_done[d])
    BY <1>1 DEF PosSafe, Safe, File
  <2>3. FineUpTo(File(d), Len(File(d)), applied[d], need, until, sync_old_done[d])
    BY <1>4, <2>1, <2>2, FineShorter
  <2>4. LeftFine(files, binlog_index[d] + 1, applied[d], need, until, sync_old_done[d])
    BY <1>1, <1>4, <2>3, LeftExtends DEF PosLeft, File
  <2>5. PosLeft(d)'
    BY <1>2, <1>7, <2>4 DEF PosLeft, NextFile
  <2> QED
    BY <1>3, <1>5, <1>7, <2>5 DEF NextFile
<1>8. CASE Resume(d)
  <2>1. PosLeft(d)' /\ MarkLeft(d)'
    BY <1>1, <1>2, <1>8 DEF PosLeft, MarkLeft, HasMark, Resume
  <2> QED
    BY <1>3, <2>1
<1>9. CASE Fresh(d)
  <2>1. PosLeft(d)'
    BY <1>9, LeftNone DEF PosLeft, Fresh
  <2> QED
    BY <1>3, <1>5, <1>9, <2>1 DEF Fresh
<1> QED
  BY <1>2, <1>6, <1>7, <1>8, <1>9

\* The other steps keep it: they leave the files before a reader's alone, and a
\* rotation overtakes no reader that is about to test g_binlog_index.
LEMMA GapOthers ==
  ASSUME GapInv, TypeInv', ~Preempt, FilesKept, [Next]_vars, NEW d \in Dest, Untouched(d)
  PROVE  (AtEnd(d) /\ PosLeft(d) /\ MarkLeft(d))'
<1> DEFINE need == need_sync_old[d]
           until == until_timestamp[d]
<1>1. /\ PosInv /\ TypeInv /\ ThreadsGone
      /\ AtEnd(d) /\ PosLeft(d) /\ MarkLeft(d)
  BY DEF GapInv, MarkInv, PosInv
<1>2. /\ binlog_index[d] \in 0 .. g_binlog_index /\ mark[d].binlog_index \in 0 .. g_binlog_index
      /\ g_binlog_index \in Nat
  BY <1>1, InFile DEF TypeInv, TypeOK
<1>3. \A i \in 0 .. g_binlog_index - 1 : files'[i] = files[i]
  BY DEF FilesKept
<1>4. ASSUME NEW i \in 0 .. g_binlog_index, NEW done,
             LeftFine(files, i, applied[d], need, until, done)
      PROVE  LeftFine(files', i, applied[d], need, until, done)
  <2> SUFFICES ASSUME NEW j \in 0 .. i - 1
               PROVE  FineUpTo(files'[j], Len(files'[j]), applied[d], need, until, done)
    BY DEF LeftFine
  <2>1. FineUpTo(files[j], Len(files[j]), applied[d], need, until, done)
    BY <1>4 DEF LeftFine
  <2>2. j \in 0 .. g_binlog_index - 1
    BY <1>2
  <2> QED
    BY <1>3, <2>1, <2>2
<1>5. PosLeft(d)'
  <2>1. LeftFine(files', binlog_index[d], applied[d], need, until, sync_old_done[d])
    BY <1>1, <1>2, <1>4 DEF PosLeft
  <2> QED
    BY <2>1 DEF PosLeft, Untouched
<1>6. MarkLeft(d)'
  <2>1. HasMark(d) => LeftFine(files', mark[d].binlog_index, applied[d], need, until,
                               mark[d].sync_old_done)
    BY <1>1, <1>2, <1>4 DEF MarkLeft
  <2> QED
    BY <2>1 DEF MarkLeft, HasMark, Untouched
<1>7. AtEnd(d)'
  <2> SUFFICES ASSUME rpc'[d] = "eof", binlog_index[d] < g_binlog_index'
               PROVE  binlog_offset[d] >= Len(files'[binlog_index[d]])
    BY DEF AtEnd, File, Untouched
  <2>1. rpc[d] = "eof"
    BY DEF Untouched
  <2>2. CASE binlog_index[d] < g_binlog_index
    <3>1. binlog_offset[d] >= Len(files[binlog_index[d]])
      BY <1>1, <2>1, <2>2 DEF AtEnd, File
    <3>2. binlog_index[d] \in 0 .. g_binlog_index - 1
      BY <1>2, <2>2
    <3> QED
      BY <1>3, <3>1, <3>2
  <2>3. CASE binlog_index[d] = g_binlog_index
    <3>1. OpenNextWritableBinlog \/ SyncInit
      BY <1>2, <2>3, NewFile
    <3>2. ~SyncInit
      BY <1>1, <2>1 DEF SyncInit, ThreadsGone
    <3>3. ~OpenNextWritableBinlog
      BY <2>1, <2>3 DEF OpenNextWritableBinlog, MayOvertake
    <3> QED
      BY <3>1, <3>2, <3>3
  <2>4. binlog_index[d] < g_binlog_index \/ binlog_index[d] = g_binlog_index
    BY <1>2
  <2> QED
    BY <2>2, <2>3, <2>4
<1> QED
  BY <1>5, <1>6, <1>7

\* Every step preserves the invariant across files.
LEMMA GapStep == GapInv /\ [Next]_vars => GapInv'
<1> SUFFICES ASSUME GapInv, [Next]_vars PROVE GapInv'
  OBVIOUS
<1>1. PosInv /\ TypeInv /\ MarkInv' /\ TypeInv' /\ FilesKept /\ ThreadsGone'
  BY MarkStep, StepKeepsFiles, ThreadsGoneStep DEF GapInv, MarkInv, PosInv
<1>2. ASSUME ~Preempt, NEW d \in Dest PROVE (AtEnd(d) /\ PosLeft(d) /\ MarkLeft(d))'
  <2>1. CASE SyncThread(d)
    BY <1>1, <1>2, <2>1, GapReader
  <2>2. CASE ~SyncThread(d)
    <3>1. Untouched(d)
      BY <1>1, <2>2, OthersKeep
    <3> QED
      BY <1>1, <1>2, <3>1, GapOthers
  <2> QED
    BY <2>1, <2>2
<1> QED
  BY <1>1, <1>2 DEF GapInv

\* The initial state.
LEMMA GapInit == Init => GapInv
<1> SUFFICES ASSUME Init PROVE GapInv
  OBVIOUS
<1>1. ThreadsGone
  BY DEF Init, ThreadsGone
<1>2. ASSUME NEW d \in Dest PROVE AtEnd(d) /\ PosLeft(d) /\ MarkLeft(d)
  <2>1. rpc[d] = "off" /\ binlog_index[d] = 0 /\ ~HasMark(d)
    BY DEF Init, HasMark, NoFile, Mark
  <2> QED
    BY <2>1, LeftNone DEF AtEnd, PosLeft, MarkLeft
<1> QED
  BY <1>1, <1>2, MarkInit DEF GapInv

\* The invariant says what NoGap says.
LEMMA GapInvImplies == ~Preempt /\ GapInv => NoGap
<1> SUFFICES ASSUME ~Preempt, GapInv, NEW d \in Dest, HasMark(d),
                    NEW i \in 0 .. mark[d].binlog_index - 1
             PROVE  SettledUpTo(d, i, Len(files[i]), mark[d].sync_old_done)
  BY DEF NoGap
<1>1. PosInv /\ TypeInv /\ MarkLeft(d)
  BY DEF GapInv, MarkInv, PosInv
<1>2. i \in 0 .. g_binlog_index
  <2>1. g_binlog_index \in Nat
    BY <1>1 DEF TypeInv, TypeOK
  <2>2. mark[d].binlog_index \in 0 .. g_binlog_index
    BY <1>1, InFile
  <2> QED
    BY <2>1, <2>2
<1>3. Safe(d, i, Len(files[i]), mark[d].sync_old_done)
  BY <1>1 DEF MarkLeft, LeftFine, Safe
<1> QED
  BY <1>1, <1>2, <1>3, SafeIsSettled

\* When no rotation completes between a reader's read() at the end of a file and
\* its test of g_binlog_index, fdht_binlog_read leaves no record behind in any
\* file: the race that the unlocked test allows is the only way to lose one.
THEOREM NoGapAlways == ASSUME ~Preempt PROVE Spec => []NoGap
<1>1. GapInv => NoGap
  BY GapInvImplies
<1> QED
  BY <1>1, GapInit, GapStep, PTL DEF Spec
=============================================================================
