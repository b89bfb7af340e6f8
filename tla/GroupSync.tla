----------------------------- MODULE GroupSync ------------------------------
(***************************************************************************)
(* A new server joins a group (deal_cmd_sync_req and deal_cmd_sync_done in *)
(* server/work_thread.c, fdht_sync_req and its callers in server/sync.c).  *)
(* Every other server asks the joiner who is to push the old data and      *)
(* until when.  The source it chooses pushes its whole binlog, replica     *)
(* records included; the others wait until the source has reported the     *)
(* end, skip what is older than the join and push their own new records.   *)
(*                                                                         *)
(* The binlog of a peer is a sequence of records [origin, n, ts]: the n-th *)
(* write of the key whose home is origin, and its timestamp.  How records  *)
(* get from a call into the files and past a crash is module Binlog.       *)
(***************************************************************************)
EXTENDS Integers, Sequences, FiniteSets

CONSTANTS
  Peers,      \* the other servers are 1 .. Peers, in the order of g_group_servers
  Scenarios,  \* the circumstances to explore
  MaxTime     \* bound of the exploration

Peer == 1 .. Peers
None == 0
Joiner == 0

\* What may happen in a join, and bounds on how often.
Scenario ==
  [old_done : SUBSET Peer,     \* the peers that have their old data (their g_sync_old_done)
   writers : SUBSET Peer,      \* the peers that clients write to
   in_step : BOOLEAN,          \* does a write reach the other peers at once
   wait_out : BOOLEAN,         \* may SYNC_REQ_WAIT_SECONDS pass before all peers have asked
   lose_answer : BOOLEAN,      \* may the answer to a request of a peer get lost
   writes : Nat, crashes : Nat]

ASSUME GroupAssumption ==
  Peers \in Nat \ {0} /\ Scenarios \subseteq Scenario /\ MaxTime \in Nat

VARIABLES
  env,             \* the scenario
  now,             \* g_current_time of every server
  \* the peers
  log,             \* binlog of each peer
  sent,            \* how much of its binlog a peer has pushed to another peer
  value,           \* value[s][k]: which write of key k server s holds
  \* the joiner
  up,
  g_sync_old_done, g_sync_src, g_sync_until_timestamp,
  asked,           \* peers with sync_req_count > 0
  update_count,    \* as given by their last request
  wait,            \* first_sync_req_time and SYNC_REQ_WAIT_SECONDS
  ini,             \* .data_init_flag
  seen,            \* history: the writes <<origin, n>> that were applied
  covered,         \* history: the source had all older records when it reported the end
  \* the sync thread of each peer for the joiner
  rpc, offset, need_sync_old, sync_old_done, until_timestamp,
  mark,            \* saved offset, or -1 without a mark file
  mark_done,       \* saved sync_old_done
  crashes

peers == <<env, log, sent>>
joined == <<g_sync_old_done, g_sync_src, g_sync_until_timestamp, covered>>
requests == <<asked, update_count, wait>>
joinInfo == <<need_sync_old, sync_old_done, until_timestamp>>
reader == <<rpc, offset, joinInfo, mark, mark_done>>
vars == <<now, peers, value, up, joined, requests, ini, seen, reader, crashes>>

EmptyIni == [done |-> FALSE, src |-> None, until |-> -1]
Globals == [done |-> g_sync_old_done, src |-> g_sync_src, until |-> g_sync_until_timestamp]

(***************************************************************************)
(* The peers among themselves.                                             *)
(***************************************************************************)

Tick ==
  /\ now < MaxTime /\ now' = now + 1
  /\ UNCHANGED <<peers, value, up, joined, requests, ini, seen, reader, crashes>>

\* A client sets the key whose home is p.
Write(p) ==
  /\ p \in env.writers /\ value[p][p] < env.writes
  /\ LET r == [origin |-> p, n |-> value[p][p] + 1, ts |-> now]
         to == IF env.in_step THEN Peer ELSE {p}
     IN  /\ log' = [q \in Peer |-> IF q \in to THEN Append(log[q], r) ELSE log[q]]
         /\ value' = [s \in DOMAIN value |->
                        IF s \in to THEN [value[s] EXCEPT ![p] = r.n] ELSE value[s]]
  /\ UNCHANGED <<env, now, sent, up, joined, requests, ini, seen, reader, crashes>>

\* fdht_sync_data of peer p for another peer q, which needs no old data: source
\* records are applied and logged by q, replica records are passed over.
Replicate(p, q) ==
  /\ ~env.in_step /\ sent[p][q] < Len(log[p])
  /\ sent' = [sent EXCEPT ![p][q] = @ + 1]
  /\ LET r == log[p][sent[p][q] + 1]
     IN  IF r.origin = p
           THEN /\ log' = [log EXCEPT ![q] = Append(@, r)]
                /\ value' = [value EXCEPT ![q][p] = r.n]
           ELSE UNCHANGED <<log, value>>
  /\ UNCHANGED <<env, now, up, joined, requests, ini, seen, reader, crashes>>

(***************************************************************************)
(* Choosing the source: deal_cmd_sync_req.                                 *)
(***************************************************************************)

\* The server to push the old data, None while it is not known: the first one
\* if it has its old data; if nobody has, the one with the most updates; once
\* the wait is over, the next one that has.
Source(rep, count, over) ==
  LET best == CHOOSE q \in Peer :
                \A r \in Peer : count[q] > count[r] \/ (count[q] = count[r] /\ q <= r)
      ready == {q \in Peer \ {1} : q \in rep \cap env.old_done}
  IN  CASE 1 \in rep \cap env.old_done -> 1
        [] rep = Peer /\ env.old_done = {} -> best
        [] OTHER ->
             IF over /\ ready # {} THEN CHOOSE q \in ready : \A r \in ready : q <= r ELSE None

\* fdht_reader_init goes on with the answer: who is not the source skips what
\* is older than the join (fdht_binlog_reader_skip); the mark file is written.
Start(p, ans) ==
  LET young == {k \in DOMAIN log[p] : log[p][k].ts >= ans.until}
      pos == IF ans.src = p \/ ans.until = 0 THEN 0
             ELSE IF young = {} THEN Len(log[p])
             ELSE (CHOOSE k \in young : \A j \in young : k <= j) - 1
  IN  /\ rpc' = [rpc EXCEPT ![p] = "run"]
      /\ offset' = [offset EXCEPT ![p] = pos] /\ mark' = [mark EXCEPT ![p] = pos]
      /\ need_sync_old' = [need_sync_old EXCEPT ![p] = (ans.src = p)]
      /\ sync_old_done' = [sync_old_done EXCEPT ![p] = ans.done]
      /\ mark_done' = [mark_done EXCEPT ![p] = ans.done]
      /\ until_timestamp' = [until_timestamp EXCEPT ![p] = ans.until]

\* A request when the joiner has its old data.
SyncReqDone(p) ==
  /\ up /\ rpc[p] = "off" /\ mark[p] = -1 /\ g_sync_old_done
  /\ Start(p, Globals)
  /\ UNCHANGED <<now, peers, value, up, joined, requests, ini, seen, crashes>>

\* Mutant: a server that is not the source gets an answer too.
SyncReqAnyone(p) ==
  /\ up /\ rpc[p] = "off" /\ mark[p] = -1 /\ ~g_sync_old_done
  /\ asked' = asked \cup {p}
  /\ update_count' = [update_count EXCEPT ![p] = Len(log[p])]
  /\ wait' = IF wait = "none" THEN "waiting" ELSE wait
  /\ LET q == Source(asked', update_count', wait = "over")
     IN  IF q # None
           THEN /\ IF update_count'[q] > 0
                     THEN /\ g_sync_src' = q /\ g_sync_until_timestamp' = now
                          /\ UNCHANGED <<g_sync_old_done, covered>>
                     ELSE /\ g_sync_old_done' = TRUE
                          /\ UNCHANGED <<g_sync_src, g_sync_until_timestamp, covered>>
                /\ ini' = EmptyIni
                /\ rpc' = [rpc EXCEPT ![p] = "answer"]
           ELSE UNCHANGED <<joined, ini, rpc>>
  /\ UNCHANGED <<now, peers, value, up, seen, offset, joinInfo, mark, mark_done, crashes>>

\* A request otherwise: EAGAIN or ENOENT unless p is the source.  The answer
\* waits for write_to_sync_ini_file, which truncates the file first.
SyncReq(p) ==
  /\ up /\ rpc[p] = "off" /\ mark[p] = -1 /\ ~g_sync_old_done
  /\ asked' = asked \cup {p}
  /\ update_count' = [update_count EXCEPT ![p] = Len(log[p])]
  /\ wait' = IF wait = "none" THEN "waiting" ELSE wait
  /\ IF Source(asked', update_count', wait = "over") = p
       THEN /\ IF Len(log[p]) > 0
                 THEN /\ g_sync_src' = p /\ g_sync_until_timestamp' = now
                      /\ UNCHANGED <<g_sync_old_done, covered>>
                 ELSE /\ g_sync_old_done' = TRUE
                      /\ UNCHANGED <<g_sync_src, g_sync_until_timestamp, covered>>
            /\ ini' = EmptyIni
            /\ rpc' = [rpc EXCEPT ![p] = "answer"]
       ELSE UNCHANGED <<joined, ini, rpc>>
  /\ UNCHANGED <<now, peers, value, up, seen, offset, joinInfo, mark, mark_done, crashes>>

WaitOver ==
  /\ env.wait_out /\ up /\ wait = "waiting"
  /\ wait' = "over"
  /\ UNCHANGED <<now, peers, value, up, joined, asked, update_count, ini, seen, reader, crashes>>

\* The ini file is written and the answer sent.
Answer(p) ==
  /\ up /\ rpc[p] = "answer"
  /\ ini' = Globals
  /\ Start(p, Globals)
  /\ UNCHANGED <<now, peers, value, up, joined, requests, seen, crashes>>

(***************************************************************************)
(* Pushing.                                                                *)
(***************************************************************************)

\* Mutant: the reader starts behind the record of its mark.
ResumeLate(p) ==
  /\ up /\ rpc[p] = "off" /\ mark[p] >= 0
  /\ rpc' = [rpc EXCEPT ![p] = "run"]
  /\ offset' = [offset EXCEPT ![p] = mark[p] + 1]
  /\ sync_old_done' = [sync_old_done EXCEPT ![p] = mark_done[p]]
  /\ UNCHANGED <<now, peers, value, up, joined, requests, ini, seen, need_sync_old,
                 until_timestamp, mark, mark_done, crashes>>

\* fdht_reader_init with a mark file.
Resume(p) ==
  /\ up /\ rpc[p] = "off" /\ mark[p] >= 0
  /\ rpc' = [rpc EXCEPT ![p] = "run"]
  /\ offset' = [offset EXCEPT ![p] = mark[p]]
  /\ sync_old_done' = [sync_old_done EXCEPT ![p] = mark_done[p]]
  /\ UNCHANGED <<now, peers, value, up, joined, requests, ini, seen, need_sync_old,
                 until_timestamp, mark, mark_done, crashes>>

\* Mutant: the source pushes its own records only.
PushOwn(p) ==
  /\ up /\ rpc[p] = "run" /\ offset[p] < Len(log[p])
  /\ LET r == log[p][offset[p] + 1]
     IN  IF r.origin = p
           THEN /\ value' = [value EXCEPT ![Joiner][r.origin] = r.n]
                /\ seen' = seen \cup {<<r.origin, r.n>>}
           ELSE UNCHANGED <<value, seen>>
  /\ offset' = [offset EXCEPT ![p] = @ + 1]
  /\ UNCHANGED <<now, peers, up, joined, requests, ini, rpc, joinInfo, mark, mark_done, crashes>>


\* fdht_sync_data for the joiner.
Push(p) ==
  /\ up /\ rpc[p] = "run" /\ offset[p] < Len(log[p])
  /\ LET r == log[p][offset[p] + 1]
     IN  IF \/ r.origin = p
            \/ need_sync_old[p] /\ ~sync_old_done[p] /\ r.ts <= until_timestamp[p]
           THEN /\ value' = [value EXCEPT ![Joiner][r.origin] = r.n]
                /\ seen' = seen \cup {<<r.origin, r.n>>}
           ELSE UNCHANGED <<value, seen>>
  /\ offset' = [offset EXCEPT ![p] = @ + 1]
  /\ UNCHANGED <<now, peers, up, joined, requests, ini, rpc, joinInfo, mark, mark_done, crashes>>

\* The session ends and saves its position.
EndSession(p) ==
  /\ rpc' = [rpc EXCEPT ![p] = "off"]
  /\ mark' = [mark EXCEPT ![p] = offset[p]]
  /\ mark_done' = [mark_done EXCEPT ![p] = sync_old_done[p]]

\* The source has its answer and saves it.
Reported(p) ==
  /\ rpc' = [rpc EXCEPT ![p] = "run"]
  /\ sync_old_done' = [sync_old_done EXCEPT ![p] = TRUE]
  /\ mark' = [mark EXCEPT ![p] = offset[p]] /\ mark_done' = [mark_done EXCEPT ![p] = TRUE]

\* fdht_report_sync_done and deal_cmd_sync_done: EINVAL when p is not the
\* source (any more); otherwise the answer waits for write_to_sync_ini_file.
ReportSyncDone(p) ==
  /\ up /\ rpc[p] = "run" /\ offset[p] = Len(log[p])
  /\ need_sync_old[p] /\ ~sync_old_done[p]
  /\ \/ /\ g_sync_src # p /\ EndSession(p)
        /\ UNCHANGED <<g_sync_old_done, covered, ini, sync_old_done>>
     \/ /\ g_sync_src = p /\ g_sync_old_done /\ Reported(p)
        /\ UNCHANGED <<g_sync_old_done, covered, ini>>
     \/ /\ g_sync_src = p /\ ~g_sync_old_done
        /\ g_sync_old_done' = TRUE /\ ini' = EmptyIni
        /\ covered' = \A q \in Peer : \A k \in DOMAIN log[q] :
                        log[q][k].ts < g_sync_until_timestamp =>
                          log[q][k] \in {log[p][j] : j \in DOMAIN log[p]}
        /\ rpc' = [rpc EXCEPT ![p] = "notify"]
        /\ UNCHANGED <<sync_old_done, mark, mark_done>>
  /\ UNCHANGED <<now, peers, value, up, g_sync_src, g_sync_until_timestamp, requests, seen, offset,
                 need_sync_old, until_timestamp, crashes>>

SyncDone(p) ==
  /\ up /\ rpc[p] = "notify"
  /\ ini' = Globals /\ Reported(p)
  /\ UNCHANGED <<now, peers, value, up, joined, requests, seen, offset, need_sync_old,
                 until_timestamp, crashes>>

\* The ini file is written and the answer lost.
AnswerLost(p) ==
  /\ env.lose_answer /\ up /\ ini' = Globals
  /\ \/ rpc[p] = "answer" /\ rpc' = [rpc EXCEPT ![p] = "off"] /\ UNCHANGED <<mark, mark_done>>
     \/ rpc[p] = "notify" /\ EndSession(p)
  /\ UNCHANGED <<now, peers, value, up, joined, requests, seen, offset, joinInfo, crashes>>

ConnectionLost(p) ==
  /\ rpc[p] = "run" /\ EndSession(p)
  /\ UNCHANGED <<now, peers, value, up, joined, requests, ini, seen, offset, joinInfo, crashes>>

\* The peer crashes and comes back with its mark file.
PeerCrash(p) ==
  /\ rpc[p] = "run" /\ crashes < env.crashes
  /\ crashes' = crashes + 1
  /\ rpc' = [rpc EXCEPT ![p] = "off"]
  /\ UNCHANGED <<now, peers, value, up, joined, requests, ini, seen, offset, joinInfo, mark,
                 mark_done>>

\* The joiner crashes: its requests are forgotten, its sessions end.
JoinerCrash ==
  /\ up /\ crashes < env.crashes
  /\ crashes' = crashes + 1
  /\ up' = FALSE
  /\ asked' = {} /\ update_count' = [p \in Peer |-> 0] /\ wait' = "none"
  /\ rpc' = [p \in Peer |-> "off"]
  /\ mark' = [p \in Peer |-> IF rpc[p] = "run" THEN offset[p] ELSE mark[p]]
  /\ mark_done' = [p \in Peer |-> IF rpc[p] = "run" THEN sync_old_done[p] ELSE mark_done[p]]
  /\ UNCHANGED <<now, peers, value, joined, ini, seen, offset, joinInfo>>

\* Mutant: the source is not read back.
JoinerStartNoSource ==
  /\ ~up /\ ini # EmptyIni
  /\ up' = TRUE
  /\ g_sync_old_done' = ini.done /\ g_sync_src' = None /\ g_sync_until_timestamp' = ini.until
  /\ UNCHANGED <<now, peers, value, covered, requests, ini, seen, reader, crashes>>

\* load_sync_init_data; a file without its items is an error, at every start.
JoinerStart ==
  /\ ~up /\ ini # EmptyIni
  /\ up' = TRUE
  /\ g_sync_old_done' = ini.done /\ g_sync_src' = ini.src /\ g_sync_until_timestamp' = ini.until
  /\ UNCHANGED <<now, peers, value, covered, requests, ini, seen, reader, crashes>>

JoinerStartFails == ~up /\ ini = EmptyIni /\ UNCHANGED vars

Init ==
  /\ env \in Scenarios /\ now = 1
  /\ log = [p \in Peer |-> <<>>] /\ sent = [p \in Peer |-> [q \in Peer |-> 0]]
  /\ value = [s \in {Joiner} \cup Peer |-> [k \in Peer |-> 0]]
  /\ up = TRUE /\ g_sync_old_done = FALSE /\ g_sync_src = None /\ g_sync_until_timestamp = 0
  /\ covered = TRUE /\ asked = {} /\ update_count = [p \in Peer |-> 0] /\ wait = "none"
  /\ ini = [done |-> FALSE, src |-> None, until |-> 0] /\ seen = {}
  /\ rpc = [p \in Peer |-> "off"] /\ offset = [p \in Peer |-> 0]
  /\ need_sync_old = [p \in Peer |-> FALSE] /\ sync_old_done = [p \in Peer |-> FALSE]
  /\ until_timestamp = [p \in Peer |-> 0]
  /\ mark = [p \in Peer |-> -1] /\ mark_done = [p \in Peer |-> FALSE]
  /\ crashes = 0

Session(p) ==
  \/ SyncReqDone(p) \/ SyncReq(p) \/ Answer(p) \/ Resume(p) \/ Push(p)
  \/ ReportSyncDone(p) \/ SyncDone(p)

Next ==
  \/ Tick \/ WaitOver \/ JoinerCrash \/ JoinerStart \/ JoinerStartFails
  \/ \E p \in Peer :
       \/ Write(p) \/ Session(p) \/ AnswerLost(p) \/ ConnectionLost(p) \/ PeerCrash(p)
       \/ \E q \in Peer \ {p} : Replicate(p, q)

Spec == Init /\ [][Next]_vars

\* The threads of running servers go on, servers are started again, time
\* passes, and the network does not fail for ever.
Fairness ==
  /\ WF_vars(WaitOver) /\ WF_vars(JoinerStart)
  /\ \A p \in Peer : /\ WF_vars(Session(p)) /\ SF_vars(Answer(p)) /\ SF_vars(Push(p))
                     /\ SF_vars(ReportSyncDone(p)) /\ SF_vars(SyncDone(p))

FairSpec == Spec /\ Fairness

(***************************************************************************)
(* Properties.                                                             *)
(***************************************************************************)

\* Type invariant: positions are within the logs, the joiner's data is that of
\* write_to_sync_ini_file.
TypeOK ==
  /\ env \in Scenarios /\ now \in Nat /\ crashes \in Nat /\ up \in BOOLEAN
  /\ log \in [Peer -> Seq([origin : Peer, n : Nat \ {0}, ts : Nat])]
  /\ sent \in [Peer -> [Peer -> Nat]]
  /\ value \in [{Joiner} \cup Peer -> [Peer -> Nat]]
  /\ g_sync_old_done \in BOOLEAN /\ g_sync_src \in Peer \cup {None}
  /\ g_sync_until_timestamp \in Nat /\ covered \in BOOLEAN
  /\ asked \subseteq Peer /\ update_count \in [Peer -> Nat] /\ wait \in {"none", "waiting", "over"}
  /\ ini \in [done : BOOLEAN, src : Peer \cup {None}, until : Nat \cup {-1}]
  /\ seen \subseteq Peer \X (Nat \ {0})
  /\ rpc \in [Peer -> {"off", "answer", "run", "notify"}]
  /\ offset \in [Peer -> Nat] /\ \A p \in Peer : offset[p] <= Len(log[p])
  /\ need_sync_old \in [Peer -> BOOLEAN] /\ sync_old_done \in [Peer -> BOOLEAN]
  /\ until_timestamp \in [Peer -> Nat]
  /\ mark \in [Peer -> Nat \cup {-1}] /\ mark_done \in [Peer -> BOOLEAN]

\* The join is over and everything has been pushed.
Quiet ==
  /\ up /\ g_sync_old_done
  /\ \A p \in Peer : rpc[p] = "run" /\ offset[p] = Len(log[p])
  /\ env.in_step \/ \A p \in Peer : \A q \in Peer \ {p} : sent[p][q] = Len(log[p])

\* One server is told to be the source, and no other one: only one has its old
\* data, or the first one has and asks before the joiner has waited long enough.
OneSource ==
  Cardinality(env.old_done) = 1 \/ (1 \in env.old_done /\ ~env.wait_out)

\* A peer skips old records (fdht_binlog_reader_skip) only when a source has
\* been told to push at least what is skipped: the joiner's until_timestamp, as
\* saved across restarts, is the one the source works with.
SkipCovered ==
  OneSource => \A p \in Peer : mark[p] >= 0 /\ ~need_sync_old[p] /\ until_timestamp[p] > 0 =>
    \E q \in Peer \ {p} : /\ mark[q] >= 0 /\ need_sync_old[q]
                          /\ until_timestamp[q] >= until_timestamp[p]

\* Every write of the group reaches the joiner, from its home or from the
\* source of the old data (deal_cmd_sync_req, fdht_sync_data), provided that the
\* source had what is older than the join when it reported the end.
NothingLost ==
  Quiet /\ covered => \A p \in Peer : \A n \in 1 .. value[p][p] : <<p, n>> \in seen

\* The data on a group is the same: in the end the joiner holds what the home of
\* each key holds.
SameData == Quiet => \A k \in Peer : value[Joiner][k] = value[k][k]


\* The join comes to its end, with lost connections and restarts, unless a
\* crash left an ini file without its items.
JoinCompletes == <>[](g_sync_old_done \/ (~up /\ ini = EmptyIni))

=============================================================================
