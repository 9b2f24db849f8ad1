------------------------------ MODULE DriveStore ------------------------------
(***************************************************************************)
(* Drive's storage engine (src/apps/drive/src/storage, the upload handler  *)
(* of http/server.ts and the boot of index.ts): an SQLite index over       *)
(* content-addressed files and an append-only journal, which the boot      *)
(* replays into the index.                                                 *)
(*                                                                         *)
(* The process is one event loop: a handler is one action up to its next   *)
(* await, and only the upload streams interleave.  A transaction of the    *)
(* index is undone by a crash, the journal lines and the renames it made   *)
(* are not: a crash is one of the process, what it wrote stays.  Names are *)
(* those of one ticket, uploads those of one principal; a body is told by  *)
(* its hash and counts as one byte.                                        *)
(***************************************************************************)
EXTENDS Integers, SequencesExt

CONSTANTS
  Upload,    \* (created_by, op_id) pairs: an upload session each
  Put,       \* requests that stream a body; a commit's version_id is its PUT
  Sha, Artifact, Name,
  None,
  Tokens,       \* fencing tokens an agent may echo; None is a person's
  MaxPending,   \* limits.maxPendingUploads
  Quota,        \* limits.dailyBytesQuota
  Bound         \* bounds: crashes, torn appends, lost indexes, failed
                \* commits, purges and operator calls in a behaviour

ASSUME DriveAssumption ==
  /\ None \notin Upload \cup Put \cup Sha \cup Artifact \cup Name /\ IsFiniteSet(Sha)
  /\ \A x \in Upload \cup Put \cup {None} : x \notin Artifact \X Nat   \* a marker's ids
  /\ Tokens \subseteq Nat \cup {None} /\ {MaxPending, Quota} \subseteq Nat
  /\ Bound \in [{"crash", "torn", "loss", "io", "purge", "operator"} -> Nat]

VARIABLES
  db,        \* the index: artifacts, artifact_versions, blobs, ticket_fences,
             \* uploads, daily_bytes
  journal,   \* journal/<year>/versions-<day>.ndjson
  staging,   \* staging/<upload>.part: the file of an upload
  cas,       \* blobs/sha256/...: the file of a hash
  content,   \* what the bytes of a file hash to; "short" when cut
  put,       \* PUT handlers under way
  status,    \* "up", "down", or "refused": the boot's replay threw
  acked,     \* history: versions answered with 201
  purged,    \* history: version_ids whose rows the collector deleted
  shared,    \* history: files that two streams had open at once
  unlogged,  \* history: versions whose commit failed and left its line, but
             \* not the line that calls it off
  left       \* what is left of Bound

fileVars == <<staging, cas, content>>
historyVars == <<acked, purged, shared, unlogged>>
vars == <<db, journal, fileVars, put, status, historyVars, left>>

NoUpload == [state |-> "none", art |-> None, name |-> None, token |-> None, bytes |-> 0]
EmptyIndex ==
  [row |-> [a \in Artifact |-> None],        \* an artifact's logical_name
   current |-> [a \in Artifact |-> None],    \* current_version_id
   versions |-> {},
   refs |-> [s \in Sha |-> -1],              \* refcount; -1 without a row
   fence |-> -1,
   upload |-> [u \in Upload |-> NoUpload],
   idle |-> {},                 \* last_activity_at is older than the TTL
   daily |-> 0]

Idle == [pc |-> "idle", upload |-> None, sha |-> None, file |-> None, charged |-> 0]

Init ==
  /\ db = EmptyIndex
  /\ journal = <<>>
  /\ staging = [u \in Upload |-> None]
  /\ cas = [s \in Sha |-> None]
  /\ content = [f \in Put |-> None]
  /\ put = [p \in Put |-> Idle]
  /\ status = "up"
  /\ acked = {} /\ purged = {} /\ shared = {} /\ unlogged = {}
  /\ left = Bound

Spend(what) == left[what] > 0 /\ left' = [left EXCEPT ![what] = @ - 1]

-----------------------------------------------------------------------------
(* The journal (storage/journal.ts).  A line that a crash cut has no       *)
(* newline: the next append of the same day runs into it, and the two are  *)
(* one corrupt line; the next day has a file of its own.                   *)

Torn == [type |-> "torn"]
Corrupt == [type |-> "corrupt"]
TornTail == journal # <<>> /\ Last(journal) = Torn
Appended(line) ==
  {Append(journal, line)} \cup
    (IF TornTail THEN {Append(Front(journal), Corrupt)} ELSE {})

CommittedLine(v, name) == [type |-> "committed", v |-> v, name |-> name]
AbortedLine(id) == [type |-> "aborted", id |-> id]
DeleteLine(a) == [type |-> "delete", art |-> a]
MoveLine(a, id) == [type |-> "move", art |-> a, id |-> id]
PurgeLine(s) == [type |-> "purge", sha |-> s]

-----------------------------------------------------------------------------
(* The index (db/schema.ts): its constraints, and what a commit writes.    *)

RowsOf(d, a) == {v \in d.versions : v.art = a}
NextSeq(d, a) == 1 + Max({0} \cup {v.seq : v \in RowsOf(d, a)})
CurrentSeq(d, a) == Max({-1} \cup {v.seq : v \in {w \in d.versions : w.id = d.current[a]}})
Uses(d, s) == {v \in d.versions : v.sha = s}

(* Mutant: the index without UNIQUE (created_by, op_id). *)
Conflicts_AnyOp(d, v) ==
  \E w \in d.versions : w.id = v.id \/ (w.art = v.art /\ w.seq = v.seq)

(* Two versions of which an index takes one.                               *)
Clash(w, v) == w.id = v.id \/ w.op = v.op \/ (w.art = v.art /\ w.seq = v.seq)

(* The primary key, UNIQUE (artifact_id, seq), UNIQUE (created_by, op_id). *)
Conflicts(d, v) ==
  \E w \in d.versions : w.id = v.id \/ w.op = v.op \/ (w.art = v.art /\ w.seq = v.seq)

FenceOk(d, token) == token # None => token >= d.fence
Raised(d, token) == IF token = None THEN d.fence ELSE Max({d.fence, token})

(* Mutant: a dedup hit does not count itself. *)
Committed_NoBump(d, u, v) ==
  [d EXCEPT !.versions = @ \cup {v},
            !.refs[v.sha] = IF @ = -1 THEN 1 ELSE @,
            !.current[v.art] = v.id,
            !.fence = Raised(d, v.token),
            !.upload[u].state = "committed",
            !.idle = @ \ {u}]

Committed(d, u, v) ==
  [d EXCEPT !.versions = @ \cup {v},
            !.refs[v.sha] = IF @ = -1 THEN 1 ELSE @ + 1,
            !.current[v.art] = v.id,
            !.fence = Raised(d, v.token),
            !.upload[u].state = "committed",
            !.idle = @ \ {u}]

Touched(d, u, n) == [d EXCEPT !.upload[u].bytes = n, !.idle = @ \ {u}]
Released(d, n) == [d EXCEPT !.daily = IF @ > n THEN @ - n ELSE 0]

(* abortUpload: a committed upload stays as it is.                         *)
Aborted(d, u) ==
  IF d.upload[u].state = "committed" THEN d
  ELSE Released([d EXCEPT !.upload[u].state = "aborted", !.idle = @ \ {u}],
                d.upload[u].bytes)
Discarded(d, u) ==
  IF d.upload[u].state = "committed" THEN staging
  ELSE [staging EXCEPT ![u] = None]

-----------------------------------------------------------------------------
(* Registration (Store.register).  The same op_id again answers with the   *)
(* session it has.                                                         *)

FreshArtifact(a) ==
  /\ db.row[a] = None
  /\ \A i \in DOMAIN journal :
       /\ journal[i].type = "committed" => journal[i].v.art # a
       /\ journal[i].type \in {"delete", "move"} => journal[i].art # a

Register(u, n, a, token) ==
  /\ status = "up" /\ db.upload[u].state = "none"
  /\ Cardinality({w \in Upload : db.upload[w].state = "pending"}) < MaxPending
  /\ db.row[a] = n \/ (FreshArtifact(a) /\ \A b \in Artifact : db.row[b] # n)
  /\ db' = [db EXCEPT
       !.row[a] = n,
       !.upload[u] = [state |-> "pending", art |-> a, name |-> n,
                      token |-> token, bytes |-> 0]]
  /\ UNCHANGED <<journal, fileVars, put, status, historyVars, left>>

-----------------------------------------------------------------------------
(* The upload handler, PUT /api/uploads/:id (http/server.ts).              *)

(* Up to createWriteStream, which cuts the file when the path exists, also *)
(* under another stream of the upload.  A committed upload is answered     *)
(* with its version.                                                       *)
Writing(p) == put[p].pc \in {"open", "sent"}
PutOpen(p, u, s) ==
  LET file == IF staging[u] = None THEN p ELSE staging[u] IN
  /\ status = "up" /\ put[p].pc = "idle"
  /\ db.upload[u].state = "pending"
  /\ staging' = [staging EXCEPT ![u] = file]
  /\ content' = [content EXCEPT ![file] = "short"]
  /\ put' = [put EXCEPT ![p] = [pc |-> "open", upload |-> u, sha |-> s,
                                file |-> file, charged |-> 0]]
  /\ shared' = shared \cup {put[q].file : q \in {r \in Put : Writing(r) /\ put[r].file = file}}
  /\ UNCHANGED <<db, journal, cas, status, acked, purged, unlogged, left>>

Charge(p) ==
  IF put[p].charged = 1 THEN db
  ELSE Touched([db EXCEPT !.daily = @ + 1], put[p].upload, 1)
MayCharge(p) == put[p].charged = 1 \/ db.daily < Quota

(* The body arrives.  Every FLUSH_BYTES it is charged and the upload       *)
(* touched; a body shorter than that does neither before its end.          *)
PutBytes(p, flushes) ==
  /\ put[p].pc = "open" /\ (flushes => MayCharge(p))
  /\ content' = [content EXCEPT ![put[p].file] = put[p].sha]
  /\ put' = [put EXCEPT ![p].pc = "sent", ![p].charged = IF flushes THEN 1 ELSE 0]
  /\ db' = IF flushes THEN Charge(p) ELSE db
  /\ UNCHANGED <<journal, staging, cas, status, historyVars, left>>

Ends(p) == put' = [put EXCEPT ![p] = [Idle EXCEPT !.pc = "done"]]

(* The handler's catch: what was charged is noted, the upload aborted.     *)
GivesUp(p, d, n) ==
  LET u == put[p].upload IN
  /\ db' = Aborted(Touched(d, u, n), u)
  /\ staging' = Discarded(d, u)
  /\ Ends(p)
  /\ UNCHANGED <<content, status, acked, purged, shared>>

(* The client goes away, or a size cap, the watermark, the quota or the    *)
(* content policy ends the stream.                                         *)
PutFail(p) ==
  /\ Writing(p)
  /\ GivesUp(p, db, put[p].charged)
  /\ UNCHANGED <<journal, cas, unlogged, left>>

(* From the end of the stream on nothing awaits: charge, touch, and        *)
(* Store.commit, which reads the upload again.                             *)
Finishing(p) == put[p].pc = "sent" /\ MayCharge(p)
StateOf(p) == db.upload[put[p].upload].state
VersionOf(p) ==
  LET u == db.upload[put[p].upload] IN
  [id |-> p, art |-> u.art, seq |-> NextSeq(db, u.art), sha |-> put[p].sha,
   op |-> put[p].upload, token |-> u.token]

PutReplayed(p) ==
  /\ Finishing(p) /\ StateOf(p) = "committed"
  /\ db' = Charge(p) /\ Ends(p)
  /\ UNCHANGED <<journal, fileVars, status, historyVars, left>>

PutRefused(p) ==
  /\ Finishing(p)
  /\ \/ StateOf(p) \in {"aborted", "expired"}
     \/ StateOf(p) = "pending" /\ ~FenceOk(db, VersionOf(p).token)
  /\ GivesUp(p, Charge(p), 1)
  /\ UNCHANGED <<journal, cas, unlogged, left>>

(* The version row goes in before the journal line: a constraint, or an    *)
(* artifact row the collector took, ends the commit before it.             *)
Insertable(d, v) == d.row[v.art] # None /\ ~Conflicts(d, v)

PutBlocked(p) ==
  /\ Finishing(p) /\ StateOf(p) = "pending" /\ FenceOk(db, VersionOf(p).token)
  /\ ~Insertable(db, VersionOf(p))
  /\ journal' \in Appended(AbortedLine(p))
  /\ GivesUp(p, Charge(p), 1)
  /\ UNCHANGED <<cas, unlogged, left>>

Commits(p) ==
  /\ Finishing(p) /\ StateOf(p) = "pending" /\ FenceOk(db, VersionOf(p).token)
  /\ Insertable(db, VersionOf(p))
LineOf(p) == CommittedLine(VersionOf(p), db.upload[put[p].upload].name)

(* Mutant: a dedup hit trusts the row and does not look for the file. *)
Materialized_TrustsRow(p) ==
  IF db.refs[put[p].sha] # -1 THEN cas
  ELSE [cas EXCEPT ![put[p].sha] = staging[put[p].upload]]

(* materialize (storage/cas.ts): a file that is there is kept.             *)
Materialized(p) ==
  IF cas[put[p].sha] # None THEN cas
  ELSE [cas EXCEPT ![put[p].sha] = staging[put[p].upload]]

PutCommitted(p) ==
  LET u == put[p].upload IN
  /\ Commits(p)
  /\ db' = Committed(Charge(p), u, VersionOf(p))
  /\ journal' \in Appended(LineOf(p))
  /\ cas' = Materialized(p)
  /\ staging' = [staging EXCEPT ![u] = None]
  /\ acked' = acked \cup {VersionOf(p)}
  /\ Ends(p)
  /\ UNCHANGED <<content, status, purged, shared, unlogged, left>>

(* The rename, or the commit after it, fails, and the transaction is       *)
(* undone.  The line is followed by an aborted line, unless that append    *)
(* fails as well (said is FALSE): it leaves nothing, or a cut line.        *)
PutIoError(p, renamed, said) ==
  /\ Commits(p) /\ Spend("io")
  /\ \E j \in Appended(LineOf(p)) :
       IF said THEN journal' = Append(j, AbortedLine(p))
       ELSE journal' \in {j, Append(j, Torn)}
  /\ unlogged' = IF said THEN unlogged ELSE unlogged \cup {VersionOf(p)}
  /\ cas' = IF renamed THEN Materialized(p) ELSE cas
  /\ GivesUp(p, Charge(p), 1)

(* An append fails before its line is whole: the one of the committed      *)
(* line, which the aborted line follows, runs into, or does not follow     *)
(* either; or the one of a blocked commit's aborted line.                  *)
Cut == IF TornTail THEN journal ELSE Append(journal, Torn)
PutUnwritten(p) ==
  /\ Finishing(p) /\ StateOf(p) = "pending" /\ FenceOk(db, VersionOf(p).token)
  /\ Spend("io")
  /\ \/ journal' \in {journal, Cut}
     \/ /\ Insertable(db, VersionOf(p))
        /\ journal' \in Appended(AbortedLine(p)) \cup
             {Append(Cut, AbortedLine(p)), Append(journal, Corrupt)}
  /\ GivesUp(p, Charge(p), 1)
  /\ UNCHANGED <<cas, unlogged>>

(* DELETE /api/uploads/:id.                                                *)
AbortUpload(u) ==
  /\ status = "up" /\ db.upload[u].state # "none"
  /\ db' = Aborted(db, u) /\ staging' = Discarded(db, u)
  /\ UNCHANGED <<journal, cas, content, put, status, historyVars, left>>

-----------------------------------------------------------------------------
(* The operator's calls: deleteMarker and restore.                         *)

DeleteMarker(a) ==
  LET mark == <<a, NextSeq(db, a)>> IN
  /\ status = "up" /\ db.row[a] # None /\ Spend("operator")
  /\ db' = [db EXCEPT
       !.versions = @ \cup {[id |-> mark, art |-> a, seq |-> NextSeq(db, a),
                             sha |-> None, op |-> mark, token |-> None]},
       !.current[a] = None]
  /\ journal' \in Appended(DeleteLine(a))
  /\ UNCHANGED <<fileVars, put, status, historyVars>>

Restore(v) ==
  /\ status = "up" /\ v \in db.versions /\ v.sha # None /\ Spend("operator")
  /\ db' = [db EXCEPT !.current[v.art] = v.id]
  /\ journal' \in Appended(MoveLine(v.art, v.id))
  /\ UNCHANGED <<fileVars, put, status, historyVars>>

-----------------------------------------------------------------------------
(* Collection (storage/gc.ts).                                             *)

(* TTL since the last touch; nothing of a stream under way is consulted.   *)
Elapse(u) ==
  /\ db.upload[u].state = "pending" /\ u \notin db.idle
  /\ db' = [db EXCEPT !.idle = @ \cup {u}]
  /\ UNCHANGED <<journal, fileVars, put, status, historyVars, left>>

Expirable == {u \in db.idle : db.upload[u].state = "pending"}

(* phase1Sweep, every minute.                                              *)
Sweep ==
  LET gone == {u \in Upload : db.upload[u].state \in {"aborted", "expired"}} \cup Expirable
      bytes == Cardinality({u \in Expirable : db.upload[u].bytes = 1})
  IN
  /\ status = "up"
  /\ db' = Released([db EXCEPT !.upload = [u \in Upload |->
              IF u \in Expirable THEN [@[u] EXCEPT !.state = "expired"] ELSE @[u]]], bytes)
  /\ staging' = [u \in Upload |-> IF u \in gone THEN None ELSE staging[u]]
  /\ UNCHANGED <<journal, cas, content, put, status, historyVars, left>>

(* gcPhase2: delete-marked chains go, a transaction each, then the blobs   *)
(* nothing refers to, a transaction each with its line, and the file after *)
(* the transaction.                                                        *)
Chains(d) == {a \in Artifact : d.row[a] # None /\ d.current[a] = None /\ RowsOf(d, a) # {}}
Dropped(d, C) == UNION {RowsOf(d, a) : a \in C}
Counted(d, C, s) == LET n == d.refs[s] - Cardinality(Uses(d, s) \cap Dropped(d, C))
                    IN IF n > 0 THEN n ELSE 0
ChainsPurged(d, C) ==
  [d EXCEPT !.versions = @ \ Dropped(d, C),
            !.row = [a \in Artifact |-> IF a \in C THEN None ELSE @[a]],
            !.refs = [s \in Sha |-> IF @[s] = -1 THEN -1 ELSE Counted(d, C, s)]]
Unreferenced(d) == {s \in Sha : d.refs[s] = 0}
BlobsPurged(d, B) == [d EXCEPT !.refs = [s \in Sha |-> IF s \in B THEN -1 ELSE @[s]]]
PurgeLines(S) == {[i \in DOMAIN q |-> PurgeLine(q[i])] : q \in SetToSeqs(S)}

(* C chains gone, the lines of L written, the rows of B and the files of F *)
(* gone.                                                                   *)
Collects(C, L, B, F) ==
  /\ status = "up"
  /\ db' = BlobsPurged(ChainsPurged(db, C), B)
  /\ \E q \in PurgeLines(L) :
       IF q = <<>> THEN UNCHANGED journal
       ELSE \E j \in Appended(Head(q)) : journal' = j \o Tail(q)
  /\ cas' = [s \in Sha |-> IF s \in F THEN None ELSE cas[s]]
  /\ purged' = purged \cup {v.id : v \in Dropped(db, C)}
  /\ UNCHANGED <<staging, content, acked, shared, unlogged>>

GcPhase2 ==
  LET B == Unreferenced(ChainsPurged(db, Chains(db))) IN
  /\ Chains(db) # {} \/ B # {}
  /\ Spend("purge")
  /\ Collects(Chains(db), B, B, B)
  /\ UNCHANGED <<put, status>>

-----------------------------------------------------------------------------
(* Crashes.  The index keeps what was committed; the streams end.          *)

Dies ==
  /\ status' = "down"
  /\ put' = [p \in Put |-> IF put[p].pc = "idle" THEN Idle ELSE [Idle EXCEPT !.pc = "done"]]

CrashIdle ==
  /\ status = "up" /\ Spend("crash") /\ Dies
  /\ UNCHANGED <<db, journal, fileVars, historyVars>>

(* In a commit: after its line, and perhaps after the rename.              *)
CrashInCommit(p, renamed) ==
  /\ Commits(p) /\ Spend("crash") /\ Dies
  /\ db' = Charge(p)
  /\ journal' \in Appended(LineOf(p))
  /\ IF renamed /\ cas[put[p].sha] = None
     THEN /\ cas' = Materialized(p)
          /\ staging' = [staging EXCEPT ![put[p].upload] = None]
     ELSE UNCHANGED <<cas, staging>>
  /\ UNCHANGED <<content, historyVars>>

(* In a commit: in the middle of its line.                                 *)
CrashInAppend(p) ==
  /\ Commits(p) /\ Spend("torn") /\ Dies
  /\ db' = Charge(p)
  /\ journal' = IF TornTail THEN journal ELSE Append(journal, Torn)
  /\ UNCHANGED <<fileVars, historyVars>>

(* In a delete or a restore: after its line.                               *)
CrashInPointer(line) ==
  /\ status = "up" /\ Spend("crash") /\ Dies
  /\ journal' \in Appended(line)
  /\ UNCHANGED <<db, fileVars, historyVars>>

(* In a purge: between two of its transactions, in one after its line, or  *)
(* before the file of the last one is moved.                               *)
CrashInGc(C, L, B, F) ==
  /\ C \subseteq Chains(db) /\ (L # {} => C = Chains(db))
  /\ F \subseteq B /\ B \subseteq L /\ L \subseteq Unreferenced(ChainsPurged(db, C))
  /\ Cardinality(L \ F) <= 1
  /\ left["crash"] > 0 /\ left["purge"] > 0 /\ Dies
  /\ left' = [left EXCEPT !["crash"] = @ - 1, !["purge"] = @ - 1]
  /\ Collects(C, L, B, F)

(* The volume of the index is lost and the suite restored from the journal *)
(* and the blobs.                                                          *)
LoseIndex ==
  /\ status # "up" /\ Spend("loss")
  /\ db' = EmptyIndex /\ status' = "down"
  /\ UNCHANGED <<journal, fileVars, put, historyVars>>

-----------------------------------------------------------------------------
(* The boot: rebuildIndex (storage/maintenance.ts) replays every line into *)
(* the index there is, in one transaction; a foreign key or a corrupt line *)
(* throws.                                                                 *)

(* INSERT OR IGNORE passes over a conflict, not over a missing artifact.   *)
Inserted(d, v) ==
  IF Conflicts(d, v) THEN d ELSE [d EXCEPT !.versions = @ \cup {v}]

WithRows(d, line) ==
  LET a == line.v.art s == line.v.sha IN
  [d EXCEPT !.row[a] = IF \E b \in Artifact : d.row[b] = line.name THEN @ ELSE line.name,
            !.refs[s] = IF @ = -1 THEN 0 ELSE @]

(* Mutant: the replay does not raise the fence. *)
ApplyCommitted_NoFence(d, line) ==
  LET v == line.v
      e == Inserted(WithRows(d, line), v)
  IN [e EXCEPT !.current[v.art] =
                 IF e.row[v.art] # None /\ v.seq > CurrentSeq(e, v.art) THEN v.id ELSE @]

ApplyCommitted(d, line) ==
  LET v == line.v
      e == Inserted(WithRows(d, line), v)
  IN [e EXCEPT !.current[v.art] =
                 IF e.row[v.art] # None /\ v.seq > CurrentSeq(e, v.art) THEN v.id ELSE @,
               !.fence = Raised(d, v.token)]

(* Mutant: the replay passes over delete markers. *)
PointerSet_NotNull(d, a, id) ==
  [d EXCEPT !.current[a] = IF d.row[a] = None \/ id = None THEN @ ELSE id]
PointerSet(d, a, id) == [d EXCEPT !.current[a] = IF d.row[a] = None THEN @ ELSE id]

Cancelled(d, id) == [d EXCEPT !.versions = {v \in @ : v.id # id}]

Throws(d, line) ==
  \/ line = Corrupt
  \/ line.type = "committed" /\ WithRows(d, line).row[line.v.art] = None
       /\ ~Conflicts(d, line.v)
  \/ line.type = "purge" /\ Uses(d, line.sha) # {}

Applied(d, line) ==
  CASE line.type = "committed" -> ApplyCommitted(d, line)
    [] line.type = "aborted" -> Cancelled(d, line.id)
    [] line.type = "delete" -> PointerSet(d, line.art, None)
    [] line.type = "move" -> PointerSet(d, line.art, line.id)
    [] line.type = "purge" -> [d EXCEPT !.refs[line.sha] = -1]
    [] OTHER -> d

Step(r, line) ==
  IF ~r.ok \/ Throws(r.d, line) THEN [r EXCEPT !.ok = FALSE]
  ELSE [r EXCEPT !.d = Applied(r.d, line)]

Recounted(d) ==
  [d EXCEPT !.refs = [s \in Sha |-> IF @[s] = -1 THEN -1 ELSE Cardinality(Uses(d, s))]]

(* The index after each line.                                              *)
Stages(d) ==
  LET stage[n \in 0..Len(journal)] ==
        IF n = 0 THEN [ok |-> TRUE, d |-> d] ELSE Step(stage[n - 1], journal[n])
  IN stage
Replay(d) == Stages(d)[Len(journal)]

Boot ==
  LET r == Replay(db) IN
  /\ status = "down"
  /\ IF r.ok THEN db' = Recounted(r.d) /\ status' = "up"
             ELSE db' = db /\ status' = "refused"
  /\ UNCHANGED <<journal, fileVars, put, historyVars, left>>

-----------------------------------------------------------------------------

Streams(p) ==
  \/ \E u \in Upload, s \in Sha : PutOpen(p, u, s)
  \/ \E flushes \in BOOLEAN : PutBytes(p, flushes)
  \/ PutFail(p) \/ PutReplayed(p) \/ PutRefused(p) \/ PutBlocked(p) \/ PutCommitted(p)
  \/ PutUnwritten(p)
  \/ \E renamed, said \in BOOLEAN : PutIoError(p, renamed, said)
  \/ \E renamed \in BOOLEAN : CrashInCommit(p, renamed)
  \/ CrashInAppend(p)

Operates ==
  \/ \E a \in Artifact :
       DeleteMarker(a) \/ (db.row[a] # None /\ CrashInPointer(DeleteLine(a)))
  \/ \E v \in db.versions :
       Restore(v) \/ (v.sha # None /\ CrashInPointer(MoveLine(v.art, v.id)))
  \/ GcPhase2
  \/ \E C \in SUBSET Artifact, L, B, F \in SUBSET Sha : CrashInGc(C, L, B, F)

Next ==
  \/ \E u \in Upload, n \in Name, a \in Artifact, t \in Tokens : Register(u, n, a, t)
  \/ \E p \in Put : Streams(p)
  \/ \E u \in Upload : AbortUpload(u) \/ Elapse(u)
  \/ Sweep \/ Operates
  \/ CrashIdle \/ LoseIndex \/ Boot

Spec == Init /\ [][Next]_vars

-----------------------------------------------------------------------------
(* Properties.                                                             *)

VersionSet ==
  [id : Put, art : Artifact, seq : Nat, sha : Sha, op : Upload, token : Tokens]

(* The kinds of the state: sessions, files, streams and answers.           *)
TypeOK ==
  /\ db.row \in [Artifact -> Name \cup {None}]
  /\ {v \in db.versions : v.sha # None} \cup acked \subseteq VersionSet
  /\ db.refs \in [Sha -> Nat \cup {-1}] /\ db.daily \in 0..Quota
  /\ db.upload \in [Upload -> [state : {"none", "pending", "committed", "aborted", "expired"},
         art : Artifact \cup {None}, name : Name \cup {None},
         token : Tokens \cup {None}, bytes : 0..1]]
  /\ db.idle \subseteq {u \in Upload : db.upload[u].state # "none"}
  /\ staging \in [Upload -> Put \cup {None}] /\ cas \in [Sha -> Put \cup {None}]
  /\ content \in [Put -> Sha \cup {None, "short"}]
  /\ status \in {"up", "down", "refused"}

(* A blob's refcount is the number of version rows that name it, and no    *)
(* row names a blob without a row, through commits, purges cut by crashes  *)
(* and replays over an index of any age: what the purge deletes, nobody    *)
(* uses.                                                                   *)
RefcountExact ==
  status = "up" =>
    \A s \in Sha :
      IF db.refs[s] = -1 THEN Uses(db, s) = {} ELSE db.refs[s] = Cardinality(Uses(db, s))

(* A failed commit without its aborted line leaves a line that a later     *)
(* version may clash with.  The index knows the later one; but when it is  *)
(* lost, the replay takes in the first line and passes over the other.     *)
Displaced(v) == left["loss"] < Bound["loss"] /\ \E w \in unlogged : Clash(w, v)

(* What was answered with 201 is in the index whenever the service runs,   *)
(* after any crash and after the loss of the index, unless an operator's   *)
(* purge or a line that was never called off took it; and its blob is      *)
(* there with the bytes that were hashed, unless two streams of one upload *)
(* were writing that file at once.                                         *)
AcknowledgedSurvives ==
  status = "up" =>
    \A v \in acked :
      \/ v.id \in purged \/ Displaced(v)
      \/ /\ v \in db.versions /\ cas[v.sha] # None
         /\ cas[v.sha] \in shared \/ content[cas[v.sha]] = v.sha

(* A lost answer, a retry after a crash, a second stream or a registration *)
(* repeated after the index was lost never give an operation two versions; *)
(* the one an operator purged, or the replay passed over for a line that   *)
(* was never called off, does not count.                                   *)
OneVersionPerOperation ==
  \A v, w \in {x \in acked : x.id \notin purged /\ ~Displaced(x)} :
    v.op = w.op => v = w

(* No version is accepted under a fencing token older than one accepted    *)
(* before, whichever of crash, replay and rebuild lie in between.          *)
NoStaleFence ==
  [][\A v \in acked' \ acked, w \in acked :
       v.token # None /\ w.token # None => w.token <= v.token]_vars

(* While no commit has failed, no append was cut and nothing was purged,   *)
(* the journal alone gives the index back: versions, pointers, refcounts   *)
(* and fence, restores and deletes between commits included.               *)
Kept(d) == {v \in d.versions : v.sha # None}
Untouched == \A what \in {"io", "torn", "purge"} : left[what] = Bound[what]
JournalIsCanonical ==
  status = "up" /\ Untouched =>
    LET r == Replay(EmptyIndex) e == Recounted(r.d) IN
    /\ r.ok /\ Kept(e) = Kept(db) /\ e.refs = db.refs /\ e.fence = db.fence
    /\ \A v \in Kept(db) : e.current[v.art] = db.current[v.art]
=============================================================================
