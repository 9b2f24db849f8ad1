--------------------------------- MODULE Chat ---------------------------------
(***************************************************************************)
(* Chat's notifications (src/apps/chat/backend/app): the store that agents *)
(* post to and the operator acks in (services/repo.py), the outbox worker  *)
(* that pushes them to ntfy (services/outbox.py), and the SSE feed of one  *)
(* browser (services/feed.py, api/feed.py, the frontend's ChatProvider).   *)
(*                                                                         *)
(* Requests run in threads and write under one lock, an action each.  The  *)
(* worker is a task of the event loop that awaits between its steps, the   *)
(* feed a generator of the same loop.  A row is its seq.  Posts are those  *)
(* of one agent; the operations that answer a repeated op_id, reject a     *)
(* post or read change nothing.                                            *)
(***************************************************************************)
EXTENDS Integers, Sequences, FiniteSetsExt

CONSTANTS
  Key, NoKey,    \* dedup keys
  MaxAttempts,   \* ntfy_max_attempts
  QueueSize,     \* of a subscriber, 256 in the code
  ReplayLimit,   \* rows a connect replays, 200 in the code
  PageLimit,     \* rows the page loads, 100 in the code
  Setup,         \* what runs: ntfy_enabled, a browser that is open; bounds:
                 \* the posts that make a row, and their kinds
  MaxCrashes     \* bound: restarts of the process

Kind == {"escalation", "done"}    \* "done" stands for "needs_review" as well

ASSUME ChatAssumption ==
  /\ NoKey \notin Key /\ MaxCrashes \in Nat
  /\ Setup \subseteq [ntfy : BOOLEAN, browser : BOOLEAN, rows : Nat,
                     kinds : SUBSET Kind]
  /\ {MaxAttempts, QueueSize, ReplayLimit, PageLimit} \subseteq Nat \ {0}

VARIABLES
  rows,      \* notifications
  outbox,    \* push_outbox, by the same seq; due: next_attempt_at is past,
             \* aged: last_pushed_at is NULL or older than the cadence
  setup,     \* what runs in this behaviour
  worker,    \* where the task is, what is left of its batch, the push made
  crashes,
  loop,      \* rows handed to the event loop by call_soon_threadsafe
  client,    \* the browser: its stream, Last-Event-ID (0: none), the frames
             \* still to replay (in seq order), its queue at the broker
  seen,      \* the rows it has been given
  late,      \* history: pushes that reached ntfy after the row was acked
  shed       \* history: rows a full queue, or the limit of a replay or of the
             \* page, left out

storeVars == <<rows, outbox>>
feedVars == <<loop, client, seen, shed>>
vars == <<storeVars, setup, worker, crashes, late, feedVars>>

Row == DOMAIN rows
MaxRows == Max({s.rows : s \in Setup})
Resting == [pc |-> "rearm", batch |-> {}, row |-> 0, answered |-> FALSE]
Offline(c) == [c EXCEPT !.pc = "off", !.frames = {}, !.queue = <<>>]

Init ==
  /\ rows = <<>> /\ outbox = <<>>
  /\ setup \in Setup
  /\ worker = Resting /\ crashes = 0 /\ late = <<>>
  /\ loop = <<>> /\ seen = {} /\ shed = {}
  /\ client = [pc |-> "out", cursor |-> 0, frames |-> {}, queue |-> <<>>]

-----------------------------------------------------------------------------
(* Posts and acks (services/repo.py).                                      *)

(* The un-acked row of the same dedup_key, whatever its kind.              *)
Twins(key) == {n \in Row : key # NoKey /\ rows[n].key = key /\ ~rows[n].acked}

Post(kind, key) ==
  /\ Twins(key) = {} /\ Len(rows) < setup.rows
  /\ rows' = Append(rows, [kind |-> kind, key |-> key, acked |-> FALSE])
  /\ outbox' = Append(outbox, [status |-> "pending", attempts |-> 0,
                               due |-> TRUE, aged |-> TRUE])
  /\ late' = Append(late, 0)
  /\ loop' = Append(loop, Len(rows) + 1)
  /\ UNCHANGED <<setup, worker, crashes, client, seen, shed>>

(* A repeat is counted on the row there is, and shown again.  Bound: while *)
(* the loop is idle.                                                       *)
Collapse(key) ==
  /\ loop = <<>>
  /\ \E n \in Twins(key) : loop' = <<n>>
  /\ UNCHANGED <<storeVars, setup, worker, crashes, late, client, seen, shed>>

(* ack of one row, and batch_ack up to one, of a kind or of all.           *)
Acked(S) == [n \in Row |-> IF n \in S THEN [rows[n] EXCEPT !.acked = TRUE] ELSE rows[n]]

Ack(S) ==
  /\ \E n \in S : ~rows[n].acked
  /\ rows' = Acked(S)
  /\ UNCHANGED <<outbox, setup, worker, crashes, late, feedVars>>

Ackable == {{n} : n \in Row} \cup
           {{n \in 1..last : rows[n].kind \in K} : last \in Row, K \in {Kind} \cup {{k} : k \in Kind}}

-----------------------------------------------------------------------------
(* The outbox (services/outbox.py).                                        *)

(* Mutant: an acked escalation is pushed again on cadence. *)
Rearmable_Acked(n) ==
  rows[n].kind = "escalation" /\ outbox[n].status = "delivered" /\ outbox[n].aged
Rearmable(n) ==
  /\ rows[n].kind = "escalation" /\ ~rows[n].acked
  /\ outbox[n].status = "delivered" /\ outbox[n].aged

Due(n) ==
  outbox[n].status = "pending" /\ outbox[n].due /\ outbox[n].attempts < MaxAttempts

(* Mutant: the failure cap counts deliveries too. *)
Delivered_Counted(o) ==
  [o EXCEPT !.status = "delivered", !.attempts = @ + 1, !.aged = FALSE]
Delivered(o) == [o EXCEPT !.status = "delivered", !.attempts = 0, !.aged = FALSE]

Failed(o) ==
  [o EXCEPT !.status = IF o.attempts + 1 >= MaxAttempts THEN "gave_up" ELSE "pending",
            !.attempts = @ + 1, !.due = FALSE]

(* A tick: what is to be pushed again is queued, then what is due claimed; *)
(* the claim writes nothing.                                               *)
Rearm ==
  /\ setup.ntfy /\ worker.pc = "rearm"
  /\ outbox' = [n \in Row |-> IF Rearmable(n)
                              THEN [outbox[n] EXCEPT !.status = "pending", !.due = TRUE]
                              ELSE outbox[n]]
  /\ worker' = [worker EXCEPT !.pc = "claim"]
  /\ UNCHANGED <<rows, setup, crashes, late, feedVars>>

Claim ==
  LET batch == {n \in Row : Due(n)} IN
  /\ worker.pc = "claim"
  /\ worker' = [worker EXCEPT !.pc = IF batch = {} THEN "rearm" ELSE "push",
                              !.batch = batch]
  /\ UNCHANGED <<storeVars, setup, crashes, late, feedVars>>

(* publish: it may reach ntfy, and it may be answered.                     *)
Push(n, reached, answered) ==
  /\ worker.pc = "push" /\ n \in worker.batch /\ (answered => reached)
  /\ worker' = [worker EXCEPT !.pc = "mark", !.row = n, !.answered = answered]
  /\ late' = [late EXCEPT ![n] = IF reached /\ rows[n].acked THEN @ + 1 ELSE @]
  /\ UNCHANGED <<storeVars, setup, crashes, feedVars>>

Mark ==
  LET n == worker.row rest == worker.batch \ {n} IN
  /\ worker.pc = "mark"
  /\ outbox' = [outbox EXCEPT ![n] = IF worker.answered THEN Delivered(@) ELSE Failed(@)]
  /\ worker' = [Resting EXCEPT !.pc = IF rest = {} THEN "rearm" ELSE "push", !.batch = rest]
  /\ UNCHANGED <<rows, setup, crashes, late, feedVars>>

(* Time: a back-off ends, a push gets older than the cadence.              *)
Elapse(n) ==
  /\ n \in Row
  /\ \/ /\ outbox[n].status = "pending" /\ ~outbox[n].due
        /\ outbox' = [outbox EXCEPT ![n].due = TRUE]
     \/ /\ outbox[n].status = "delivered" /\ ~outbox[n].aged
        /\ outbox' = [outbox EXCEPT ![n].aged = TRUE]
  /\ UNCHANGED <<rows, setup, worker, crashes, late, feedVars>>

(* A crash, or a shutdown, which cancels the task in the middle of a push. *)
Restart ==
  /\ crashes < MaxCrashes /\ crashes' = crashes + 1
  /\ worker' = Resting /\ loop' = <<>>
  /\ client' = IF client.pc = "out" THEN client ELSE Offline(client)
  /\ UNCHANGED <<storeVars, setup, late, seen, shed>>

-----------------------------------------------------------------------------
(* The feed.                                                               *)

(* The page loads the newest rows, then opens the stream.                  *)
Page == {n \in Row : n > Len(rows) - PageLimit}
LoadPage ==
  /\ setup.browser /\ client.pc = "out"
  /\ seen' = Page /\ client' = Offline(client)
  /\ shed' = shed \cup (Row \ Page)
  /\ UNCHANGED <<storeVars, setup, worker, crashes, late, loop>>

(* A connect subscribes and reads the rows to replay without an await, so  *)
(* no fan-out lies between; what the read gives may be in the queue too.   *)
Missed == {n \in Row : n > client.cursor}
Replayed ==
  IF client.cursor = 0
  THEN {n \in Missed : n > Len(rows) - ReplayLimit}
  ELSE {n \in Missed : n <= client.cursor + ReplayLimit}

Connect ==
  /\ client.pc = "off"
  /\ client' = [client EXCEPT !.pc = "replay", !.queue = <<>>, !.frames = Replayed]
  /\ shed' = shed \cup (Missed \ Replayed)
  /\ UNCHANGED <<storeVars, setup, worker, crashes, late, loop, seen>>

Given(n) == seen' = seen \cup {n}

Replay ==
  /\ client.pc = "replay"
  /\ IF client.frames = {}
     THEN client' = [client EXCEPT !.pc = "live"] /\ UNCHANGED seen
     ELSE LET n == Min(client.frames) IN
          Given(n) /\ client' = [client EXCEPT !.cursor = n, !.frames = @ \ {n}]
  /\ UNCHANGED <<storeVars, setup, worker, crashes, late, loop, shed>>

Live ==
  /\ client.pc = "live" /\ client.queue # <<>>
  /\ Given(Head(client.queue))
  /\ client' = [client EXCEPT !.cursor = Head(client.queue), !.queue = Tail(@)]
  /\ UNCHANGED <<storeVars, setup, worker, crashes, late, loop, shed>>

(* Mutant: the queue is there once the replay is over. *)
Subscribed_Live == client.pc = "live"
Subscribed == client.pc \in {"replay", "live"}

FanOut ==
  LET n == Head(loop) full == Len(client.queue) = QueueSize IN
  /\ loop # <<>> /\ loop' = Tail(loop)
  /\ client' = IF Subscribed /\ ~full THEN [client EXCEPT !.queue = Append(@, n)] ELSE client
  /\ shed' = IF Subscribed /\ full THEN shed \cup {n} ELSE shed
  /\ UNCHANGED <<storeVars, setup, worker, crashes, late, seen>>

(* The connection breaks; the browser comes back with its Last-Event-ID.   *)
Disconnect ==
  /\ Subscribed /\ client' = Offline(client)
  /\ UNCHANGED <<storeVars, setup, worker, crashes, late, loop, seen, shed>>

-----------------------------------------------------------------------------

WorkerStep ==
  \/ Rearm \/ Claim \/ Mark
  \/ \E n \in Row : \E reached, answered \in BOOLEAN : Push(n, reached, answered)

Next ==
  \/ \E kind \in setup.kinds, key \in Key \cup {NoKey} : Post(kind, key)
  \/ \E key \in Key : Collapse(key)
  \/ \E S \in Ackable : Ack(S)
  \/ WorkerStep \/ Restart
  \/ \E n \in 1..MaxRows : Elapse(n)
  \/ LoadPage \/ Connect \/ Replay \/ Live \/ FanOut \/ Disconnect

Spec == Init /\ [][Next]_vars

(* The worker's loop goes on, whatever a push does, and time passes.       *)
FairSpec ==
  /\ Spec /\ WF_vars(WorkerStep)
  /\ \A n \in 1..MaxRows : WF_vars(Elapse(n))

-----------------------------------------------------------------------------
(* Properties.                                                             *)

TypeOK ==
  /\ rows \in Seq([kind : Kind, key : Key \cup {NoKey}, acked : BOOLEAN])
  /\ outbox \in Seq([status : {"pending", "delivered", "gave_up"},
                     attempts : 0..MaxAttempts, due : BOOLEAN, aged : BOOLEAN])
  /\ Len(outbox) = Len(rows) /\ late \in [Row -> Nat]
  /\ setup \in Setup /\ crashes \in 0..MaxCrashes
  /\ worker \in [pc : {"rearm", "claim", "push", "mark"}, batch : SUBSET Row,
                 row : Row \cup {0}, answered : BOOLEAN]
  /\ client \in [pc : {"out", "off", "replay", "live"}, cursor : Row \cup {0},
                 frames : SUBSET Row, queue : Seq(Row)]
  /\ Len(client.queue) <= QueueSize
  /\ loop \in Seq(Row) /\ seen \cup shed \subseteq Row

(* A push is owed by what is pending, and again and again by an escalation *)
(* nobody has acked ("silence requires ack"), until the outbox gives up.   *)
Owed(n) ==
  /\ setup.ntfy /\ n \in Row
  /\ \/ outbox[n].status = "pending"
     \/ outbox[n].status = "delivered" /\ rows[n].kind = "escalation" /\ ~rows[n].acked

(* What is owed is pushed, through crashes between claim, push and mark,   *)
(* failures and back-offs; once is not enough while it stays owed.         *)
KeepsPushing ==
  \A n \in 1..MaxRows :
    Owed(n) ~> (worker.pc = "mark" /\ worker.row = n /\ worker.answered) \/ ~Owed(n)

(* An acked row is heard of at most once more, or MaxAttempts times where  *)
(* answers are lost, and once more for each crash: the worker does not     *)
(* look at the ack again, but nothing queues the row anew.                 *)
AckSilences == \A n \in Row : late[n] <= MaxAttempts + crashes

(* The feed has no hole but those a full queue or the limit of a replay or *)
(* of the page made: whatever the browser has a later row than, it has,    *)
(* through broken connections, restarts, and repeats that move its cursor  *)
(* back.                                                                   *)
NoHoleButShed ==
  \A n \in Row : (\E m \in seen : n < m) => n \in seen \cup shed
=============================================================================
