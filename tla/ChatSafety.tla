------------------------------ MODULE ChatSafety ------------------------------
(***************************************************************************)
(* Chat, for any number of rows, attempts, crashes and broken connections, *)
(* and any size of the queue and of a replay: an ack silences a row, and   *)
(* the feed has no hole but those it is told to leave.                     *)
(***************************************************************************)
EXTENDS Chat, SequenceTheorems, WellFoundedInduction, TLAPS

(* The worker's batch is owed: nothing but the mark that takes a row out   *)
(* of it moves the row's status, and what may be pushed has attempts left. *)
BatchOwed ==
  /\ \A n \in Row : outbox[n].status # "gave_up" => outbox[n].attempts < MaxAttempts
  /\ \A n \in worker.batch : outbox[n].status = "pending"
  /\ worker.pc \in {"rearm", "claim"} => worker.batch = {}
  /\ worker.pc = "mark" => worker.row \in worker.batch

(* Every push that came too late is an attempt counted, the one the worker *)
(* has yet to mark, or one a crash kept from being marked.                 *)
Unmarked(n) == IF worker.pc = "mark" /\ worker.row = n THEN 1 ELSE 0

LateCounted ==
  \A n \in Row :
    /\ ~rows[n].acked => late[n] = 0
    /\ outbox[n].status = "pending" =>
         late[n] <= outbox[n].attempts + crashes + Unmarked(n)
    /\ late[n] <= MaxAttempts + crashes

OutboxInv == TypeOK /\ BatchOwed /\ LateCounted

(* What a sequence holds, and what it holds before its i-th element.       *)
Elements(s) == {s[i] : i \in 1..Len(s)}
Before(s, i) == {s[j] : j \in 1..(i - 1)}

(* Of the rows R, what is before an element of s is known or comes first.  *)
Ordered(R, s, known) ==
  \A i \in 1..Len(s), n \in R : n < s[i] => n \in known \cup Before(s, i)

(* What the browser has, or will have once its replay is over.             *)
Replaying == seen \cup shed \cup client.frames

(* While a browser is subscribed nothing is lost on the way, and what is   *)
(* before a row on the way is had already or comes first.                  *)
NoneLost == Row \subseteq Replaying \cup Elements(client.queue) \cup Elements(loop)

InOrder ==
  /\ \A m \in client.frames, n \in Row : n < m => n \in Replaying
  /\ Ordered(Row, client.queue, Replaying)
  /\ Ordered(Row, loop, Replaying \cup Elements(client.queue))

FeedInv ==
  /\ NoHoleButShed
  /\ client.cursor \in seen \cup {0} /\ (client.pc = "out" => client.cursor = 0)
  /\ client.pc = "live" => client.frames = {}
  /\ Subscribed => NoneLost /\ InOrder

ChatInv == OutboxInv /\ FeedInv

-----------------------------------------------------------------------------
(* Types.                                                                  *)

Note == [kind : Kind, key : Key \cup {NoKey}, acked : BOOLEAN]
Entry == [status : {"pending", "delivered", "gave_up"},
          attempts : 0..MaxAttempts, due : BOOLEAN, aged : BOOLEAN]

(* A function on 1..n is a sequence of length n.                           *)
LEMMA AsSeq ==
  ASSUME NEW S, NEW n \in Nat, NEW f \in [1..n -> S]
  PROVE  f \in Seq(S) /\ Len(f) = n
<1>1. f \in Seq(S)
  BY SeqDef
<1>2. Len(f) \in Nat /\ 1..Len(f) = 1..n
  BY <1>1, LenProperties
<1>3. QED
  <2>1. CASE Len(f) > n
    <3>1. Len(f) \in 1..Len(f) /\ Len(f) \notin 1..n
      BY <1>2, <2>1
    <3>2. QED
      BY <3>1, <1>2
  <2>2. CASE Len(f) < n
    <3>1. n \in 1..n /\ n \notin 1..Len(f)
      BY <1>2, <2>2
    <3>2. QED
      BY <3>1, <1>2
  <2>3. QED
    BY <1>1, <1>2, <2>1, <2>2

(* The rows are 1 to their number; outbox and late have an entry for each. *)
LEMMA Rows ==
  ASSUME TypeOK
  PROVE  /\ Len(rows) \in Nat /\ Row = 1..Len(rows)
         /\ rows \in [Row -> Note] /\ outbox \in [Row -> Entry]
<1>1. rows \in Seq(Note) /\ outbox \in Seq(Entry) /\ Len(outbox) = Len(rows)
  BY DEF TypeOK, Note, Entry
<1>2. Len(rows) \in Nat /\ rows \in [1..Len(rows) -> Note] /\ DOMAIN rows = 1..Len(rows)
  BY <1>1, LenProperties
<1>3. outbox \in [1..Len(outbox) -> Entry]
  BY <1>1, LenProperties
<1>4. QED
  BY <1>1, <1>2, <1>3 DEF Row

(* The outbox of the same rows, rewritten.                                 *)
LEMMA OutboxTyped ==
  ASSUME TypeOK, outbox' \in [Row -> Entry]
  PROVE  outbox' \in Seq(Entry) /\ Len(outbox') = Len(rows)
BY Rows, AsSeq

(* The least of some rows.                                                 *)
Below == {e \in Nat \X Nat : e[1] < e[2]}

LEMMA LeastRow ==
  ASSUME NEW T \in SUBSET Nat, T # {}
  PROVE  Min(T) \in T /\ \A n \in T : Min(T) <= n
<1>1. IsWellFoundedOn(Below, Nat)
  <2>1. Below = OpToRel(<, Nat)
    BY DEF Below, OpToRel
  <2>2. QED
    BY <2>1, NatLessThanWellFounded
<1>2. \E n \in T : \A m \in T : <<m, n>> \notin Below
  BY <1>1, WFMin
<1>3. \A m, n \in T : <<m, n>> \notin Below => n <= m
  <2> TAKE m \in T, n \in T
  <2>1. <<m, n>> \in Nat \X Nat
    OBVIOUS
  <2>2. m < n => <<m, n>> \in Below
    BY <2>1 DEF Below
  <2>3. QED
    BY <2>2
<1>4. \E n \in T : \A m \in T : n <= m
  BY <1>2, <1>3
<1>5. QED
  BY <1>4 DEF Min

(* A post appends a row, its push and its count, and leaves the rest.      *)
LEMMA Appended ==
  ASSUME TypeOK, NEW kind \in Kind, NEW key \in Key \cup {NoKey}, Post(kind, key)
  PROVE  /\ rows' \in Seq(Note) /\ outbox' \in Seq(Entry)
         /\ Len(rows') = Len(rows) + 1 /\ Len(outbox') = Len(rows')
         /\ Row' = Row \cup {Len(rows) + 1} /\ Row' = 1..Len(rows')
         /\ late' \in [Row' -> Nat]
         /\ \A n \in Row : rows'[n] = rows[n] /\ outbox'[n] = outbox[n] /\ late'[n] = late[n]
         /\ late'[Len(rows) + 1] = 0 /\ outbox'[Len(rows) + 1].status = "pending"
         /\ outbox'[Len(rows) + 1].attempts = 0
<1> DEFINE note == [kind |-> kind, key |-> key, acked |-> FALSE]
           push == [status |-> "pending", attempts |-> 0, due |-> TRUE, aged |-> TRUE]
<1>1. note \in Note /\ push \in Entry
  BY ChatAssumption DEF Note, Entry
<1>2. rows \in Seq(Note) /\ outbox \in Seq(Entry) /\ Len(outbox) = Len(rows)
  BY DEF TypeOK, Note, Entry
<1>3. Len(rows) \in Nat /\ Row = 1..Len(rows)
  BY Rows
<1>4. late \in Seq(Nat) /\ Len(late) = Len(rows)
  BY <1>3, AsSeq DEF TypeOK
<1>5. rows' = Append(rows, note) /\ outbox' = Append(outbox, push) /\ late' = Append(late, 0)
  BY DEF Post
<1> HIDE DEF note, push
<1>6. /\ rows' \in Seq(Note) /\ Len(rows') = Len(rows) + 1
      /\ \A n \in 1..Len(rows) : rows'[n] = rows[n]
  BY <1>1, <1>2, <1>5, AppendProperties
<1>7. /\ outbox' \in Seq(Entry) /\ Len(outbox') = Len(rows) + 1
      /\ \A n \in 1..Len(rows) : outbox'[n] = outbox[n]
      /\ outbox'[Len(rows) + 1] = push
  BY <1>1, <1>2, <1>5, AppendProperties
<1>8. /\ late' \in Seq(Nat) /\ Len(late') = Len(rows) + 1
      /\ \A n \in 1..Len(rows) : late'[n] = late[n]
      /\ late'[Len(rows) + 1] = 0
  BY <1>4, <1>5, AppendProperties
<1>9. Row' = 1..Len(rows')
  BY <1>6, LenProperties DEF Row
<1>10. 1..(Len(rows) + 1) = Row \cup {Len(rows) + 1}
  BY <1>3
<1>11. late' \in [1..Len(late') -> Nat]
  BY <1>8, LenProperties
<1>12. push.status = "pending" /\ push.attempts = 0
  BY DEF push
<1>13. QED
  BY <1>3, <1>6, <1>7, <1>8, <1>9, <1>10, <1>11, <1>12
(* The parts of TypeOK: the store, the worker, the feed.                   *)
StoreTyped ==
  /\ rows \in Seq(Note) /\ outbox \in Seq(Entry)
  /\ Len(outbox) = Len(rows) /\ late \in [Row -> Nat]
  /\ setup \in Setup /\ crashes \in 0..MaxCrashes

WorkerTyped ==
  worker \in [pc : {"rearm", "claim", "push", "mark"}, batch : SUBSET Row,
              row : Row \cup {0}, answered : BOOLEAN]

Client == [pc : {"out", "off", "replay", "live"}, cursor : Row \cup {0},
           frames : SUBSET Row, queue : Seq(Row)]

FeedTyped ==
  /\ client \in Client /\ Len(client.queue) <= QueueSize
  /\ loop \in Seq(Row) /\ seen \cup shed \subseteq Row

LEMMA TypeParts == TypeOK <=> StoreTyped /\ WorkerTyped /\ FeedTyped
BY DEF TypeOK, StoreTyped, WorkerTyped, FeedTyped, Client, Note, Entry

(* The same of the state a step leads to.                                  *)
LEMMA TypePartsNext ==
  ASSUME StoreTyped', WorkerTyped', FeedTyped'
  PROVE  TypeOK'
BY DEF TypeOK, StoreTyped, WorkerTyped, FeedTyped, Client, Note, Entry

(* Who is not in a step keeps its type, as long as no row goes away.       *)
LEMMA WorkerKeeps ==
  ASSUME WorkerTyped, UNCHANGED worker, Row \subseteq Row'
  PROVE  WorkerTyped'
BY DEF WorkerTyped

(* A step that leaves the rows and the feed alone keeps its types.         *)
LEMMA FeedKeeps ==
  ASSUME FeedTyped, UNCHANGED feedVars, UNCHANGED rows
  PROVE  FeedTyped'
BY DEF FeedTyped, Client, feedVars, Row

(* A mark leaves an entry, and attempts where it may be pushed again.      *)
LEMMA Marked ==
  ASSUME NEW o \in Entry, o.attempts < MaxAttempts
  PROVE  /\ Delivered(o) \in Entry /\ Failed(o) \in Entry
         /\ Delivered(o).status = "delivered" /\ Delivered(o).attempts = 0
         /\ Failed(o).attempts = o.attempts + 1
         /\ Failed(o).status = IF o.attempts + 1 >= MaxAttempts THEN "gave_up" ELSE "pending"
<1>1. /\ MaxAttempts \in Nat /\ o.attempts \in Nat
      /\ 0 \in 0..MaxAttempts /\ o.attempts + 1 \in 0..MaxAttempts
  BY ChatAssumption DEF Entry
<1>2. Delivered(o) \in Entry /\ Failed(o) \in Entry
  <2>1. Delivered(o) \in Entry
    BY <1>1 DEF Delivered, Entry
  <2>2. Failed(o) \in Entry
    BY <1>1 DEF Failed, Entry
  <2>3. QED
    BY <2>1, <2>2
<1>3. Delivered(o).status = "delivered" /\ Delivered(o).attempts = 0
  BY DEF Delivered, Entry
<1>4. Failed(o).attempts = o.attempts + 1
  BY <1>1 DEF Failed, Entry
<1>5. CASE o.attempts + 1 >= MaxAttempts
  <2>1. Failed(o).status = "gave_up"
    BY <1>1, <1>5 DEF Failed, Entry
  <2>2. QED
    BY <1>2, <1>3, <1>4, <1>5, <2>1
<1>6. CASE ~(o.attempts + 1 >= MaxAttempts)
  <2>1. Failed(o).status = "pending"
    BY <1>1, <1>6 DEF Failed, Entry
  <2>2. QED
    BY <1>2, <1>3, <1>4, <1>6, <2>1
<1>7. QED
  BY <1>5, <1>6

(* What a step of the worker does to its queue is an entry again.          *)
LEMMA StoreSteps ==
  ASSUME TypeOK, BatchOwed,
         Rearm \/ Claim \/ Mark \/ (\E n \in 1..MaxRows : Elapse(n))
  PROVE  StoreTyped'
<1>1. rows' = rows /\ setup' = setup /\ crashes' = crashes /\ late' = late
  BY DEF Rearm, Claim, Mark, Elapse, storeVars
<1>2. outbox' \in [Row -> Entry]
  <2>1. outbox \in [Row -> Entry]
    BY Rows
  <2>2. CASE Rearm
    <3>1. \A e \in Entry : [e EXCEPT !.status = "pending", !.due = TRUE] \in Entry
      BY DEF Entry
    <3>2. QED
      BY <2>1, <2>2, <3>1 DEF Rearm
  <2>3. CASE Claim
    BY <2>1, <2>3 DEF Claim, storeVars
  <2>4. CASE Mark
    <3>1. worker.row \in Row /\ outbox[worker.row].attempts < MaxAttempts
      BY <2>4 DEF Mark, BatchOwed, TypeOK
    <3>2. Delivered(outbox[worker.row]) \in Entry /\ Failed(outbox[worker.row]) \in Entry
      BY <2>1, <3>1, Marked
    <3>3. QED
      BY <2>1, <2>4, <3>2 DEF Mark
  <2>5. CASE \E n \in 1..MaxRows : Elapse(n)
    <3>1. PICK n \in Row : outbox' = [outbox EXCEPT ![n].due = TRUE]
                        \/ outbox' = [outbox EXCEPT ![n].aged = TRUE]
      BY <2>5 DEF Elapse
    <3>2. \A e \in Entry : [e EXCEPT !.due = TRUE] \in Entry /\ [e EXCEPT !.aged = TRUE] \in Entry
      BY DEF Entry
    <3>3. QED
      BY <2>1, <3>1, <3>2
  <2>6. QED
    BY <2>2, <2>3, <2>4, <2>5
<1>3. outbox' \in Seq(Entry) /\ Len(outbox') = Len(rows)
  BY <1>2, OutboxTyped
<1>4. QED
  BY <1>1, <1>3, TypeParts DEF StoreTyped, Row

(* The ways a client changes, and what is left of it.                      *)
LEMMA GoesOff ==
  ASSUME NEW c \in Client, NEW d, d = Offline(c)
  PROVE  /\ d \in Client /\ d.pc = "off"
         /\ d.cursor = c.cursor /\ d.frames = {} /\ d.queue = <<>>
<1>1. d \in Client
  BY EmptySeq DEF Client, Offline
<1>2. QED
  BY <1>1 DEF Client, Offline

Connected(c, f) == [c EXCEPT !.pc = "replay", !.queue = <<>>, !.frames = f]

(* A browser that connects starts a replay with an empty queue.            *)
LEMMA Connects ==
  ASSUME NEW c \in Client, NEW f \in SUBSET Row, NEW d, d = Connected(c, f)
  PROVE  /\ d \in Client /\ d.pc = "replay"
         /\ d.cursor = c.cursor /\ d.frames = f /\ d.queue = <<>>
<1>1. d \in Client
  BY EmptySeq DEF Client, Connected
<1>2. QED
  BY <1>1 DEF Client, Connected

(* A replay that is over leaves all but the phase.                         *)
LEMMA GoesLive ==
  ASSUME NEW c \in Client, NEW d, d = [c EXCEPT !.pc = "live"]
  PROVE  /\ d \in Client /\ d.pc = "live"
         /\ d.cursor = c.cursor /\ d.frames = c.frames /\ d.queue = c.queue
BY DEF Client

GivenFrame(c, n) == [c EXCEPT !.cursor = n, !.frames = @ \ {n}]

(* A frame of the replay, given to the browser.                            *)
LEMMA Replays ==
  ASSUME NEW c \in Client, NEW n \in Row, NEW d, d = GivenFrame(c, n)
  PROVE  /\ d \in Client /\ d.pc = c.pc
         /\ d.cursor = n /\ d.frames = c.frames \ {n} /\ d.queue = c.queue
<1>1. d \in Client
  BY DEF Client, GivenFrame
<1>2. QED
  BY <1>1 DEF Client, GivenFrame

GivenHead(c, n) == [c EXCEPT !.cursor = n, !.queue = Tail(@)]

(* The head of the queue, given to the browser.                            *)
LEMMA Takes ==
  ASSUME NEW c \in Client, NEW n \in Row, Tail(c.queue) \in Seq(Row), NEW d, d = GivenHead(c, n)
  PROVE  /\ d \in Client /\ d.pc = c.pc
         /\ d.cursor = n /\ d.frames = c.frames /\ d.queue = Tail(c.queue)
<1>1. d \in Client
  BY DEF Client, GivenHead
<1>2. QED
  BY <1>1 DEF Client, GivenHead

Requeued(c, q) == [c EXCEPT !.queue = q]

(* A fan-out changes the queue alone.                                      *)
LEMMA Queues ==
  ASSUME NEW c \in Client, NEW q \in Seq(Row), NEW d, d = Requeued(c, q)
  PROVE  /\ d \in Client /\ d.pc = c.pc
         /\ d.cursor = c.cursor /\ d.frames = c.frames /\ d.queue = q
BY DEF Client, Requeued

(* Every step keeps the types.                                             *)
LEMMA TypeStep ==
  ASSUME TypeOK, BatchOwed, Next
  PROVE  TypeOK'
<1> USE ChatAssumption
<1>0. StoreTyped /\ WorkerTyped /\ FeedTyped
  BY TypeParts
<1>1. CASE \E kind \in setup.kinds, key \in Key \cup {NoKey} : Post(kind, key)
  <2>1. PICK kind \in setup.kinds, key \in Key \cup {NoKey} : Post(kind, key)
    BY <1>1
  <2>2. kind \in Kind
    BY <1>0 DEF StoreTyped
  <2>3. /\ StoreTyped' /\ Row \subseteq Row' /\ Len(rows) + 1 \in Row'
    BY <1>0, <2>1, <2>2, Appended DEF StoreTyped, Post
  <2>4. WorkerTyped'
    BY <1>0, <2>1, <2>3 DEF WorkerTyped, Post
  <2>5. FeedTyped'
    <3>1. loop \in Seq(Row') /\ client.queue \in Seq(Row')
      BY <1>0, <2>3, SeqMonotonic DEF FeedTyped, Client
    <3>2. loop' \in Seq(Row')
      BY <2>1, <2>3, <3>1, AppendProperties DEF Post
    <3>3. client' = client /\ seen' = seen /\ shed' = shed
      BY <2>1 DEF Post
    <3>4. QED
      BY <1>0, <2>3, <3>1, <3>2, <3>3 DEF FeedTyped, Client
  <2>6. QED
    BY <2>3, <2>4, <2>5, TypePartsNext
<1>2. CASE \E key \in Key : Collapse(key)
  BY <1>0, <1>2, TypePartsNext DEF Collapse, storeVars, TypeOK, Twins, Row
<1>3. CASE \E S \in Ackable : Ack(S)
  <2>1. PICK S \in Ackable : Ack(S)
    BY <1>3
  <2>2. rows \in [Row -> Note] /\ Row = 1..Len(rows) /\ Len(rows) \in Nat
    BY Rows
  <2>3. Acked(S) \in [Row -> Note]
    BY <2>2 DEF Acked, Note
  <2>4. rows' \in Seq(Note) /\ Len(rows') = Len(rows)
    BY <2>1, <2>2, <2>3, AsSeq DEF Ack
  <2>5. Row' = Row
    BY <2>1, <2>2 DEF Ack, Acked, Row
  <2>6. QED
    BY <1>0, <2>1, <2>4, <2>5, TypePartsNext
       DEF Ack, feedVars, StoreTyped, WorkerTyped, FeedTyped, Client
<1>4. CASE Rearm \/ Claim \/ Mark \/ \E n \in 1..MaxRows : Elapse(n)
  <2>1. StoreTyped'
    BY <1>4, StoreSteps
  <2>2. Row' = Row /\ UNCHANGED feedVars /\ UNCHANGED rows
    BY <1>4 DEF Rearm, Claim, Mark, Elapse, Row, storeVars
  <2>3. WorkerTyped'
    <3>1. CASE Rearm
      BY <1>0, <2>2, <3>1 DEF WorkerTyped, Rearm
    <3>2. CASE Claim
      BY <1>0, <2>2, <3>2 DEF WorkerTyped, Claim
    <3>3. CASE Mark
      BY <1>0, <2>2, <3>3 DEF WorkerTyped, Mark, Resting
    <3>4. CASE \E n \in 1..MaxRows : Elapse(n)
      BY <1>0, <2>2, <3>4 DEF WorkerTyped, Elapse
    <3>5. QED
      BY <1>4, <3>1, <3>2, <3>3, <3>4
  <2>4. QED
    BY <1>0, <2>1, <2>2, <2>3, FeedKeeps, TypePartsNext
<1>5. CASE \E n \in Row : \E reached, answered \in BOOLEAN : Push(n, reached, answered)
  <2>1. UNCHANGED <<storeVars, setup, crashes, feedVars>> /\ Row' = Row
    BY <1>5 DEF Push, Row, storeVars
  <2>2. late' \in [Row -> Nat]
    BY <1>0, <1>5 DEF Push, StoreTyped
  <2>3. WorkerTyped'
    BY <1>0, <1>5, <2>1 DEF WorkerTyped, Push
  <2>4. QED
    BY <1>0, <2>1, <2>2, <2>3, FeedKeeps, TypePartsNext DEF StoreTyped, storeVars
<1>6. CASE Restart
  <2>1. UNCHANGED <<storeVars, setup, late, seen, shed>> /\ Row' = Row
    BY <1>6 DEF Restart, Row, storeVars
  <2>2. StoreTyped' /\ WorkerTyped'
    BY <1>0, <1>6, <2>1 DEF Restart, StoreTyped, WorkerTyped, storeVars, Resting
  <2>3. FeedTyped'
    <3>1. client' \in Client /\ client'.queue \in {client.queue, <<>>}
      BY <1>0, <1>6, GoesOff DEF Restart, FeedTyped
    <3>2. Client' = Client /\ loop' \in Seq(Row)
      BY <1>6, <2>1, EmptySeq DEF Client, Restart
    <3>3. Len(client'.queue) <= QueueSize
      BY <1>0, <3>1, EmptySeq DEF FeedTyped
    <3>4. QED
      BY <1>0, <2>1, <3>1, <3>2, <3>3 DEF FeedTyped
  <2>4. QED
    BY <2>2, <2>3, TypePartsNext
<1>7. CASE LoadPage \/ Connect \/ Replay \/ Live \/ FanOut \/ Disconnect
  <2>1. UNCHANGED <<storeVars, setup, worker, crashes, late>> /\ Row' = Row
    BY <1>7 DEF LoadPage, Connect, Replay, Live, FanOut, Disconnect, storeVars, Row
  <2>2. StoreTyped' /\ WorkerTyped'
    BY <1>0, <2>1 DEF StoreTyped, WorkerTyped, storeVars
  <2>3. FeedTyped'
    <3> USE EmptySeq
    <3>0. Client' = Client
      BY <2>1 DEF Client
    <3>1. CASE LoadPage
      BY <1>0, <2>1, <3>0, <3>1, GoesOff DEF LoadPage, Page, FeedTyped
    <3>2. CASE Connect
      <4>1. Replayed \in SUBSET Row /\ Missed \in SUBSET Row
        BY DEF Replayed, Missed
      <4>2. client' \in Client /\ client'.queue = <<>>
        <5>1. client' = Connected(client, Replayed)
          BY <3>2 DEF Connect, Connected
        <5>2. QED
          BY <1>0, <4>1, <5>1, Connects DEF FeedTyped
      <4>3. shed' \subseteq Row
        BY <1>0, <3>2, <4>1 DEF Connect, FeedTyped
      <4>4. Row' = Row /\ loop' = loop /\ seen' = seen
        BY <2>1, <3>2 DEF Connect
      <4>5. QED
        BY <1>0, <3>0, <4>2, <4>3, <4>4 DEF FeedTyped
    <3>3. CASE Replay
      <4>1. CASE client.frames = {}
        BY <1>0, <2>1, <3>0, <3>3, <4>1, GoesLive DEF Replay, FeedTyped
      <4>2. CASE client.frames # {}
        <5>1. client.frames \in SUBSET Row /\ client.frames \in SUBSET Nat
          BY <1>0, Rows DEF FeedTyped, Client
        <5>2. Min(client.frames) \in Row
          BY <4>2, <5>1, LeastRow
        <5>3. client' \in Client /\ client'.queue = client.queue
          <6>1. client' = GivenFrame(client, Min(client.frames))
            BY <3>3, <4>2 DEF Replay, GivenFrame
          <6>2. QED
            BY <1>0, <5>2, <6>1, Replays DEF FeedTyped
        <5>4. /\ seen' = seen \cup {Min(client.frames)}
              /\ Row' = Row /\ loop' = loop /\ shed' = shed
          BY <2>1, <3>3, <4>2 DEF Replay, Given
        <5>5. QED
          BY <1>0, <3>0, <5>2, <5>3, <5>4 DEF FeedTyped
      <4>3. QED
        BY <4>1, <4>2
    <3>4. CASE Live
      <4>1. client.queue \in Seq(Row) /\ Len(client.queue) \in Nat /\ QueueSize \in Nat
        BY <1>0, LenProperties DEF FeedTyped, Client
      <4>2. /\ Head(client.queue) \in Row /\ Tail(client.queue) \in Seq(Row)
            /\ Len(Tail(client.queue)) = Len(client.queue) - 1
        BY <3>4, <4>1, HeadTailProperties DEF Live
      <4>3. client' \in Client /\ client'.queue = Tail(client.queue)
        BY <1>0, <3>4, <4>2, Takes DEF Live, GivenHead, FeedTyped
      <4>4. Len(client'.queue) <= QueueSize
        BY <1>0, <4>1, <4>2, <4>3 DEF FeedTyped
      <4>5. seen' = seen \cup {Head(client.queue)} /\ loop' = loop /\ shed' = shed /\ Row' = Row
        BY <2>1, <3>4 DEF Live, Given
      <4>6. QED
        BY <1>0, <3>0, <4>2, <4>3, <4>4, <4>5 DEF FeedTyped
    <3>5. CASE FanOut
      <4>1. /\ Head(loop) \in Row /\ Tail(loop) \in Seq(Row)
        BY <1>0, <3>5, HeadTailProperties DEF FanOut, FeedTyped
      <4>2. client.queue \in Seq(Row) /\ Len(client.queue) \in Nat /\ QueueSize \in Nat
        BY <1>0, LenProperties DEF FeedTyped, Client
      <4>3. /\ Append(client.queue, Head(loop)) \in Seq(Row)
            /\ Len(Append(client.queue, Head(loop))) = Len(client.queue) + 1
        BY <4>1, <4>2, AppendProperties
      <4>4. client' \in Client /\ Len(client'.queue) <= QueueSize
        <5>1. CASE client' = client
          BY <1>0, <5>1 DEF FeedTyped
        <5>2. CASE client' # client
          <6>1. /\ client' = Requeued(client, Append(client.queue, Head(loop)))
                /\ Len(client.queue) # QueueSize
            BY <3>5, <5>2 DEF FanOut, Requeued
          <6>2. client' \in Client /\ client'.queue = Append(client.queue, Head(loop))
            <7>1. client \in Client
              BY <1>0 DEF FeedTyped
            <7>2. QED
              BY <4>3, <6>1, <7>1, Queues
          <6>3. Len(client.queue) <= QueueSize
            BY <1>0 DEF FeedTyped
          <6>4. QED
            BY <4>2, <4>3, <6>1, <6>2, <6>3
        <5>3. QED
          BY <5>1, <5>2
      <4>5. /\ seen' = seen /\ loop' = Tail(loop) /\ Row' = Row
            /\ shed' \subseteq shed \cup {Head(loop)}
        BY <2>1, <3>5 DEF FanOut
      <4>6. QED
        BY <1>0, <3>0, <4>1, <4>4, <4>5 DEF FeedTyped
    <3>6. CASE Disconnect
      BY <1>0, <2>1, <3>0, <3>6, GoesOff DEF Disconnect, FeedTyped
    <3>7. QED
      BY <1>7, <3>1, <3>2, <3>3, <3>4, <3>5, <3>6
  <2>4. QED
    BY <2>2, <2>3, TypePartsNext
<1>8. QED
  BY <1>1, <1>2, <1>3, <1>4, <1>5, <1>6, <1>7 DEF Next, WorkerStep
-----------------------------------------------------------------------------
(* The outbox.                                                             *)

(* Types the two invariants read.                                          *)
LEMMA Counts ==
  ASSUME TypeOK
  PROVE  /\ \A n \in Row : late[n] \in Nat /\ outbox[n].attempts \in Nat
         /\ \A n \in Row : rows[n].acked \in BOOLEAN
         /\ crashes \in Nat /\ MaxAttempts \in Nat /\ worker.batch \subseteq Row
<1>1. outbox \in [Row -> Entry] /\ rows \in [Row -> Note]
  BY Rows
<1>2. \A n \in Row : outbox[n].attempts \in Nat /\ rows[n].acked \in BOOLEAN
  BY <1>1, ChatAssumption DEF Entry, Note
<1>3. QED
  BY <1>2, ChatAssumption DEF TypeOK

(* A step that moves no status, no attempt, no count and no worker.        *)
LEMMA OutboxIdle ==
  ASSUME OutboxInv, Row' = Row, UNCHANGED <<worker, crashes, late>>,
         \A n \in Row : /\ outbox'[n].status = outbox[n].status
                        /\ outbox'[n].attempts = outbox[n].attempts
                        /\ ~rows'[n].acked => ~rows[n].acked
  PROVE  BatchOwed' /\ LateCounted'
<1>1. worker.batch \subseteq Row
  BY Counts DEF OutboxInv
<1>2. BatchOwed'
  BY <1>1 DEF OutboxInv, BatchOwed
<1>3. \A n : Unmarked(n)' = Unmarked(n)
  BY DEF Unmarked
<1>4. LateCounted'
  BY <1>3 DEF OutboxInv, LateCounted
<1>5. QED
  BY <1>2, <1>4

(* A new row has had no attempt and no push.                               *)
LEMMA PostOwed ==
  ASSUME OutboxInv, NEW kind \in Kind, NEW key \in Key \cup {NoKey}, Post(kind, key)
  PROVE  BatchOwed' /\ LateCounted'
<1>1. TypeOK /\ BatchOwed /\ LateCounted
  BY DEF OutboxInv
<1>2. worker' = worker /\ crashes' = crashes /\ \A n : Unmarked(n)' = Unmarked(n)
  BY DEF Post, Unmarked
<1> DEFINE new == Len(rows) + 1
<1>3. /\ Row' = Row \cup {new}
      /\ \A n \in Row : rows'[n] = rows[n] /\ outbox'[n] = outbox[n] /\ late'[n] = late[n]
      /\ late'[new] = 0 /\ outbox'[new].status = "pending" /\ outbox'[new].attempts = 0
  BY <1>1, Appended
<1> HIDE DEF new
<1>4. MaxAttempts \in Nat \ {0} /\ crashes \in Nat /\ worker.batch \subseteq Row
  BY <1>1, ChatAssumption, Counts
<1>5. \A n : Unmarked(n) \in {0, 1}
  BY DEF Unmarked
<1>6. BatchOwed'
  BY <1>1, <1>2, <1>3, <1>4 DEF BatchOwed
<1>7. LateCounted'
  BY <1>1, <1>2, <1>3, <1>4, <1>5 DEF LateCounted
<1>8. QED
  BY <1>6, <1>7

(* A row is armed again only while it is not acked: it has no late push.   *)
LEMMA RearmOwed ==
  ASSUME OutboxInv, Rearm
  PROVE  BatchOwed' /\ LateCounted'
<1>1. TypeOK /\ BatchOwed /\ LateCounted /\ worker.pc = "rearm" /\ worker.batch = {}
  BY DEF OutboxInv, Rearm, BatchOwed
<1>2. /\ rows' = rows /\ late' = late /\ crashes' = crashes /\ Row' = Row
      /\ worker'.pc = "claim" /\ worker'.batch = {}
  BY <1>1 DEF Rearm, Row, TypeOK
<1>3. outbox \in [Row -> Entry]
  BY <1>1, Rows
<1>4. ASSUME NEW n \in Row
      PROVE  /\ outbox'[n].attempts = outbox[n].attempts
             /\ outbox'[n].status # outbox[n].status =>
                  ~rows[n].acked /\ outbox[n].status = "delivered"
  <2>1. outbox'[n] = IF Rearmable(n)
                     THEN [outbox[n] EXCEPT !.status = "pending", !.due = TRUE]
                     ELSE outbox[n]
    BY DEF Rearm
  <2>2. QED
    BY <1>3, <2>1 DEF Rearmable, Entry
<1>5. ASSUME NEW n \in Row, outbox'[n].status # "gave_up"
      PROVE  outbox'[n].attempts < MaxAttempts
  BY <1>1, <1>4, <1>5 DEF BatchOwed
<1>6. BatchOwed'
  BY <1>2, <1>5 DEF BatchOwed
<1>7. LateCounted'
  <2> SUFFICES ASSUME NEW n \in Row
               PROVE  /\ ~rows[n].acked => late[n] = 0
                      /\ outbox'[n].status = "pending" =>
                           late[n] <= outbox'[n].attempts + crashes + 0
                      /\ late[n] <= MaxAttempts + crashes
    BY <1>2 DEF LateCounted, Unmarked
  <2>1. Unmarked(n) = 0
    BY <1>1 DEF Unmarked
  <2>2. late[n] \in Nat /\ outbox[n].attempts \in Nat /\ crashes \in Nat
    BY <1>1, Counts
  <2>3. QED
    BY <1>1, <1>4, <2>1, <2>2 DEF LateCounted
<1>8. QED
  BY <1>6, <1>7

(* A claim takes what is due, hence pending.                               *)
LEMMA ClaimOwed ==
  ASSUME OutboxInv, Claim
  PROVE  BatchOwed' /\ LateCounted'
<1>1. TypeOK /\ BatchOwed /\ LateCounted /\ worker.pc = "claim"
  BY DEF OutboxInv, Claim
<1>2. rows' = rows /\ outbox' = outbox /\ late' = late /\ crashes' = crashes /\ Row' = Row
  BY DEF Claim, storeVars, Row
<1> DEFINE batch == {n \in Row : Due(n)}
<1>3. /\ worker'.pc = IF batch = {} THEN "rearm" ELSE "push"
      /\ worker'.batch = batch
  <2>1. worker' = [worker EXCEPT !.pc = IF batch = {} THEN "rearm" ELSE "push",
                                 !.batch = batch]
    BY DEF Claim
  <2> HIDE DEF batch
  <2>2. QED
    BY <1>1, <2>1 DEF TypeOK
<1>4. \A n \in batch : n \in Row /\ outbox[n].status = "pending"
  BY DEF Due
<1> HIDE DEF batch
<1>5. BatchOwed'
  BY <1>1, <1>2, <1>3, <1>4 DEF BatchOwed
<1>6. \A n : Unmarked(n) = 0 /\ Unmarked(n)' = 0
  BY <1>1, <1>3 DEF Unmarked
<1>7. LateCounted'
  BY <1>1, <1>2, <1>6 DEF LateCounted
<1>8. QED
  BY <1>5, <1>7

(* A push to an acked row is late, and is the one to be marked.            *)
LEMMA PushOwed ==
  ASSUME OutboxInv, NEW n \in Row, NEW reached \in BOOLEAN, NEW answered \in BOOLEAN,
         Push(n, reached, answered)
  PROVE  BatchOwed' /\ LateCounted'
<1>1. TypeOK /\ BatchOwed /\ LateCounted /\ worker.pc = "push" /\ n \in worker.batch
  BY DEF OutboxInv, Push
<1>2. rows' = rows /\ outbox' = outbox /\ crashes' = crashes /\ Row' = Row
  BY DEF Push, storeVars, Row
<1>3. worker'.pc = "mark" /\ worker'.row = n /\ worker'.batch = worker.batch
  BY <1>1 DEF Push, TypeOK
<1>4. /\ \A m \in Row \ {n} : late'[m] = late[m]
      /\ late'[n] \in {late[n], late[n] + 1} /\ (~rows[n].acked => late'[n] = late[n])
  BY <1>1 DEF Push, TypeOK
<1>5. BatchOwed'
  BY <1>1, <1>2, <1>3 DEF BatchOwed
<1>6. LateCounted'
  <2> SUFFICES ASSUME NEW m \in Row
               PROVE  /\ ~rows[m].acked => late'[m] = 0
                      /\ outbox[m].status = "pending" =>
                           late'[m] <= outbox[m].attempts + crashes + Unmarked(m)'
                      /\ late'[m] <= MaxAttempts + crashes
    BY <1>2 DEF LateCounted
  <2>1. /\ late[m] \in Nat /\ outbox[m].attempts \in Nat
        /\ crashes \in Nat /\ MaxAttempts \in Nat
    BY <1>1, Counts
  <2>2. Unmarked(m) = 0 /\ Unmarked(m)' = IF m = n THEN 1 ELSE 0
    BY <1>1, <1>3 DEF Unmarked
  <2>3. CASE m = n
    <3>1. outbox[n].status = "pending" /\ outbox[n].attempts < MaxAttempts
      BY <1>1 DEF BatchOwed
    <3>2. late[n] <= outbox[n].attempts + crashes
      BY <1>1, <2>1, <2>2, <2>3, <3>1 DEF LateCounted
    <3>3. QED
      BY <1>1, <1>4, <2>1, <2>2, <2>3, <3>1, <3>2 DEF LateCounted
  <2>4. CASE m # n
    BY <1>1, <1>4, <2>1, <2>2, <2>4 DEF LateCounted
  <2>5. QED
    BY <2>3, <2>4
<1>7. QED
  BY <1>5, <1>6

(* A mark counts the attempt and takes the row out of the batch.           *)
LEMMA MarkOwed ==
  ASSUME OutboxInv, Mark
  PROVE  BatchOwed' /\ LateCounted'
<1> DEFINE n == worker.row
           rest == worker.batch \ {n}
<1>1. TypeOK /\ BatchOwed /\ LateCounted /\ worker.pc = "mark" /\ n \in worker.batch
  BY DEF OutboxInv, Mark, BatchOwed
<1>2. rows' = rows /\ late' = late /\ crashes' = crashes /\ Row' = Row
  BY DEF Mark, Row
<1>3. /\ worker'.pc = IF rest = {} THEN "rearm" ELSE "push"
      /\ worker'.batch = rest
  <2>1. worker' = [Resting EXCEPT !.pc = IF rest = {} THEN "rearm" ELSE "push", !.batch = rest]
    BY DEF Mark
  <2> HIDE DEF rest
  <2>2. QED
    BY <2>1 DEF Resting
<1>4. outbox \in [Row -> Entry] /\ n \in Row /\ worker.batch \subseteq Row
  BY <1>1, Rows, Counts
<1>5. /\ \A m \in Row \ {n} : outbox'[m] = outbox[m]
      /\ outbox'[n] \in {Delivered(outbox[n]), Failed(outbox[n])}
  BY <1>4 DEF Mark
<1>6. outbox[n] \in Entry /\ outbox[n].status = "pending" /\ outbox[n].attempts < MaxAttempts
  BY <1>1, <1>4 DEF BatchOwed
<1>7. \/ outbox'[n].status = "delivered" /\ outbox'[n].attempts = 0
      \/ /\ outbox'[n].attempts = outbox[n].attempts + 1
         /\ outbox'[n].status = IF outbox[n].attempts + 1 >= MaxAttempts
                                THEN "gave_up" ELSE "pending"
  BY <1>5, <1>6, Marked
<1>8. MaxAttempts \in Nat \ {0} /\ crashes \in Nat /\ outbox[n].attempts \in Nat /\ late[n] \in Nat
  BY <1>1, <1>4, Counts, ChatAssumption
<1>9. n \notin rest /\ rest \subseteq worker.batch
  OBVIOUS
<1>10. \A m : Unmarked(m)' = 0 /\ Unmarked(m) = IF m = n THEN 1 ELSE 0
  BY <1>1, <1>3 DEF Unmarked
<1> HIDE DEF n, rest
<1>11. BatchOwed'
  <2>1. outbox'[n].status # "gave_up" => outbox'[n].attempts < MaxAttempts
    BY <1>7, <1>8
  <2>2. \A m \in Row : outbox'[m].status # "gave_up" => outbox'[m].attempts < MaxAttempts
    BY <1>1, <1>5, <2>1 DEF BatchOwed
  <2>3. \A m \in rest : outbox'[m].status = "pending"
    BY <1>1, <1>4, <1>5, <1>9 DEF BatchOwed
  <2>4. QED
    BY <1>2, <1>3, <2>2, <2>3 DEF BatchOwed
<1>12. LateCounted'
  <2> SUFFICES ASSUME NEW m \in Row
               PROVE  /\ ~rows[m].acked => late[m] = 0
                      /\ outbox'[m].status = "pending" =>
                           late[m] <= outbox'[m].attempts + crashes + 0
                      /\ late[m] <= MaxAttempts + crashes
    BY <1>2, <1>10 DEF LateCounted
  <2>1. CASE m = n
    <3>1. late[n] <= outbox[n].attempts + crashes + 1
      BY <1>1, <1>4, <1>6, <1>10 DEF LateCounted
    <3>2. outbox'[n].status = "pending" => late[n] <= outbox'[n].attempts + crashes + 0
      BY <1>7, <1>8, <3>1
    <3>3. QED
      BY <1>1, <1>4, <2>1, <3>2 DEF LateCounted
  <2>2. CASE m # n
    BY <1>1, <1>5, <1>10, <2>2 DEF LateCounted
  <2>3. QED
    BY <2>1, <2>2
<1>13. QED
  BY <1>11, <1>12

(* A crash forgets the batch; the push it left unmarked is its own.        *)
LEMMA RestartOwed ==
  ASSUME OutboxInv, Restart
  PROVE  BatchOwed' /\ LateCounted'
<1>1. TypeOK /\ BatchOwed /\ LateCounted
  BY DEF OutboxInv
<1>2. /\ rows' = rows /\ outbox' = outbox /\ late' = late /\ Row' = Row
      /\ crashes' = crashes + 1 /\ worker'.pc = "rearm" /\ worker'.batch = {}
  BY DEF Restart, storeVars, Row, Resting
<1>3. BatchOwed'
  BY <1>1, <1>2 DEF BatchOwed
<1>4. LateCounted'
  <2> SUFFICES ASSUME NEW n \in Row
               PROVE  /\ ~rows[n].acked => late[n] = 0
                      /\ outbox[n].status = "pending" =>
                           late[n] <= outbox[n].attempts + (crashes + 1) + 0
                      /\ late[n] <= MaxAttempts + (crashes + 1)
    BY <1>2 DEF LateCounted, Unmarked
  <2>1. Unmarked(n) \in {0, 1}
    BY DEF Unmarked
  <2>2. /\ late[n] \in Nat /\ outbox[n].attempts \in Nat
        /\ crashes \in Nat /\ MaxAttempts \in Nat
    BY <1>1, Counts
  <2>3. QED
    BY <1>1, <2>1, <2>2 DEF LateCounted
<1>5. QED
  BY <1>3, <1>4

(* Every step keeps what is said of the outbox.                            *)
LEMMA OutboxStep ==
  ASSUME OutboxInv, [Next]_vars
  PROVE  OutboxInv'
<1>0. TypeOK /\ BatchOwed
  BY DEF OutboxInv
<1>1. CASE UNCHANGED vars
  <2>1. TypeOK'
    BY <1>0, <1>1 DEF TypeOK, vars, storeVars, feedVars, Row
  <2>2. Row' = Row /\ UNCHANGED <<rows, outbox, worker, crashes, late>>
    BY <1>1 DEF vars, storeVars, Row
  <2>3. QED
    BY <2>1, <2>2, OutboxIdle DEF OutboxInv
<1>2. CASE Next
  <2>1. TypeOK'
    BY <1>0, <1>2, TypeStep
  <2>2. BatchOwed' /\ LateCounted'
    <3>1. CASE \E kind \in setup.kinds, key \in Key \cup {NoKey} : Post(kind, key)
      <4>1. PICK kind \in setup.kinds, key \in Key \cup {NoKey} : Post(kind, key)
        BY <3>1
      <4>2. kind \in Kind
        BY <1>0, ChatAssumption DEF TypeOK
      <4>3. QED
        BY <4>1, <4>2, PostOwed
    <3>2. CASE \/ \E key \in Key : Collapse(key)
               \/ LoadPage \/ Connect \/ Replay \/ Live \/ FanOut \/ Disconnect
      <4>1. UNCHANGED <<rows, outbox, worker, crashes, late>> /\ Row' = Row
        BY <3>2 DEF Collapse, LoadPage, Connect, Replay, Live, FanOut, Disconnect, storeVars, Row
      <4>2. QED
        BY <4>1, OutboxIdle
    <3>3. CASE \E S \in Ackable : Ack(S)
      <4>1. PICK S \in Ackable : Ack(S)
        BY <3>3
      <4>2. UNCHANGED <<outbox, worker, crashes, late>> /\ rows' = Acked(S)
        BY <4>1 DEF Ack
      <4>3. rows \in [Row -> Note]
        BY <1>0, Rows
      <4>4. Row' = Row /\ \A n \in Row : ~rows'[n].acked => ~rows[n].acked
        BY <4>2, <4>3 DEF Acked, Row, Note
      <4>5. QED
        BY <4>2, <4>4, OutboxIdle
    <3>4. CASE Restart
      BY <3>4, RestartOwed
    <3>5. CASE \E n \in 1..MaxRows : Elapse(n)
      <4>1. PICK n \in 1..MaxRows : Elapse(n)
        BY <3>5
      <4>2. UNCHANGED <<rows, worker, crashes, late>> /\ Row' = Row /\ n \in Row
        BY <4>1 DEF Elapse, Row
      <4>3. outbox \in [Row -> Entry]
        BY <1>0, Rows
      <4>4. \A m \in Row : /\ outbox'[m].status = outbox[m].status
                           /\ outbox'[m].attempts = outbox[m].attempts
        BY <4>1, <4>2, <4>3 DEF Elapse, Entry
      <4>5. QED
        BY <4>2, <4>4, OutboxIdle
    <3>6. CASE WorkerStep
      BY <3>6, RearmOwed, ClaimOwed, PushOwed, MarkOwed DEF WorkerStep
    <3>7. QED
      BY <1>2, <3>1, <3>2, <3>3, <3>4, <3>5, <3>6 DEF Next
  <2>3. QED
    BY <2>1, <2>2 DEF OutboxInv
<1>3. QED
  BY <1>1, <1>2
-----------------------------------------------------------------------------
(* Sequences in order.                                                     *)

(* What is appended comes after all that was there.                        *)
LEMMA AppendBefore ==
  ASSUME NEW S, NEW s \in Seq(S), NEW e \in S
  PROVE  /\ \A i \in 1..(Len(s) + 1) : Before(Append(s, e), i) = Before(s, i)
         /\ Before(s, Len(s) + 1) = Elements(s)
         /\ Elements(Append(s, e)) = Elements(s) \cup {e}
<1>1. /\ Len(s) \in Nat /\ Len(Append(s, e)) = Len(s) + 1
      /\ \A i \in 1..Len(s) : Append(s, e)[i] = s[i]
      /\ Append(s, e)[Len(s) + 1] = e
  BY AppendProperties, LenProperties
<1>2. ASSUME NEW i \in 1..(Len(s) + 1)
      PROVE  Before(Append(s, e), i) = Before(s, i)
  <2>1. \A j \in 1..(i - 1) : j \in 1..Len(s)
    BY <1>1
  <2>2. QED
    BY <1>1, <2>1 DEF Before
<1>3. Before(s, Len(s) + 1) = Elements(s)
  BY <1>1 DEF Before, Elements
<1>4. Elements(Append(s, e)) = Elements(s) \cup {e}
  <2>1. 1..Len(Append(s, e)) = 1..Len(s) \cup {Len(s) + 1}
    BY <1>1
  <2>2. QED
    BY <1>1, <2>1 DEF Elements
<1>5. QED
  BY <1>2, <1>3, <1>4

(* Who takes the head has it before the rest.                              *)
LEMMA TailBefore ==
  ASSUME NEW S, NEW s \in Seq(S), s # <<>>
  PROVE  /\ Before(s, 1) = {} /\ Len(s) \in Nat \ {0} /\ s[1] = Head(s)
         /\ Len(Tail(s)) = Len(s) - 1 /\ \A i \in 1..Len(Tail(s)) : Tail(s)[i] = s[i + 1]
         /\ \A i \in 1..Len(Tail(s)) : Before(s, i + 1) = {Head(s)} \cup Before(Tail(s), i)
         /\ Elements(s) = {Head(s)} \cup Elements(Tail(s))
<1>1. /\ Len(s) \in Nat \ {0} /\ s[1] = Head(s)
      /\ Len(Tail(s)) = Len(s) - 1 /\ \A i \in 1..Len(Tail(s)) : Tail(s)[i] = s[i + 1]
  BY EmptySeq, HeadTailProperties
<1>2. Before(s, 1) = {}
  BY DEF Before
<1>3. ASSUME NEW i \in 1..Len(Tail(s))
      PROVE  Before(s, i + 1) = {Head(s)} \cup Before(Tail(s), i)
  <2>1. ASSUME NEW x \in Before(s, i + 1)
        PROVE  x \in {Head(s)} \cup Before(Tail(s), i)
    <3>1. PICK j \in 1..i : x = s[j]
      BY <1>1 DEF Before
    <3>2. CASE j = 1
      BY <1>1, <3>1, <3>2
    <3>3. CASE j # 1
      <4>1. j - 1 \in 1..(i - 1) /\ j - 1 \in 1..Len(Tail(s)) /\ (j - 1) + 1 = j
        BY <1>1, <3>3
      <4>2. Tail(s)[j - 1] = x
        BY <1>1, <3>1, <4>1
      <4>3. QED
        BY <4>1, <4>2 DEF Before
    <3>4. QED
      BY <3>2, <3>3
  <2>2. Head(s) \in Before(s, i + 1)
    <3>1. 1 \in 1..((i + 1) - 1)
      BY <1>1
    <3>2. QED
      BY <1>1, <3>1 DEF Before
  <2>3. ASSUME NEW x \in Before(Tail(s), i)
        PROVE  x \in Before(s, i + 1)
    <3>1. PICK j \in 1..(i - 1) : x = Tail(s)[j]
      BY DEF Before
    <3>2. j \in 1..Len(Tail(s)) /\ j + 1 \in 1..((i + 1) - 1)
      BY <1>1
    <3>3. x = s[j + 1]
      BY <1>1, <3>1, <3>2
    <3>4. QED
      BY <3>2, <3>3 DEF Before
  <2>4. QED
    BY <2>1, <2>2, <2>3
<1>4. Elements(s) = {Head(s)} \cup Elements(Tail(s))
  <2>1. ASSUME NEW x \in Elements(s)
        PROVE  x \in {Head(s)} \cup Elements(Tail(s))
    <3>1. PICK j \in 1..Len(s) : x = s[j]
      BY DEF Elements
    <3>2. CASE j = 1
      BY <1>1, <3>1, <3>2
    <3>3. CASE j # 1
      <4>1. j - 1 \in 1..Len(Tail(s)) /\ (j - 1) + 1 = j
        BY <1>1, <3>3
      <4>2. Tail(s)[j - 1] = x
        BY <1>1, <3>1, <4>1
      <4>3. QED
        BY <4>1, <4>2 DEF Elements
    <3>4. QED
      BY <3>2, <3>3
  <2>2. Head(s) \in Elements(s)
    BY <1>1 DEF Elements
  <2>3. ASSUME NEW x \in Elements(Tail(s))
        PROVE  x \in Elements(s)
    <3>1. PICK j \in 1..Len(Tail(s)) : x = Tail(s)[j]
      BY DEF Elements
    <3>2. j + 1 \in 1..Len(s) /\ x = s[j + 1]
      BY <1>1, <3>1
    <3>3. QED
      BY <3>2 DEF Elements
  <2>4. QED
    BY <2>1, <2>2, <2>3
<1>5. QED
  BY <1>1, <1>2, <1>3, <1>4

(* An element that comes after what is known keeps a sequence ordered.     *)
LEMMA OrderedAppend ==
  ASSUME NEW R, NEW S, NEW s \in Seq(S), NEW e \in S, NEW known,
         Ordered(R, s, known),
         \A n \in R : n < e => n \in known \cup Elements(s)
  PROVE  Ordered(R, Append(s, e), known)
<1>1. /\ Len(s) \in Nat /\ Len(Append(s, e)) = Len(s) + 1
      /\ \A i \in 1..Len(s) : Append(s, e)[i] = s[i]
      /\ Append(s, e)[Len(s) + 1] = e
  BY AppendProperties, LenProperties
<1>2. SUFFICES ASSUME NEW i \in 1..(Len(s) + 1), NEW n \in R, n < Append(s, e)[i]
               PROVE  n \in known \cup Before(Append(s, e), i)
  BY <1>1 DEF Ordered
<1>3. Before(Append(s, e), i) = Before(s, i)
  BY AppendBefore
<1>4. CASE i \in 1..Len(s)
  BY <1>1, <1>2, <1>3, <1>4 DEF Ordered
<1>5. CASE i = Len(s) + 1
  <2>1. Before(s, i) = Elements(s)
    BY <1>5, AppendBefore
  <2>2. QED
    BY <1>1, <1>2, <1>3, <1>5, <2>1
<1>6. QED
  BY <1>1, <1>4, <1>5

(* Nothing unknown is before the head; once it is known, the tail is       *)
(* ordered.                                                                *)
LEMMA OrderedTail ==
  ASSUME NEW R, NEW S, NEW s \in Seq(S), s # <<>>, NEW known, Ordered(R, s, known)
  PROVE  /\ \A n \in R : n < Head(s) => n \in known
         /\ Ordered(R, Tail(s), known \cup {Head(s)})
<1>1. /\ Before(s, 1) = {} /\ Len(s) \in Nat \ {0} /\ s[1] = Head(s)
      /\ Len(Tail(s)) = Len(s) - 1 /\ \A i \in 1..Len(Tail(s)) : Tail(s)[i] = s[i + 1]
  BY TailBefore
<1>2. ASSUME NEW n \in R, n < Head(s)
      PROVE  n \in known
  <2>1. 1 \in 1..Len(s) /\ n < s[1]
    BY <1>1, <1>2
  <2>2. n \in known \cup Before(s, 1)
    BY <2>1 DEF Ordered
  <2>3. QED
    BY <1>1, <2>2
<1>3. ASSUME NEW i \in 1..Len(Tail(s)), NEW n \in R, n < Tail(s)[i]
      PROVE  n \in known \cup {Head(s)} \cup Before(Tail(s), i)
  <2>1. i + 1 \in 1..Len(s) /\ n < s[i + 1]
    BY <1>1, <1>3
  <2>2. n \in known \cup Before(s, i + 1)
    BY <2>1 DEF Ordered
  <2>3. Before(s, i + 1) = {Head(s)} \cup Before(Tail(s), i)
    BY TailBefore
  <2>4. QED
    BY <2>2, <2>3
<1>4. QED
  BY <1>2, <1>3 DEF Ordered

(* Knowing more keeps a sequence ordered, knowing every row orders any.    *)
LEMMA OrderedMore ==
  ASSUME NEW R, NEW s, NEW known, NEW more, Ordered(R, s, known), known \subseteq more
  PROVE  Ordered(R, s, more)
BY DEF Ordered

(* Nothing is left to come first.                                          *)
LEMMA OrderedAll ==
  ASSUME NEW R, NEW s, NEW known, R \subseteq known
  PROVE  Ordered(R, s, known)
BY DEF Ordered
-----------------------------------------------------------------------------
(* The feed.                                                               *)

(* The types of the feed, one by one.                                      *)
LEMMA FeedTypes ==
  ASSUME TypeOK
  PROVE  /\ client \in Client /\ client.queue \in Seq(Row) /\ loop \in Seq(Row)
         /\ client.frames \in SUBSET Row /\ seen \subseteq Row /\ shed \subseteq Row
         /\ client.pc \in {"out", "off", "replay", "live"} /\ client.cursor \in Row \cup {0}
         /\ Row = 1..Len(rows) /\ Len(rows) \in Nat /\ Row \subseteq Nat
         /\ client.cursor \in Nat
<1>1. FeedTyped
  BY TypeParts
<1>2. Row = 1..Len(rows) /\ Len(rows) \in Nat
  BY Rows
<1>3. client.cursor \in Row \cup {0}
  BY <1>1 DEF FeedTyped, Client
<1>4. client.cursor \in Nat
  BY <1>2, <1>3
<1>5. QED
  BY <1>1, <1>2, <1>3, <1>4 DEF FeedTyped, Client

(* A step that leaves the feed and the number of rows alone.               *)
LEMMA FeedIdle ==
  ASSUME FeedInv, Row' = Row, UNCHANGED feedVars
  PROVE  FeedInv'
<1>1. UNCHANGED <<loop, client, seen, shed>>
  BY DEF feedVars
<1>2. /\ NoHoleButShed' = NoHoleButShed /\ NoneLost' = NoneLost
      /\ InOrder' = InOrder /\ Subscribed' = Subscribed
  BY <1>1 DEF NoHoleButShed, NoneLost, InOrder, Ordered, Replaying, Elements, Before, Subscribed
<1>3. QED
  BY <1>1, <1>2 DEF FeedInv

(* A step after which nobody is subscribed, and that gives nothing.        *)
LEMMA FeedGone ==
  ASSUME FeedInv, Row' = Row, UNCHANGED <<seen, shed>>,
         client'.cursor = client.cursor, ~Subscribed',
         client'.pc = "out" => client.pc = "out"
  PROVE  FeedInv'
BY DEF FeedInv, NoHoleButShed, Subscribed

(* A new row is the greatest, and goes to the loop.                        *)
LEMMA PostKeepsFeed ==
  ASSUME TypeOK, FeedInv, NEW kind \in Kind, NEW key \in Key \cup {NoKey}, Post(kind, key)
  PROVE  FeedInv'
<1> DEFINE new == Len(rows) + 1
           known == Replaying \cup Elements(client.queue)
<1>1. /\ loop \in Seq(Row) /\ client.frames \subseteq Row /\ client.queue \in Seq(Row)
      /\ seen \subseteq Row /\ Row = 1..Len(rows) /\ Len(rows) \in Nat
  BY FeedTypes
<1>2. Row' = Row \cup {new} /\ ~(new < new) /\ \A n \in Row : ~(new < n)
  BY <1>1, Appended
<1>3. loop' = Append(loop, new) /\ client' = client /\ seen' = seen /\ shed' = shed
  BY DEF Post
<1>4. /\ Replaying' = Replaying /\ known' = known /\ (Subscribed' <=> Subscribed)
  BY <1>3 DEF Replaying, Subscribed, Elements
<1>5. loop \in Seq(Row') /\ new \in Row'
  BY <1>1, <1>2, SeqMonotonic
<1>6. Elements(loop)' = Elements(loop) \cup {new}
  BY <1>3, <1>5, AppendBefore
<1> HIDE DEF new
<1>7. NoHoleButShed'
  BY <1>1, <1>2, <1>3 DEF FeedInv, NoHoleButShed
<1>8. ASSUME Subscribed
      PROVE  NoneLost' /\ InOrder'
  <2>1. NoneLost /\ InOrder
    BY <1>8 DEF FeedInv
  <2>2. NoneLost'
    BY <1>2, <1>4, <1>6, <2>1 DEF NoneLost
  <2>3. \A m \in client.frames, n \in Row' : n < m => n \in Replaying
    BY <1>1, <1>2, <2>1 DEF InOrder
  <2>4. Ordered(Row', client.queue, Replaying)
    <3>1. \A i \in 1..Len(client.queue) : client.queue[i] \in Row
      BY <1>1, ElementOfSeq
    <3>2. QED
      BY <1>1, <1>2, <2>1, <3>1 DEF InOrder, Ordered
  <2>5. Ordered(Row', loop, known)
    <3>1. \A i \in 1..Len(loop) : loop[i] \in Row
      BY <1>1, ElementOfSeq
    <3>2. Ordered(Row, loop, known)
      BY <2>1 DEF InOrder
    <3> HIDE DEF known
    <3>3. QED
      BY <1>2, <3>1, <3>2 DEF Ordered
  <2>6. \A n \in Row' : n < new => n \in known \cup Elements(loop)
    BY <1>2, <2>1 DEF NoneLost
  <2>7. Ordered(Row', loop', known)
    <3> HIDE DEF known
    <3>1. QED
      BY <1>3, <1>5, <2>5, <2>6, OrderedAppend
  <2>8. InOrder'
    BY <1>3, <1>4, <2>3, <2>4, <2>7 DEF InOrder
  <2>9. QED
    BY <2>2, <2>8
<1>9. QED
  BY <1>3, <1>4, <1>7, <1>8 DEF FeedInv

(* A repeat sends a row that is there already.                             *)
LEMMA CollapseKeepsFeed ==
  ASSUME TypeOK, FeedInv, NEW key \in Key, Collapse(key)
  PROVE  FeedInv'
<1>1. PICK n \in Row : loop' = <<n>>
  BY DEF Collapse, Twins
<1>2. /\ loop = <<>> /\ Row' = Row /\ UNCHANGED <<client, seen, shed>>
  BY DEF Collapse, storeVars, Row
<1>3. /\ Replaying' = Replaying /\ (Subscribed' <=> Subscribed)
      /\ (NoHoleButShed' <=> NoHoleButShed)
  BY <1>2 DEF Replaying, Subscribed, NoHoleButShed
<1>4. Elements(<<>>) = {}
  BY DEF Elements
<1>5. ASSUME Subscribed
      PROVE  NoneLost' /\ InOrder'
  <2>1. NoneLost /\ InOrder
    BY <1>5 DEF FeedInv
  <2>2. Row \subseteq Replaying \cup Elements(client.queue)
    BY <1>2, <1>4, <2>1 DEF NoneLost
  <2>3. NoneLost'
    BY <1>2, <1>3, <2>2 DEF NoneLost
  <2>4. Ordered(Row, loop', Replaying \cup Elements(client.queue))
    BY <2>2, OrderedAll
  <2>5. InOrder'
    BY <1>2, <1>3, <2>1, <2>4 DEF InOrder
  <2>6. QED
    BY <2>3, <2>5
<1>6. QED
  BY <1>2, <1>3, <1>5 DEF FeedInv

(* A page load shows the newest rows, and leaves the others out.           *)
LEMMA LoadKeepsFeed ==
  ASSUME TypeOK, FeedInv, LoadPage
  PROVE  FeedInv'
<1>1. client \in Client /\ client.cursor \in Row \cup {0}
  BY FeedTypes
<1>2. /\ client' = Offline(client) /\ Row' = Row
      /\ seen' = Page /\ shed' = shed \cup (Row \ Page)
  BY DEF LoadPage, storeVars, Row
<1>3. client'.pc = "off" /\ client'.cursor = client.cursor
  BY <1>1, <1>2, GoesOff
<1>4. client.cursor = 0
  BY DEF LoadPage, FeedInv
<1>5. QED
  BY <1>2, <1>3, <1>4 DEF FeedInv, NoHoleButShed, Subscribed

(* What is not missed is had, by the invariant; what is missed is either   *)
(* replayed or shed.                                                       *)
LEMMA ConnectKeepsFeed ==
  ASSUME TypeOK, FeedInv, Connect
  PROVE  FeedInv'
<1>1. /\ client \in Client /\ client.cursor \in Nat
      /\ Row = 1..Len(rows) /\ Len(rows) \in Nat
  BY FeedTypes
<1>2. Replayed \in SUBSET Row /\ Replayed \subseteq Missed
  BY DEF Replayed, Missed
<1>3. client' = Connected(client, Replayed)
  BY DEF Connect, Connected
<1>4. /\ client'.pc = "replay" /\ client'.cursor = client.cursor
      /\ client'.frames = Replayed /\ client'.queue = <<>>
  <2>1. ASSUME NEW f \in SUBSET Row, NEW d, d = Connected(client, f)
        PROVE  /\ d.pc = "replay" /\ d.cursor = client.cursor
               /\ d.frames = f /\ d.queue = <<>>
    BY <1>1, <2>1, Connects
  <2>2. QED
    BY <1>2, <1>3, <2>1
<1>5. shed' = shed \cup (Missed \ Replayed) /\ seen' = seen /\ loop' = loop /\ Row' = Row
  BY DEF Connect, storeVars, Row
<1>6. Row \subseteq Missed \cup seen \cup shed
  <2> SUFFICES ASSUME NEW n \in Row, n \notin Missed
               PROVE  n \in seen \cup shed
    OBVIOUS
  <2>1. ~(n > client.cursor)
    BY DEF Missed
  <2>2. n = client.cursor \/ n < client.cursor
    <3>1. n \in Nat /\ client.cursor \in Nat
      BY <1>1
    <3>2. \A a, b \in Nat : a > b \/ a = b \/ a < b
      OBVIOUS
    <3>3. QED
      BY <2>1, <3>1, <3>2
  <2>3. client.cursor \in seen
    <3>1. n \in Nat /\ n # 0 /\ ~(n < 0)
      BY <1>1
    <3>2. client.cursor # 0
      BY <2>2, <3>1
    <3>3. QED
      BY <3>2 DEF FeedInv
  <2>4. QED
    BY <2>2, <2>3 DEF FeedInv, NoHoleButShed
<1>7. Row' \subseteq Replaying'
  BY <1>4, <1>5, <1>6 DEF Replaying
<1>8. NoHoleButShed'
  BY <1>5 DEF FeedInv, NoHoleButShed
<1>9. NoneLost'
  BY <1>7 DEF NoneLost
<1>10. InOrder'
  <2>1. Ordered(Row', client'.queue, Replaying')
    BY <1>7, OrderedAll
  <2>2. Row' \subseteq Replaying' \cup Elements(client'.queue)
    BY <1>7
  <2>3. Ordered(Row', loop', Replaying' \cup Elements(client'.queue))
    BY <2>2, OrderedAll
  <2>4. QED
    BY <1>7, <2>1, <2>3 DEF InOrder
<1>11. QED
  BY <1>4, <1>5, <1>8, <1>9, <1>10 DEF FeedInv

(* The least frame goes first.                                             *)
LEMMA ReplayKeepsFeed ==
  ASSUME TypeOK, FeedInv, Replay
  PROVE  FeedInv'
<1>1. /\ client \in Client /\ client.frames \in SUBSET Row /\ Row \subseteq Nat
      /\ client.pc = "replay"
  BY FeedTypes DEF Replay
<1>2. NoneLost /\ InOrder
  BY <1>1 DEF FeedInv, Subscribed
<1>3. loop' = loop /\ shed' = shed /\ Row' = Row
  BY DEF Replay, storeVars, Row
<1>4. CASE client.frames = {}
  <2>1. seen' = seen /\ client' = [client EXCEPT !.pc = "live"]
    BY <1>4 DEF Replay
  <2>2. /\ client'.cursor = client.cursor /\ client'.frames = {}
        /\ client'.queue = client.queue
    BY <1>1, <1>4, <2>1, GoesLive
  <2>3. Replaying' = Replaying
    BY <1>3, <1>4, <2>1, <2>2 DEF Replaying
  <2>4. NoneLost' /\ InOrder'
    BY <1>2, <1>3, <1>4, <2>1, <2>2, <2>3 DEF NoneLost, InOrder
  <2>5. NoHoleButShed'
    BY <1>3, <2>1 DEF FeedInv, NoHoleButShed
  <2>6. QED
    BY <2>1, <2>2, <2>4, <2>5 DEF FeedInv
<1>5. CASE client.frames # {}
  <2> DEFINE n == Min(client.frames)
  <2>1. n \in client.frames /\ n \in Row /\ \A m \in client.frames : n <= m
    <3>1. client.frames \in SUBSET Nat
      BY <1>1
    <3>2. QED
      BY <1>1, <1>5, <3>1, LeastRow
  <2>2. seen' = seen \cup {n} /\ client' = GivenFrame(client, n)
    BY <1>5 DEF Replay, Given, GivenFrame
  <2> HIDE DEF n
  <2>3. /\ client'.pc = "replay" /\ client'.cursor = n /\ client'.queue = client.queue
        /\ client'.frames = client.frames \ {n}
    BY <1>1, <2>1, <2>2, Replays
  <2>4. Replaying' = Replaying
    BY <1>3, <2>1, <2>2, <2>3 DEF Replaying
  <2>5. NoneLost' /\ InOrder'
    BY <1>2, <1>3, <2>3, <2>4 DEF NoneLost, InOrder
  <2>6. NoHoleButShed'
    <3> SUFFICES ASSUME NEW k \in Row, NEW m \in seen \cup {n}, k < m
                 PROVE  k \in seen \cup {n} \cup shed
      BY <1>3, <2>2 DEF NoHoleButShed
    <3>1. CASE m \in seen
      BY <3>1 DEF FeedInv, NoHoleButShed
    <3>2. CASE m = n
      <4>1. k \in Replaying
        BY <1>2, <2>1, <3>2 DEF InOrder
      <4>2. k \notin client.frames
        <5>1. k \in Nat /\ n \in Nat /\ ~(n <= k)
          BY <1>1, <2>1, <3>2
        <5>2. QED
          BY <2>1, <5>1
      <4>3. QED
        BY <4>1, <4>2 DEF Replaying
    <3>3. QED
      BY <3>1, <3>2
  <2>7. QED
    BY <2>2, <2>3, <2>5, <2>6 DEF FeedInv
<1>6. QED
  BY <1>4, <1>5

(* The queue goes in order.                                                *)
LEMMA LiveKeepsFeed ==
  ASSUME TypeOK, FeedInv, Live
  PROVE  FeedInv'
<1> DEFINE m == Head(client.queue)
           rest == Tail(client.queue)
<1>1. /\ client \in Client /\ client.queue \in Seq(Row) /\ client.queue # <<>>
      /\ client.pc = "live" /\ client.frames = {}
  BY FeedTypes DEF Live, FeedInv
<1>2. NoneLost /\ InOrder
  BY <1>1 DEF FeedInv, Subscribed
<1>3. loop' = loop /\ shed' = shed /\ Row' = Row
  BY DEF Live, storeVars, Row
<1>4. m \in Row /\ rest \in Seq(Row)
  BY <1>1, HeadTailProperties
<1>5. seen' = seen \cup {m} /\ client' = GivenHead(client, m)
  BY DEF Live, Given, GivenHead
<1>6. /\ client'.pc = "live" /\ client'.cursor = m /\ client'.frames = {}
      /\ client'.queue = rest
  BY <1>1, <1>4, <1>5, Takes
<1>7. Elements(client.queue) = {m} \cup Elements(rest)
  BY <1>1, TailBefore
<1>8. /\ \A n \in Row : n < m => n \in Replaying
      /\ Ordered(Row, rest, Replaying \cup {m})
  BY <1>1, <1>2, OrderedTail DEF InOrder
<1> HIDE DEF m, rest
<1>9. Replaying' = Replaying \cup {m}
  BY <1>1, <1>3, <1>5, <1>6 DEF Replaying
<1>10. Replaying' \cup Elements(rest) = Replaying \cup Elements(client.queue)
  BY <1>7, <1>9
<1>11. NoneLost'
  BY <1>2, <1>3, <1>6, <1>10 DEF NoneLost
<1>12. InOrder'
  BY <1>2, <1>3, <1>6, <1>8, <1>9, <1>10 DEF InOrder
<1>13. NoHoleButShed'
  <2> SUFFICES ASSUME NEW k \in Row, NEW l \in seen \cup {m}, k < l
               PROVE  k \in seen \cup {m} \cup shed
    BY <1>3, <1>5 DEF NoHoleButShed
  <2>1. CASE l \in seen
    BY <2>1 DEF FeedInv, NoHoleButShed
  <2>2. CASE l = m
    BY <1>1, <1>8, <2>2 DEF Replaying
  <2>3. QED
    BY <2>1, <2>2
<1>14. QED
  BY <1>5, <1>6, <1>11, <1>12, <1>13 DEF FeedInv

(* A fan-out queues the row, or sheds it when the queue is full.           *)
LEMMA FanOutKeepsFeed ==
  ASSUME TypeOK, FeedInv, FanOut
  PROVE  FeedInv'
<1> DEFINE m == Head(loop)
           rest == Tail(loop)
           full == Len(client.queue) = QueueSize
<1>1. /\ client \in Client /\ client.queue \in Seq(Row)
      /\ loop \in Seq(Row) /\ loop # <<>>
  BY FeedTypes DEF FanOut
<1>2. seen' = seen /\ loop' = rest /\ Row' = Row
  BY DEF FanOut, storeVars, Row
<1>3. /\ client' = IF Subscribed /\ ~full THEN Requeued(client, Append(client.queue, m))
                   ELSE client
      /\ shed' = IF Subscribed /\ full THEN shed \cup {m} ELSE shed
  BY DEF FanOut, Requeued
<1>4. m \in Row /\ rest \in Seq(Row) /\ Elements(loop) = {m} \cup Elements(rest)
  BY <1>1, HeadTailProperties, TailBefore
<1> DEFINE known == Replaying \cup Elements(client.queue)
<1>5. CASE ~Subscribed
  <2>1. client' = client /\ shed' = shed
    BY <1>3, <1>5
  <2>2. ~Subscribed'
    BY <1>5, <2>1 DEF Subscribed
  <2>3. QED
    BY <1>2, <2>1, <2>2, FeedGone
<1>6. CASE Subscribed
  <2>1. NoneLost /\ InOrder
    BY <1>6 DEF FeedInv
  <2>2. /\ \A n \in Row : n < m => n \in known
        /\ Ordered(Row, rest, known \cup {m})
    <3>1. Ordered(Row, loop, known)
      BY <2>1 DEF InOrder
    <3> HIDE DEF known
    <3>2. QED
      BY <1>1, <3>1, OrderedTail
  <2>3. CASE full
    <3>1. client' = client /\ shed' = shed \cup {m}
      BY <1>3, <1>6, <2>3
    <3>2. Replaying' = Replaying \cup {m} /\ known' = known \cup {m}
      BY <1>2, <3>1 DEF Replaying
    <3>3. NoneLost'
      BY <1>2, <1>4, <2>1, <3>1, <3>2 DEF NoneLost
    <3>4. Ordered(Row, client.queue, Replaying')
      BY <2>1, <3>2, OrderedMore DEF InOrder
    <3>5. Ordered(Row, loop', known')
      BY <1>2, <2>2, <3>2
    <3>6. InOrder'
      BY <1>2, <2>1, <3>1, <3>2, <3>4, <3>5 DEF InOrder
    <3>7. NoHoleButShed'
      BY <1>2, <3>1 DEF FeedInv, NoHoleButShed
    <3>8. QED
      BY <1>2, <3>1, <3>3, <3>6, <3>7 DEF FeedInv
  <2>4. CASE ~full
    <3>1. client' = Requeued(client, Append(client.queue, m)) /\ shed' = shed
      BY <1>3, <1>6, <2>4
    <3>2. Append(client.queue, m) \in Seq(Row)
      BY <1>1, <1>4, AppendProperties
    <3>3. /\ client'.pc = client.pc /\ client'.cursor = client.cursor
          /\ client'.frames = client.frames /\ client'.queue = Append(client.queue, m)
      <4> DEFINE q == Append(client.queue, m)
      <4>1. q \in Seq(Row) /\ client' = Requeued(client, q)
        BY <3>1, <3>2
      <4> HIDE DEF q
      <4>2. /\ client'.pc = client.pc /\ client'.cursor = client.cursor
            /\ client'.frames = client.frames /\ client'.queue = q
        BY <1>1, <4>1, Queues
      <4>3. QED
        BY <4>2 DEF q
    <3>4. Replaying' = Replaying
      BY <1>2, <3>1, <3>3 DEF Replaying
    <3>5. Elements(client'.queue) = Elements(client.queue) \cup {m}
      BY <1>1, <1>4, <3>3, AppendBefore
    <3>6. known' = known \cup {m}
      <4>1. known' = Replaying' \cup Elements(client'.queue)
        OBVIOUS
      <4>2. QED
        BY <3>4, <3>5, <4>1
    <3>7. NoneLost'
      BY <1>2, <1>4, <2>1, <3>3, <3>4, <3>5 DEF NoneLost
    <3>8. Ordered(Row, Append(client.queue, m), Replaying)
      <4>1. Ordered(Row, client.queue, Replaying)
        BY <2>1 DEF InOrder
      <4>2. QED
        BY <1>1, <1>4, <2>2, <4>1, OrderedAppend
    <3>9. InOrder'
      BY <1>2, <2>1, <2>2, <3>3, <3>4, <3>6, <3>8 DEF InOrder
    <3>10. NoHoleButShed'
      BY <1>2, <3>1 DEF FeedInv, NoHoleButShed
    <3>11. QED
      BY <1>2, <3>3, <3>7, <3>9, <3>10 DEF FeedInv
  <2>5. QED
    BY <2>3, <2>4
<1>7. QED
  BY <1>5, <1>6

(* Every step keeps what is said of the feed.                              *)
LEMMA FeedStep ==
  ASSUME TypeOK, FeedInv, [Next]_vars
  PROVE  FeedInv'
<1>1. CASE UNCHANGED vars
  BY <1>1, FeedIdle DEF vars, storeVars, Row
<1>2. CASE Next
  <2>1. CASE \E kind \in setup.kinds, key \in Key \cup {NoKey} : Post(kind, key)
    <3>1. PICK kind \in setup.kinds, key \in Key \cup {NoKey} : Post(kind, key)
      BY <2>1
    <3>2. kind \in Kind
      BY ChatAssumption DEF TypeOK
    <3>3. QED
      BY <3>1, <3>2, PostKeepsFeed
  <2>2. CASE \E key \in Key : Collapse(key)
    BY <2>2, CollapseKeepsFeed
  <2>3. CASE (\E S \in Ackable : Ack(S)) \/ WorkerStep \/ (\E n \in 1..MaxRows : Elapse(n))
    <3>1. UNCHANGED feedVars /\ Row' = Row
      <4>1. CASE \E S \in Ackable : Ack(S)
        <5>1. rows \in [Row -> Note]
          BY Rows
        <5>2. QED
          BY <4>1, <5>1 DEF Ack, Acked, Row
      <4>2. CASE WorkerStep \/ (\E n \in 1..MaxRows : Elapse(n))
        BY <4>2 DEF WorkerStep, Rearm, Claim, Mark, Push, Elapse, storeVars, Row
      <4>3. QED
        BY <2>3, <4>1, <4>2
    <3>2. QED
      BY <3>1, FeedIdle
  <2>4. CASE Restart \/ Disconnect
    <3>1. client \in Client
      BY FeedTypes
    <3>2. Row' = Row /\ UNCHANGED <<seen, shed>>
      BY <2>4 DEF Restart, Disconnect, storeVars, Row
    <3>3. (client' = client /\ client.pc = "out") \/ client' = Offline(client)
      BY <2>4 DEF Restart, Disconnect
    <3>4. /\ client'.cursor = client.cursor /\ client'.pc \in {"out", "off"}
          /\ client'.pc = "out" => client.pc = "out"
      BY <3>1, <3>3, GoesOff
    <3>5. QED
      BY <3>2, <3>4, FeedGone DEF Subscribed
  <2>5. CASE LoadPage \/ Connect \/ Replay \/ Live \/ FanOut
    BY <2>5, LoadKeepsFeed, ConnectKeepsFeed, ReplayKeepsFeed, LiveKeepsFeed, FanOutKeepsFeed
  <2>6. QED
    BY <1>2, <2>1, <2>2, <2>3, <2>4, <2>5 DEF Next
<1>3. QED
  BY <1>1, <1>2

-----------------------------------------------------------------------------
(* The theorems.                                                           *)

(* Nothing is posted, pushed or read yet.                                  *)
LEMMA ChatInit ==
  ASSUME Init
  PROVE  ChatInv
<1>1. /\ rows = <<>> /\ outbox = <<>> /\ late = <<>> /\ loop = <<>>
      /\ seen = {} /\ shed = {} /\ crashes = 0 /\ setup \in Setup
  BY DEF Init
<1>2. Row = {}
  BY <1>1 DEF Row
<1>3. /\ worker.pc = "rearm" /\ worker.batch = {}
      /\ client.pc = "out" /\ client.cursor = 0 /\ client.frames = {}
  BY DEF Init, Resting
<1>4. StoreTyped
  <2>1. late \in [Row -> Nat]
    BY <1>1, <1>2
  <2>2. QED
    BY <1>1, <2>1, EmptySeq, ChatAssumption DEF StoreTyped
<1>5. WorkerTyped
  BY DEF Init, Resting, WorkerTyped
<1>6. FeedTyped
  <2>1. client.queue = <<>> /\ <<>> \in Seq(Row) /\ Len(<<>>) = 0
    BY EmptySeq DEF Init
  <2>2. client \in Client
    BY <2>1 DEF Init, Client
  <2>3. QED
    BY <1>1, <2>1, <2>2, ChatAssumption DEF FeedTyped
<1>7. TypeOK
  BY <1>4, <1>5, <1>6, TypeParts
<1>8. BatchOwed /\ LateCounted
  BY <1>2, <1>3 DEF BatchOwed, LateCounted
<1>9. FeedInv
  BY <1>1, <1>3 DEF FeedInv, NoHoleButShed, Subscribed
<1>10. QED
  BY <1>7, <1>8, <1>9 DEF ChatInv, OutboxInv

(* What the worker has claimed stays owed, every push that came too late   *)
(* is accounted for, and every row on its way to a browser is in order.    *)
THEOREM ChatInvariant == Spec => []ChatInv
<1>1. Init => ChatInv
  BY ChatInit
<1>2. ChatInv /\ [Next]_vars => ChatInv'
  BY OutboxStep, FeedStep DEF ChatInv, OutboxInv
<1>3. QED
  BY <1>1, <1>2, PTL DEF Spec

(* Every variable of Chat keeps its type, and a subscriber's queue its     *)
(* bound.                                                                  *)
THEOREM ChatTyping == Spec => []TypeOK
<1>1. ChatInv => TypeOK
  BY DEF ChatInv, OutboxInv
<1>2. QED
  BY <1>1, ChatInvariant, PTL

(* An acked row is pushed at most MaxAttempts times more, and once more    *)
(* for each crash.                                                         *)
THEOREM AckedIsSilenced == Spec => []AckSilences
<1>1. ChatInv => AckSilences
  BY DEF ChatInv, OutboxInv, LateCounted, AckSilences
<1>2. QED
  BY <1>1, ChatInvariant, PTL

(* Whatever a browser has a later row than it has, unless a full queue or  *)
(* the limit of a replay left it out.                                      *)
THEOREM FeedHasNoHole == Spec => []NoHoleButShed
<1>1. ChatInv => NoHoleButShed
  BY DEF ChatInv, FeedInv
<1>2. QED
  BY <1>1, ChatInvariant, PTL
===============================================================================
