------------------------------ MODULE KillChain ------------------------------
(***************************************************************************)
(* The kill switch, from auth to those who obey it: auth's controller      *)
(* (platform/auth .../killswitch.py, breakglass.py, over redis_hot.py),    *)
(* the Board's polled mirror (board/service/sweeps.js, guardrails.js) and  *)
(* the worker runtime's drain machine (platform/agent-runtime drain.py,    *)
(* auth_client.py, supervisor.py).                                         *)
(*                                                                         *)
(* Calls of auth's arm() overlap, with no lock, and end between the ledger *)
(* and the store; commands to the runtime are lost, duplicated and         *)
(* reordered; polls fail or answer late; the runtime restarts.             *)
(***************************************************************************)
EXTENDS Naturals

CONSTANTS
  Caller,     \* requests auth's thread-per-request server serves at once
  MaxLevel,   \* the strictest level, 2 in the code: G0, G1, G2
  MaxEpoch,   \* bound: changes of the level
  Stale,      \* killStalenessMs
  Timeout     \* clientTimeoutMs, the longest a poll of the Board takes

ASSUME KillAssumption == {MaxLevel, MaxEpoch, Stale, Timeout} \subseteq Nat

VARIABLES
  hot,       \* auth: the level and its epoch, in Redis
  arm,       \* auth: calls of arm() that have appended what they will set
  ledger,    \* auth: what the durable ledger says was armed, at which epoch
  mirror,    \* Board: auth_state
  age,       \* Board: how long ago auth_state was marked synced
  poll,      \* Board: the fetch under way, as auth answered it
  rt,        \* runtime: epoch, posture and whether it is reconciled
  sent,      \* commands pushed to the runtime: to be lost, repeated, reordered
  log,       \* runtime: the durable maximum of kill_epoch_log
  rpoll,     \* runtime: the reconcile under way, as auth answered it
  told,      \* history: the highest epochs of a stop the runtime heard of
  settled,   \* history: how long ago hot last changed
  setBack    \* history: an overlapping call set an epoch again, or a lower one

authVars == <<hot, arm, ledger, setBack>>
boardVars == <<mirror, age, poll>>
runtimeVars == <<rt, log, rpoll, told, sent>>
vars == <<authVars, boardVars, runtimeVars, settled>>

Level == 0..MaxLevel             \* in the runtime RUN, DRAIN, KILL
Start == [epoch |-> 0, level |-> 0]
NoCall == Start
NoAnswer == [epoch |-> 0, level |-> 0, age |-> Timeout + 1]
NoPoll == [epoch |-> MaxEpoch + 1, level |-> 0]
Long == Stale + Timeout + 1

Silence == [now |-> 0, ever |-> 0, obeyed |-> 0]

Init ==
  /\ hot = Start /\ arm = [c \in Caller |-> NoCall]
  /\ ledger = {} /\ setBack = FALSE
  /\ mirror = Start /\ age = Stale + 1 /\ poll = NoAnswer
  /\ rt = [epoch |-> 0, level |-> 0, reconciled |-> FALSE]
  /\ log = 0 /\ rpoll = NoPoll /\ told = Silence /\ sent = {}
  /\ settled = Long

-----------------------------------------------------------------------------
(* auth.                                                                   *)

(* A call reads the epoch, with no lock, and appends the next one to the   *)
(* durable ledger, before the store is written.  What it reads first, to   *)
(* refuse an automated call that would lift and for its assertion on the   *)
(* epoch, only keeps calls from getting here: the operator asks for any    *)
(* level, break-glass and the guardrails for fewer.                        *)
ArmAppend(c, l) ==
  /\ arm[c] = NoCall /\ hot.epoch < MaxEpoch
  /\ arm' = [arm EXCEPT ![c] = [epoch |-> hot.epoch + 1, level |-> l]]
  /\ ledger' = ledger \cup {arm'[c]}
  /\ UNCHANGED <<hot, setBack, boardVars, runtimeVars, settled>>

(* The store takes whatever it is given, a lower epoch than its own too,   *)
(* and the caller is answered and pushes a stop on.                        *)
ArmSet(c) ==
  /\ arm[c] # NoCall
  /\ hot' = arm[c]
  /\ sent' = IF arm[c].level > 0 THEN sent \cup {hot'} ELSE sent
  /\ arm' = [arm EXCEPT ![c] = NoCall]
  /\ settled' = 0 /\ setBack' = (setBack \/ arm[c].epoch <= hot.epoch)
  /\ UNCHANGED <<ledger, boardVars, rt, log, rpoll, told>>

(* A crash, or a failed write, ends a call where it is: what the ledger    *)
(* recorded never comes into force, and no one is answered.                *)
ArmDies(c) ==
  /\ arm[c] # NoCall
  /\ arm' = [arm EXCEPT ![c] = NoCall]
  /\ UNCHANGED <<hot, ledger, setBack, boardVars, runtimeVars, settled>>

-----------------------------------------------------------------------------
(* The Board: killPollTick.  A fetch ends before the next one starts.      *)

PollAnswered ==
  /\ poll = NoAnswer
  /\ poll' = [epoch |-> hot.epoch, level |-> hot.level, age |-> 0]
  /\ UNCHANGED <<authVars, mirror, age, runtimeVars, settled>>

(* Mutants: only the next epoch is applied; a failed poll marks it synced. *)
Applies_Next(a) == a.epoch = mirror.epoch + 1
Applies(a) == a.epoch >= mirror.epoch
AgeAfterFailure_Reset == 0
AgeAfterFailure == age

(* applyKill ignores a lower epoch; markKillSynced follows in any case.    *)
PollApplied ==
  /\ poll.age <= Timeout
  /\ mirror' = IF Applies(poll) THEN [epoch |-> poll.epoch, level |-> poll.level] ELSE mirror
  /\ age' = 0 /\ poll' = NoAnswer
  /\ UNCHANGED <<authVars, runtimeVars, settled>>

PollFailed ==
  /\ poll' = NoAnswer /\ age' = AgeAfterFailure
  /\ UNCHANGED <<authVars, mirror, runtimeVars, settled>>

-----------------------------------------------------------------------------
(* The runtime.                                                            *)

Higher(m, n) == IF n > m THEN n ELSE m

(* A stop is heard: in this life of the runtime, and ever.                 *)
Heard(s, t) ==
  IF s.level = 0 THEN t
  ELSE [now |-> Higher(t.now, s.epoch), ever |-> Higher(t.ever, s.epoch), obeyed |-> t.obeyed]

(* Mutants: a late message of a lower epoch counts; a restart forgets.     *)
Outdated_Never(s) == s.epoch > MaxEpoch
Outdated(s) == s.epoch < rt.epoch

(* At the same epoch only a stricter posture counts, which makes the       *)
(* idempotency key that guards that case redundant: it is left out.        *)
News(s) == ~Outdated(s) /\ (s.epoch = rt.epoch => s.level > rt.level)

(* A drain or kill command arrives: not at all, again, or late.  Only one  *)
(* that is applied is logged.                                              *)
ApplyCommand(s) ==
  /\ IF News(s)
     THEN /\ rt' = [rt EXCEPT !.epoch = s.epoch, !.level = s.level]
          /\ log' = Higher(log, s.epoch)
          /\ told' = [Heard(s, told) EXCEPT !.obeyed = Higher(@, s.epoch)]
     ELSE told' = Heard(s, told) /\ UNCHANGED <<rt, log>>
  /\ UNCHANGED <<authVars, boardVars, rpoll, sent, settled>>

(* reconcile_kill_epoch: at boot; an outage makes another one due.         *)
ReconcileAnswered ==
  /\ ~rt.reconciled /\ rpoll = NoPoll
  /\ rpoll' = hot
  /\ UNCHANGED <<authVars, boardVars, rt, log, told, sent, settled>>

(* poll_level, exit_outage, mark_reconciled.  What is polled is not logged.*)
Reconciled ==
  /\ rpoll # NoPoll
  /\ rt' = [epoch |-> IF News(rpoll) THEN rpoll.epoch ELSE rt.epoch,
            level |-> IF News(rpoll) THEN rpoll.level ELSE rt.level, reconciled |-> TRUE]
  /\ rpoll' = NoPoll /\ told' = Heard(rpoll, told)
  /\ UNCHANGED <<authVars, boardVars, log, sent, settled>>

ReconcileFailed ==
  /\ rpoll # NoPoll /\ rpoll' = NoPoll
  /\ UNCHANGED <<authVars, boardVars, rt, log, told, sent, settled>>

(* on_mint_failure opens the breaker: enter_outage shuts the gate until    *)
(* the next reconcile, which also ends the outage.                         *)
EnterOutage ==
  /\ rt.reconciled /\ rt' = [rt EXCEPT !.reconciled = FALSE]
  /\ UNCHANGED <<authVars, boardVars, log, rpoll, told, sent, settled>>

(* seed_from_persisted: the epoch of the log, the posture RUN.             *)
Seeded == [epoch |-> log, level |-> 0, reconciled |-> FALSE]

Restart ==
  /\ rt' = Seeded /\ rpoll' = NoPoll /\ told' = [told EXCEPT !.now = 0]
  /\ UNCHANGED <<authVars, boardVars, log, sent, settled>>

(* pre_claim_gate.                                                         *)
Gate == rt.reconciled /\ rt.level = 0

-----------------------------------------------------------------------------
Older(n, bound) == IF n < bound THEN n + 1 ELSE n

Tick ==
  /\ age' = Older(age, Stale + 1)
  /\ poll' = [poll EXCEPT !.age = Older(@, Timeout + 1)]
  /\ settled' = Older(settled, Long)
  /\ UNCHANGED <<authVars, mirror, runtimeVars>>

Auth ==
  \E c \in Caller :
    \/ \E l \in Level : ArmAppend(c, l)
    \/ ArmSet(c) \/ ArmDies(c)

Board == PollAnswered \/ PollApplied \/ PollFailed

Runtime ==
  \/ \E s \in sent : ApplyCommand(s)
  \/ ReconcileAnswered \/ Reconciled \/ ReconcileFailed \/ EnterOutage \/ Restart

Next == Auth \/ Board \/ Runtime \/ Tick

Spec == Init /\ [][Next]_vars
(* Time passes.                                                            *)
FairSpec == Spec /\ WF_vars(Tick)

-----------------------------------------------------------------------------
(* killMirrorStale.                                                        *)
MirrorStale == age > Stale

(* A mirror that is fresh shows the level auth has had for longer than the *)
(* staleness bound and one poll, unless auth has gone back behind it: the  *)
(* answer that is ignored although the mirror is marked synced, because    *)
(* its epoch is lower, hides a stop only where overlapping calls of arm()  *)
(* made auth's own epoch fall, never because answers came late, failed or  *)
(* repeated an epoch.  (guardrails.js, "Monotonic: a lower epoch never     *)
(* wins"; killMirrorStale.)                                                *)
FreshMirrorIsCurrent ==
  ~MirrorStale /\ settled > Stale + Timeout =>
    mirror.level = hot.level \/ mirror.epoch > hot.epoch

(* The runtime claims only at an epoch above every stop it has heard since *)
(* it started, in any order, by command or poll, and not below one it      *)
(* obeyed a command for before it restarted; and above every stop of any   *)
(* life, as long as no overlapping call has set auth's epoch back or       *)
(* again.  drain.py, "A stale/replayed lower epoch can NEVER un-drain a    *)
(* higher one" and "a draining/quiesced/unreconciled runtime can NEVER win *)
(* a new claim".                                                           *)
NoClaimAfterStop ==
  Gate => /\ told.now < rt.epoch \/ told.now = 0
          /\ told.obeyed <= rt.epoch
          /\ setBack \/ told.ever < rt.epoch \/ told.ever = 0

(* A stop bites at the Board even if no poll ever succeeds again: it is    *)
(* mirrored, or the mirror goes stale and the destructive paths are closed *)
(* (sweeps.js, "unreachable -> mirror goes stale -> destructive paths fail *)
(* closed"), or overlapping calls have set auth back behind the mirror.    *)
StopReachesBoard ==
  hot.level > 0 ~>
    mirror.level > 0 \/ MirrorStale \/ hot.level = 0 \/ mirror.epoch > hot.epoch

(* The ledger commits first: whatever level anyone shows, was sent or      *)
(* obeys was recorded, at that epoch, before it came into force.           *)
(* (killswitch.py, "durable ledger append is the truth and commits         *)
(* FIRST".)                                                                *)
Word(r) == [epoch |-> r.epoch, level |-> r.level]
RecordedFirst ==
  /\ {hot, mirror, Word(poll)} \cup sent \cup ({rpoll} \ {NoPoll}) \subseteq ledger \cup {Start}
  /\ rt.level > 0 => Word(rt) \in ledger
=============================================================================
