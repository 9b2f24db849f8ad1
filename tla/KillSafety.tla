------------------------------ MODULE KillSafety ------------------------------
(***************************************************************************)
(* The kill chain, for any bounds and any number of calls of arm() at      *)
(* once: whatever is lost, late, repeated, restarted or set back, a fresh  *)
(* mirror hides no stop that auth itself has not gone back behind, the     *)
(* runtime claims nothing at or below the epoch of a stop it heard, and    *)
(* nobody acts on a word the ledger does not have.                         *)
(***************************************************************************)
EXTENDS KillChain, TLAPS

Words == [epoch : 0..MaxEpoch, level : Level]

KillTypeOK ==
  /\ hot \in Words /\ mirror \in Words /\ sent \subseteq Words /\ ledger \subseteq Words
  /\ arm \in [Caller -> Words] /\ setBack \in BOOLEAN
  /\ age \in 0..(Stale + 1) /\ settled \in 0..Long
  /\ poll \in [epoch : 0..MaxEpoch, level : Level, age : 0..(Timeout + 1)]
  /\ rt \in [epoch : 0..MaxEpoch, level : Level, reconciled : BOOLEAN]
  /\ log \in 0..MaxEpoch /\ rpoll \in Words \cup {NoPoll}
  /\ told \in [now : 0..MaxEpoch, ever : 0..MaxEpoch, obeyed : 0..MaxEpoch]

(* The ledger, and the calls that have appended to it.                     *)
LedgerInv == RecordedFirst /\ \A c \in Caller : arm[c] \in ledger \cup {Start}

(* What a poll found, and what the mirror took from it, is auth's level    *)
(* unless that has changed since the answer; a mirror that took nothing is *)
(* ahead of auth.                                                          *)
MirrorInv ==
  /\ poll.age <= Timeout /\ settled > poll.age => Word(poll) = hot
  /\ age <= Stale /\ settled > age + Timeout => mirror = hot \/ mirror.epoch > hot.epoch

(* A word at this epoch and level answers for a stop at epoch e: it is     *)
(* later, or a stop itself.                                                *)
Covers(w, e) == e = 0 \/ e < w.epoch \/ (e = w.epoch /\ w.level > 0)

(* As long as auth has never gone back, its level answers for every stop   *)
(* that is under way or was ever heard.                                    *)
ForwardInv ==
  ~setBack => /\ \A s \in sent : Covers(hot, s.epoch)
              /\ rpoll # NoPoll /\ rpoll.level > 0 => Covers(hot, rpoll.epoch)
              /\ Covers(hot, told.ever)

(* The runtime answers for the stops of this life and for what it obeyed;  *)
(* once reconciled, and with auth never set back, for those of any life.   *)
(* While it is being reconciled, it or the answer on its way does.         *)
RuntimeInv ==
  /\ Covers(rt, told.now) /\ told.obeyed <= log /\ log <= rt.epoch
  /\ rt.reconciled => rpoll = NoPoll
  /\ ~setBack /\ rt.reconciled => Covers(rt, told.ever)
  /\ ~setBack /\ rpoll # NoPoll => Covers(rt, told.ever) \/ Covers(rpoll, told.ever)

KillInv == KillTypeOK /\ LedgerInv /\ MirrorInv /\ ForwardInv /\ RuntimeInv
-----------------------------------------------------------------------------
(* Words.                                                                  *)

(* What a word is made of.                                                 *)
LEMMA WordsAre ==
  ASSUME NEW w \in Words
  PROVE  /\ w.epoch \in 0..MaxEpoch /\ w.level \in Level
         /\ w.epoch \in Nat /\ w.level \in Nat /\ w = Word(w)
BY KillAssumption DEF Words, Word, Level

(* The runtime only ever moves to a later word, or a stricter one.         *)
LEMMA CoversMore ==
  ASSUME NEW v, NEW w, NEW e \in Nat,
         v.epoch \in Nat, v.level \in Nat, w.epoch \in Nat, w.level \in Nat,
         Covers(v, e), w.epoch > v.epoch \/ (w.epoch = v.epoch /\ w.level >= v.level)
  PROVE  Covers(w, e)
BY DEF Covers

(* What is news, and what is not.                                          *)
LEMMA NewsIs ==
  ASSUME KillTypeOK, NEW s \in Words
  PROVE  /\ News(s) => s.epoch > rt.epoch \/ (s.epoch = rt.epoch /\ s.level > rt.level)
         /\ ~News(s) => s.epoch < rt.epoch \/ (s.epoch = rt.epoch /\ s.level <= rt.level)
<1>1. s.epoch \in Nat /\ s.level \in Nat
  BY WordsAre
<1>2. rt.epoch \in Nat /\ rt.level \in Nat
  BY KillAssumption DEF KillTypeOK, Level
<1>3. QED
  BY <1>1, <1>2 DEF News, Outdated

(* Hearing a stop raises the marks to it, hearing a lift raises none.      *)
LEMMA HeardIs ==
  ASSUME KillTypeOK, NEW s \in Words
  PROVE  /\ Heard(s, told) \in [now : 0..MaxEpoch, ever : 0..MaxEpoch, obeyed : 0..MaxEpoch]
         /\ Heard(s, told).obeyed = told.obeyed
         /\ Heard(s, told).now \in {told.now, s.epoch}
         /\ Heard(s, told).ever \in {told.ever, s.epoch}
         /\ s.level = 0 => Heard(s, told) = told
<1>1. s.epoch \in 0..MaxEpoch /\ s.level \in Nat
  BY WordsAre
<1>2. QED
  BY <1>1 DEF KillTypeOK, Heard, Higher

(* At the start G0 is all that was ever said.                              *)
LEMMA KillInit == Init => KillInv
<1> SUFFICES ASSUME Init PROVE KillInv
  OBVIOUS
<1>N. MaxLevel \in Nat /\ MaxEpoch \in Nat /\ Stale \in Nat /\ Timeout \in Nat
  BY KillAssumption
<1>1. Start \in Words
  BY <1>N DEF Start, Words, Level
<1>2. /\ hot = Start /\ mirror = Start /\ sent = {} /\ rpoll = NoPoll /\ ledger = {}
      /\ poll = NoAnswer /\ rt = [epoch |-> 0, level |-> 0, reconciled |-> FALSE] /\ log = 0
      /\ age = Stale + 1 /\ settled = Long /\ arm = [c \in Caller |-> Start]
      /\ told = Silence /\ setBack = FALSE
  BY DEF Init, NoCall
<1>3. KillTypeOK
  <2>1. NoAnswer \in [epoch : 0..MaxEpoch, level : Level, age : 0..(Timeout + 1)]
    BY <1>N DEF NoAnswer, Level
  <2>2. rt \in [epoch : 0..MaxEpoch, level : Level, reconciled : BOOLEAN]
    BY <1>N, <1>2 DEF Level
  <2>3. age \in 0..(Stale + 1) /\ settled \in 0..Long /\ log \in 0..MaxEpoch
    BY <1>N, <1>2 DEF Long
  <2>4. told \in [now : 0..MaxEpoch, ever : 0..MaxEpoch, obeyed : 0..MaxEpoch]
    BY <1>N, <1>2 DEF Silence
  <2>5. arm \in [Caller -> Words]
    BY <1>1, <1>2
  <2>6. QED
    BY <1>1, <1>2, <2>1, <2>2, <2>3, <2>4, <2>5 DEF KillTypeOK
<1>4. LedgerInv
  BY <1>2 DEF LedgerInv, RecordedFirst, Word, NoAnswer, Start
<1>5. MirrorInv
  BY <1>N, <1>2 DEF MirrorInv, NoAnswer
<1>6. ForwardInv /\ RuntimeInv
  BY <1>2 DEF ForwardInv, RuntimeInv, Covers, Silence
<1>7. QED
  BY <1>3, <1>4, <1>5, <1>6 DEF KillInv
-----------------------------------------------------------------------------
(* One step per action.                                                    *)

(* Types.                                                                  *)
LEMMA KillTypeStep ==
  ASSUME KillTypeOK, [Next]_vars
  PROVE  KillTypeOK'
<1> USE DEF authVars, boardVars, runtimeVars
<1>N. MaxLevel \in Nat /\ MaxEpoch \in Nat /\ Stale \in Nat /\ Timeout \in Nat
  BY KillAssumption
<1> DEFINE
  Polls == [epoch : 0..MaxEpoch, level : Level, age : 0..(Timeout + 1)]
  Postures == [epoch : 0..MaxEpoch, level : Level, reconciled : BOOLEAN]
  Marks == [now : 0..MaxEpoch, ever : 0..MaxEpoch, obeyed : 0..MaxEpoch]
<1>T. /\ hot \in Words /\ mirror \in Words /\ sent \subseteq Words /\ ledger \subseteq Words
      /\ arm \in [Caller -> Words] /\ poll \in Polls /\ rt \in Postures /\ told \in Marks
      /\ log \in 0..MaxEpoch /\ rpoll \in Words \cup {NoPoll} /\ setBack \in BOOLEAN
      /\ hot.epoch \in 0..MaxEpoch /\ hot.level \in Level /\ Start \in Words /\ 0 \in Level
  BY <1>N, WordsAre DEF KillTypeOK, Words, Start, Level
<1>1. ASSUME NEW c \in Caller, NEW l \in Level, ArmAppend(c, l) PROVE KillTypeOK'
  <2>1. [epoch |-> hot.epoch + 1, level |-> l] \in Words
    BY <1>1, <1>N, <1>T DEF ArmAppend, Words
  <2>2. arm' \in [Caller -> Words] /\ ledger' \subseteq Words
    BY <1>1, <1>T, <2>1 DEF ArmAppend
  <2>3. QED
    BY <1>1, <2>2 DEF ArmAppend, KillTypeOK
<1>2. ASSUME NEW c \in Caller, ArmSet(c) PROVE KillTypeOK'
  <2>1. hot' \in Words
    BY <1>2, <1>T DEF ArmSet
  <2>2. arm' \in [Caller -> Words] /\ sent' \subseteq Words
    BY <1>2, <1>T, <2>1 DEF ArmSet, NoCall
  <2>3. settled' \in 0..Long
    BY <1>2, <1>N DEF ArmSet, Long
  <2>4. setBack' \in BOOLEAN
    BY <1>2, <1>T DEF ArmSet
  <2>5. QED
    BY <1>2, <2>1, <2>2, <2>3, <2>4 DEF ArmSet, KillTypeOK
<1>3. ASSUME NEW c \in Caller, ArmDies(c) PROVE KillTypeOK'
  <2>1. arm' \in [Caller -> Words]
    BY <1>3, <1>T DEF ArmDies, NoCall
  <2>2. QED
    BY <1>3, <2>1 DEF ArmDies, KillTypeOK
<1>4. CASE Board
  <2>1. /\ NoAnswer \in Polls /\ [epoch |-> hot.epoch, level |-> hot.level, age |-> 0] \in Polls
        /\ 0 \in 0..(Stale + 1) /\ [epoch |-> poll.epoch, level |-> poll.level] \in Words
    BY <1>N, <1>T DEF NoAnswer, Level, Words
  <2>2. CASE PollAnswered
    BY <2>1, <2>2 DEF PollAnswered, KillTypeOK
  <2>3. CASE PollApplied
    <3>1. mirror' \in Words /\ age' \in 0..(Stale + 1) /\ poll' = NoAnswer
      BY <1>T, <2>1, <2>3 DEF PollApplied
    <3>2. UNCHANGED <<hot, arm, ledger, setBack, told, sent, settled, rt, log, rpoll>>
      BY <2>3 DEF PollApplied
    <3>3. QED
      BY <2>1, <3>1, <3>2 DEF KillTypeOK
  <2>4. CASE PollFailed
    BY <2>1, <2>4 DEF PollFailed, AgeAfterFailure, KillTypeOK
  <2>5. QED
    BY <1>4, <2>2, <2>3, <2>4 DEF Board
<1>5. CASE Runtime
  <2>1. ASSUME NEW s \in sent, ApplyCommand(s) PROVE KillTypeOK'
    <3>1. s \in Words /\ s.epoch \in 0..MaxEpoch /\ s.level \in Level
      BY <1>T, WordsAre
    <3>2. Heard(s, told) \in Marks
      BY <3>1, HeardIs
    <3>3. told' \in Marks
      BY <2>1, <3>1, <3>2 DEF ApplyCommand, Higher
    <3>4. rt' \in Postures /\ log' \in 0..MaxEpoch
      BY <1>T, <2>1, <3>1 DEF ApplyCommand, Higher
    <3>5. QED
      BY <2>1, <3>3, <3>4 DEF ApplyCommand, KillTypeOK
  <2>2. CASE Reconciled
    <3>1. rpoll \in Words /\ rpoll.epoch \in 0..MaxEpoch /\ rpoll.level \in Level
      BY <1>T, <2>2, WordsAre DEF Reconciled
    <3>2. rt' \in Postures
      BY <1>T, <2>2, <3>1 DEF Reconciled
    <3>3. told' \in Marks
      BY <2>2, <3>1, HeardIs DEF Reconciled
    <3>4. QED
      BY <2>2, <3>2, <3>3 DEF Reconciled, KillTypeOK
  <2>3. CASE ReconcileAnswered \/ ReconcileFailed
    BY <1>T, <2>3 DEF ReconcileAnswered, ReconcileFailed, KillTypeOK
  <2>4. CASE EnterOutage
    <3>1. rt' \in Postures
      BY <1>T, <2>4 DEF EnterOutage
    <3>2. QED
      BY <2>4, <3>1 DEF EnterOutage, KillTypeOK
  <2>5. CASE Restart
    <3>1. rt' \in Postures /\ told' \in Marks
      BY <1>N, <1>T, <2>5 DEF Restart, Seeded
    <3>2. QED
      BY <2>5, <3>1 DEF Restart, KillTypeOK
  <2>6. QED
    BY <1>5, <2>1, <2>2, <2>3, <2>4, <2>5 DEF Runtime
<1>6. CASE Tick
  <2>1. /\ age \in 0..(Stale + 1) /\ settled \in 0..Long
        /\ poll.age \in 0..(Timeout + 1) /\ Long \in Nat
    BY <1>N DEF KillTypeOK, Long
  <2>2. /\ age' \in 0..(Stale + 1) /\ settled' \in 0..Long
        /\ Older(poll.age, Timeout + 1) \in 0..(Timeout + 1)
    BY <1>6, <1>N, <2>1 DEF Tick, Older
  <2>3. poll' \in Polls
    BY <1>6, <1>T, <2>2 DEF Tick
  <2>4. QED
    BY <1>6, <2>2, <2>3 DEF Tick, KillTypeOK
<1>7. CASE UNCHANGED vars
  BY <1>7 DEF vars, KillTypeOK
<1>8. QED
  BY <1>1, <1>2, <1>3, <1>4, <1>5, <1>6, <1>7 DEF Next, Auth

(* A word is passed on, never made up.                                     *)
LEMMA LedgerStep ==
  ASSUME KillTypeOK, LedgerInv, [Next]_vars
  PROVE  LedgerInv'
<1> USE DEF authVars, boardVars, runtimeVars
<1> DEFINE Known == ledger \cup {Start}
<1>T. /\ arm \in [Caller -> Words] /\ hot \in Words /\ sent \subseteq Words
      /\ rpoll \in Words \cup {NoPoll} /\ hot = Word(hot)
      /\ rt \in [epoch : 0..MaxEpoch, level : Level, reconciled : BOOLEAN]
  BY WordsAre DEF KillTypeOK
<1>L. /\ hot \in Known /\ mirror \in Known /\ Word(poll) \in Known /\ sent \subseteq Known
      /\ rpoll # NoPoll => rpoll \in Known
      /\ rt.level > 0 => Word(rt) \in ledger
      /\ \A c \in Caller : arm[c] \in Known
  BY DEF LedgerInv, RecordedFirst
<1>K. ASSUME ledger \subseteq ledger', hot' \in Known, mirror' \in Known, Word(poll)' \in Known,
             sent' \subseteq Known, rpoll' # NoPoll => rpoll' \in Known,
             rt'.level > 0 => Word(rt)' \in ledger,
             \A c \in Caller : arm'[c] \in Known \cup (ledger' \ ledger)
      PROVE  LedgerInv'
  BY <1>K DEF LedgerInv, RecordedFirst
<1>S. Word(NoAnswer) = Start
  BY DEF Word, NoAnswer, Start
<1>1. ASSUME NEW c \in Caller, NEW l \in Level, ArmAppend(c, l) PROVE LedgerInv'
  <2>1. arm'[c] \in ledger' /\ \A d \in Caller \ {c} : arm'[d] = arm[d]
    BY <1>1, <1>T DEF ArmAppend
  <2>2. \A d \in Caller : arm'[d] \in Known \cup (ledger' \ ledger)
    BY <1>L, <2>1
  <2>3. /\ ledger \subseteq ledger' /\ Word(poll)' = Word(poll) /\ Word(rt)' = Word(rt)
        /\ UNCHANGED <<hot, mirror, sent, rpoll, rt>>
    BY <1>1 DEF ArmAppend, Word
  <2>4. QED
    BY <1>K, <1>L, <2>2, <2>3
<1>2. ASSUME NEW c \in Caller, ArmSet(c) \/ ArmDies(c) PROVE LedgerInv'
  <2>1. \A d \in Caller : arm'[d] \in Known
    BY <1>2, <1>T, <1>L DEF ArmSet, ArmDies, NoCall
  <2>2. hot' \in Known /\ sent' \subseteq Known
    BY <1>2, <1>L DEF ArmSet, ArmDies
  <2>3. /\ ledger' = ledger /\ Word(poll)' = Word(poll) /\ Word(rt)' = Word(rt)
        /\ UNCHANGED <<mirror, rpoll, rt>>
    BY <1>2 DEF ArmSet, ArmDies, Word
  <2>4. QED
    BY <1>K, <1>L, <2>1, <2>2, <2>3
<1>3. CASE Board
  <2>1. /\ UNCHANGED <<hot, arm, ledger, sent, rpoll, rt>> /\ Word(rt)' = Word(rt)
        /\ mirror' \in {mirror, Word(poll)} /\ Word(poll)' \in {hot, Start}
    <3>1. CASE PollAnswered
      BY <1>T, <3>1 DEF PollAnswered, Word
    <3>2. CASE PollApplied
      BY <1>S, <3>2 DEF PollApplied, Word
    <3>3. CASE PollFailed
      BY <1>S, <3>3 DEF PollFailed, Word
    <3>4. QED
      BY <1>3, <3>1, <3>2, <3>3 DEF Board
  <2>2. QED
    BY <1>K, <1>L, <2>1
<1>4. CASE Runtime
  <2>1. UNCHANGED <<hot, arm, ledger, mirror, poll, sent>> /\ Word(poll)' = Word(poll)
    BY <1>4 DEF Runtime, ApplyCommand, ReconcileAnswered, Reconciled, ReconcileFailed,
                EnterOutage, Restart, Word
  <2>2. rpoll' \in {rpoll, hot, NoPoll}
    BY <1>4 DEF Runtime, ApplyCommand, ReconcileAnswered, Reconciled, ReconcileFailed,
                EnterOutage, Restart
  <2>3. rt'.level > 0 => Word(rt)' \in ledger
    <3>1. ASSUME NEW s \in Known, s \in Words, rt'.epoch = s.epoch, rt'.level = s.level,
                 rt'.level > 0
          PROVE  Word(rt)' \in ledger
      <4>1. Word(rt)' = s /\ s # Start
        BY <3>1, WordsAre DEF Word, Start
      <4>2. QED
        BY <3>1, <4>1
    <3>2. ASSUME rt'.epoch = rt.epoch, rt'.level = rt.level, rt'.level > 0
          PROVE  Word(rt)' \in ledger
      BY <1>L, <3>2 DEF Word
    <3>3. ASSUME NEW s \in sent, ApplyCommand(s), rt'.level > 0 PROVE Word(rt)' \in ledger
      <4>1. \/ rt'.epoch = s.epoch /\ rt'.level = s.level
            \/ rt' = rt
        BY <1>T, <3>3 DEF ApplyCommand
      <4>2. s \in Known /\ s \in Words
        BY <1>L, <1>T
      <4>3. QED
        BY <3>1, <3>2, <3>3, <4>1, <4>2
    <3>4. ASSUME Reconciled, rt'.level > 0 PROVE Word(rt)' \in ledger
      <4>1. \/ rt'.epoch = rpoll.epoch /\ rt'.level = rpoll.level
            \/ rt'.epoch = rt.epoch /\ rt'.level = rt.level
        BY <3>4 DEF Reconciled
      <4>2. rpoll \in Known /\ rpoll \in Words
        BY <1>L, <1>T, <3>4 DEF Reconciled
      <4>3. QED
        BY <3>1, <3>2, <3>4, <4>1, <4>2
    <3>5. ASSUME ReconcileAnswered \/ ReconcileFailed \/ EnterOutage, rt'.level > 0
          PROVE  Word(rt)' \in ledger
      BY <1>T, <3>2, <3>5 DEF ReconcileAnswered, ReconcileFailed, EnterOutage
    <3>6. ASSUME Restart PROVE rt'.level = 0
      BY <3>6 DEF Restart, Seeded
    <3>7. QED
      BY <1>4, <3>3, <3>4, <3>5, <3>6 DEF Runtime
  <2>4. QED
    BY <1>K, <1>L, <2>1, <2>2, <2>3
<1>5. CASE Tick
  <2>1. /\ UNCHANGED <<hot, arm, ledger, mirror, sent, rpoll, rt>> /\ Word(rt)' = Word(rt)
        /\ Word(poll)' = Word(poll)
    BY <1>5 DEF Tick, Word, KillTypeOK
  <2>2. QED
    BY <1>K, <1>L, <2>1
<1>6. CASE UNCHANGED vars
  BY <1>6 DEF vars, LedgerInv, RecordedFirst, Word
<1>7. QED
  BY <1>1, <1>2, <1>3, <1>4, <1>5, <1>6 DEF Next, Auth

(* What is known of auth's level ages with the clock, and any change of    *)
(* the level starts the wait again.                                        *)
LEMMA MirrorStep ==
  ASSUME KillTypeOK, MirrorInv, [Next]_vars
  PROVE  MirrorInv'
<1> USE DEF authVars, boardVars, runtimeVars
<1>N. Stale \in Nat /\ Timeout \in Nat
  BY KillAssumption
<1>T. /\ age \in 0..(Stale + 1) /\ settled \in 0..Long /\ Long = Stale + Timeout + 1
      /\ poll \in [epoch : 0..MaxEpoch, level : Level, age : 0..(Timeout + 1)]
      /\ poll.age \in 0..(Timeout + 1) /\ hot = Word(hot)
      /\ mirror.epoch \in Nat /\ hot.epoch \in Nat
  BY WordsAre DEF KillTypeOK, Long
<1>K. UNCHANGED <<hot, mirror, age, poll, settled>> => MirrorInv'
  BY DEF MirrorInv, Word
<1>1. CASE Auth
  <2>1. \/ UNCHANGED <<hot, mirror, age, poll, settled>>
        \/ settled' = 0 /\ UNCHANGED <<age, poll>>
    BY <1>1 DEF Auth, ArmAppend, ArmSet, ArmDies
  <2>2. settled' = 0 /\ UNCHANGED <<age, poll>> => MirrorInv'
    BY <1>N, <1>T DEF MirrorInv
  <2>3. QED
    BY <1>K, <2>1, <2>2
<1>2. CASE PollAnswered
  <2>1. Word(poll)' = hot /\ UNCHANGED <<hot, mirror, age, settled>>
    BY <1>T, <1>2 DEF PollAnswered, Word
  <2>2. QED
    BY <2>1 DEF MirrorInv
<1>3. CASE PollApplied
  <2>1. /\ UNCHANGED <<hot, settled>> /\ age' = 0 /\ poll' = NoAnswer /\ poll.age <= Timeout
        /\ mirror' = IF poll.epoch >= mirror.epoch THEN Word(poll) ELSE mirror
    BY <1>3 DEF PollApplied, Applies, Word
  <2>2. settled > Timeout => mirror' = hot \/ mirror'.epoch > hot.epoch
    <3>1. ASSUME settled > Timeout PROVE Word(poll) = hot
      BY <1>N, <1>T, <2>1, <3>1 DEF MirrorInv
    <3>2. settled > Timeout => poll.epoch = hot.epoch
      BY <3>1 DEF Word
    <3>3. QED
      BY <1>T, <2>1, <3>1, <3>2
  <2>3. poll'.age = Timeout + 1
    BY <2>1 DEF NoAnswer
  <2>4. QED
    BY <1>N, <1>T, <2>1, <2>2, <2>3 DEF MirrorInv
<1>4. CASE PollFailed
  <2>1. UNCHANGED <<hot, mirror, age, settled>> /\ poll'.age = Timeout + 1
    BY <1>4 DEF PollFailed, AgeAfterFailure, NoAnswer
  <2>2. QED
    BY <1>N, <2>1 DEF MirrorInv
<1>5. CASE Runtime
  BY <1>5, <1>K DEF Runtime, ApplyCommand, ReconcileAnswered, Reconciled, ReconcileFailed,
                    EnterOutage, Restart
<1>6. CASE Tick
  <2>1. /\ UNCHANGED <<hot, mirror>> /\ Word(poll)' = Word(poll)
        /\ poll'.age = Older(poll.age, Timeout + 1)
        /\ age' = Older(age, Stale + 1) /\ settled' = Older(settled, Long)
    BY <1>6, <1>T DEF Tick, Word
  <2>2. poll'.age <= Timeout /\ settled' > poll'.age => poll.age <= Timeout /\ settled > poll.age
    BY <1>N, <1>T, <2>1 DEF Older
  <2>3. age' <= Stale /\ settled' > age' + Timeout => age <= Stale /\ settled > age + Timeout
    BY <1>N, <1>T, <2>1 DEF Older
  <2>4. QED
    BY <2>1, <2>2, <2>3 DEF MirrorInv
<1>7. CASE UNCHANGED vars
  BY <1>7, <1>K DEF vars
<1>8. QED
  BY <1>1, <1>2, <1>3, <1>4, <1>5, <1>6, <1>7 DEF Next, Board

(* What is under way was auth's word, and auth has moved on to another or  *)
(* a stricter one: a stop that is heard is one auth answers for.           *)
LEMMA ForwardStep ==
  ASSUME KillTypeOK, ForwardInv, [Next]_vars
  PROVE  ForwardInv'
<1> USE DEF authVars, boardVars, runtimeVars
<1>T. /\ hot \in Words /\ sent \subseteq Words /\ rpoll \in Words \cup {NoPoll}
      /\ arm \in [Caller -> Words] /\ told.ever \in Nat /\ hot.epoch \in Nat /\ hot.level \in Nat
  BY WordsAre DEF KillTypeOK
<1>K. UNCHANGED <<hot, sent, rpoll, setBack>> /\ told'.ever = told.ever => ForwardInv'
  BY DEF ForwardInv
<1>1. ASSUME NEW c \in Caller, (\E l \in Level : ArmAppend(c, l)) \/ ArmDies(c) PROVE ForwardInv'
  BY <1>1, <1>K DEF ArmAppend, ArmDies
<1>2. ASSUME NEW c \in Caller, ArmSet(c) PROVE ForwardInv'
  <2>1. /\ hot' = arm[c] /\ hot' \in Words /\ UNCHANGED <<rpoll, told>>
        /\ \A s \in sent' \ sent : s = hot' /\ s.level > 0
        /\ ~setBack' => ~setBack /\ ~(hot'.epoch <= hot.epoch)
    BY <1>2, <1>T DEF ArmSet
  <2>2. hot'.epoch \in Nat /\ hot'.level \in Nat
    BY <2>1, WordsAre
  <2>3. ASSUME ~setBack', NEW e \in Nat, Covers(hot, e) PROVE Covers(hot', e)
    BY <1>T, <2>1, <2>2, <2>3, CoversMore
  <2>4. ASSUME NEW s \in sent', ~setBack' PROVE Covers(hot', s.epoch)
    <3>1. CASE s \in sent
      <4>1. Covers(hot, s.epoch) /\ s.epoch \in Nat
        BY <1>T, <2>1, <2>4, <3>1, WordsAre DEF ForwardInv
      <4>2. QED
        BY <2>3, <2>4, <4>1
    <3>2. CASE s \notin sent
      BY <2>1, <2>4, <3>2 DEF Covers
    <3>3. QED
      BY <3>1, <3>2
  <2>5. ASSUME ~setBack', rpoll # NoPoll, rpoll.level > 0 PROVE Covers(hot', rpoll.epoch)
    <3>1. Covers(hot, rpoll.epoch) /\ rpoll.epoch \in Nat
      BY <1>T, <2>1, <2>5, WordsAre DEF ForwardInv
    <3>2. QED
      BY <2>3, <2>5, <3>1
  <2>6. ASSUME ~setBack' PROVE Covers(hot', told.ever)
    BY <1>T, <2>1, <2>3, <2>6 DEF ForwardInv
  <2>7. QED
    BY <2>1, <2>4, <2>5, <2>6 DEF ForwardInv
<1>3. CASE Board \/ Tick \/ UNCHANGED vars
  BY <1>3, <1>K DEF Board, PollAnswered, PollApplied, PollFailed, Tick, vars
<1>4. CASE Runtime
  <2>1. ASSUME NEW s \in sent, ApplyCommand(s) PROVE ForwardInv'
    <3>1. told'.ever \in {told.ever, s.epoch}
      BY <1>T, <2>1, HeardIs DEF ApplyCommand
    <3>2. UNCHANGED <<hot, sent, rpoll, setBack>>
      BY <2>1 DEF ApplyCommand
    <3>3. QED
      BY <3>1, <3>2 DEF ForwardInv
  <2>2. CASE Reconciled
    <3>1. rpoll \in Words /\ rpoll # NoPoll /\ rpoll' = NoPoll /\ UNCHANGED <<hot, sent, setBack>>
      BY <1>T, <2>2 DEF Reconciled
    <3>2. /\ told'.ever \in {told.ever, rpoll.epoch}
          /\ rpoll.level = 0 => told'.ever = told.ever
      BY <2>2, <3>1, HeardIs DEF Reconciled
    <3>3. rpoll.level = 0 \/ rpoll.level > 0
      BY <3>1, WordsAre
    <3>4. QED
      BY <3>1, <3>2, <3>3 DEF ForwardInv
  <2>3. CASE ReconcileAnswered
    <3>1. hot.level > 0 => Covers(hot, hot.epoch)
      BY DEF Covers
    <3>2. rpoll' = hot /\ UNCHANGED <<hot, sent, setBack, told>>
      BY <2>3 DEF ReconcileAnswered
    <3>3. QED
      BY <3>1, <3>2 DEF ForwardInv
  <2>4. CASE ReconcileFailed \/ EnterOutage \/ Restart
    <3>1. /\ rpoll' \in {rpoll, NoPoll} /\ told'.ever = told.ever
          /\ UNCHANGED <<hot, sent, setBack>>
      BY <2>4, <1>T DEF ReconcileFailed, EnterOutage, Restart, KillTypeOK
    <3>2. QED
      BY <3>1 DEF ForwardInv
  <2>5. QED
    BY <1>4, <2>1, <2>2, <2>3, <2>4 DEF Runtime
<1>5. QED
  BY <1>1, <1>2, <1>3, <1>4 DEF Next, Auth

(* The runtime goes where it is told unless it is further already, in      *)
(* whatever order it is told.                                              *)
LEMMA RuntimeStep ==
  ASSUME KillTypeOK, KillTypeOK', ForwardInv, RuntimeInv, [Next]_vars
  PROVE  RuntimeInv'
<1> USE DEF authVars, boardVars, runtimeVars
<1>T. /\ hot \in Words /\ sent \subseteq Words /\ rpoll \in Words \cup {NoPoll}
      /\ arm \in [Caller -> Words] /\ log \in Nat /\ setBack \in BOOLEAN
      /\ rt \in [epoch : 0..MaxEpoch, level : Level, reconciled : BOOLEAN]
      /\ rt.epoch \in Nat /\ rt.level \in Nat
      /\ told \in [now : 0..MaxEpoch, ever : 0..MaxEpoch, obeyed : 0..MaxEpoch]
      /\ told.now \in Nat /\ told.ever \in Nat /\ told.obeyed \in Nat
  BY KillAssumption DEF KillTypeOK, Level
<1>P. rt'.epoch \in Nat /\ rt'.level \in Nat /\ told'.ever \in Nat /\ told'.now \in Nat
  BY KillAssumption DEF KillTypeOK, Level
<1>K. UNCHANGED <<rt, log, told, rpoll>> /\ (setBack => setBack') => RuntimeInv'
  BY DEF RuntimeInv
<1>M. ASSUME NEW w, w.epoch \in Nat, w.level \in Nat, NEW e \in Nat, Covers(w, e),
             rt'.epoch > w.epoch \/ (rt'.epoch = w.epoch /\ rt'.level >= w.level)
      PROVE  Covers(rt', e)
  BY <1>M, <1>P, CoversMore
<1>1. CASE Auth \/ Board \/ Tick \/ UNCHANGED vars
  <2>1. ASSUME NEW c \in Caller, ArmSet(c) PROVE RuntimeInv'
    <3>1. UNCHANGED <<rt, log, told, rpoll>>
      BY <2>1 DEF ArmSet
    <3>2. setBack => setBack'
      BY <2>1, Zenon DEF ArmSet
    <3>3. QED
      BY <1>K, <3>1, <3>2
  <2>2. CASE Board \/ Tick \/ UNCHANGED vars
    BY <1>K, <2>2 DEF Board, PollAnswered, PollApplied, PollFailed, Tick, vars
  <2>3. ASSUME NEW c \in Caller, (\E l \in Level : ArmAppend(c, l)) \/ ArmDies(c)
        PROVE  RuntimeInv'
    BY <1>K, <2>3 DEF ArmAppend, ArmDies
  <2>4. QED
    BY <1>1, <2>1, <2>2, <2>3 DEF Auth
<1>2. CASE Runtime
  <2>1. ASSUME NEW s \in Words,
               \/ rt'.epoch = s.epoch /\ rt'.level = s.level /\ News(s)
               \/ rt'.epoch = rt.epoch /\ rt'.level = rt.level /\ ~News(s)
        PROVE  /\ rt'.epoch > s.epoch \/ (rt'.epoch = s.epoch /\ rt'.level >= s.level)
               /\ rt'.epoch > rt.epoch \/ (rt'.epoch = rt.epoch /\ rt'.level >= rt.level)
    <3>1. s.epoch \in Nat /\ s.level \in Nat
      BY WordsAre
    <3>2. QED
      BY <1>T, <2>1, <3>1, NewsIs
  <2>2. ASSUME NEW s \in sent, ApplyCommand(s) PROVE RuntimeInv'
    <3>1. s \in Words /\ s.epoch \in Nat /\ s.level \in Nat
      BY <1>T, WordsAre
    <3>2. /\ \/ rt'.epoch = s.epoch /\ rt'.level = s.level /\ News(s)
             \/ rt'.epoch = rt.epoch /\ rt'.level = rt.level /\ ~News(s)
          /\ rt'.reconciled = rt.reconciled /\ rpoll' = rpoll /\ setBack' = setBack
      BY <1>T, <2>2 DEF ApplyCommand
    <3>3. /\ told'.now \in {told.now, s.epoch} /\ told'.ever \in {told.ever, s.epoch}
          /\ s.level = 0 => told'.now = told.now /\ told'.ever = told.ever
      BY <2>2, <3>1, HeardIs, <1>T DEF ApplyCommand
    <3>4. /\ rt'.epoch > s.epoch \/ (rt'.epoch = s.epoch /\ rt'.level >= s.level)
          /\ rt'.epoch > rt.epoch \/ (rt'.epoch = rt.epoch /\ rt'.level >= rt.level)
      BY <2>1, <3>1, <3>2
    <3>5. s.level > 0 => Covers(rt', s.epoch)
      BY <1>P, <3>1, <3>4 DEF Covers
    <3>6. Covers(rt', told'.now)
      BY <1>M, <1>T, <3>1, <3>3, <3>4, <3>5 DEF RuntimeInv
    <3>7. told'.obeyed <= log' /\ log' <= rt'.epoch
      <4>1. CASE News(s)
        <5>1. log' = Higher(log, s.epoch) /\ told'.obeyed = Higher(told.obeyed, s.epoch)
              /\ rt'.epoch = s.epoch
          BY <1>T, <2>2, <3>1, <4>1, HeardIs DEF ApplyCommand
        <5>2. QED
          BY <1>T, <3>1, <3>4, <5>1 DEF Higher, RuntimeInv
      <4>2. CASE ~News(s)
        BY <2>2, <3>1, <4>2, HeardIs DEF ApplyCommand, RuntimeInv
      <4>3. QED
        BY <4>1, <4>2
    <3>8. ASSUME Covers(rt, told.ever) PROVE Covers(rt', told'.ever)
      BY <1>M, <1>T, <3>1, <3>3, <3>4, <3>5, <3>8
    <3>9. ASSUME rpoll # NoPoll, Covers(rpoll, told.ever)
          PROVE  Covers(rt', told'.ever) \/ Covers(rpoll, told'.ever)
      BY <3>1, <3>3, <3>5, <3>9
    <3>10. QED
      BY <3>2, <3>6, <3>7, <3>8, <3>9 DEF RuntimeInv
  <2>3. CASE Reconciled
    <3>1. /\ rpoll \in Words /\ rpoll # NoPoll /\ rpoll' = NoPoll
          /\ UNCHANGED <<log, setBack>>
      BY <1>T, <2>3 DEF Reconciled
    <3>2. rpoll.epoch \in Nat /\ rpoll.level \in Nat
      BY <3>1, WordsAre
    <3>3. /\ \/ rt'.epoch = rpoll.epoch /\ rt'.level = rpoll.level /\ News(rpoll)
             \/ rt'.epoch = rt.epoch /\ rt'.level = rt.level /\ ~News(rpoll)
          /\ told'.now \in {told.now, rpoll.epoch} /\ told'.ever \in {told.ever, rpoll.epoch}
          /\ told'.obeyed = told.obeyed
          /\ rpoll.level = 0 => told'.now = told.now /\ told'.ever = told.ever
      BY <2>3, <3>1, HeardIs DEF Reconciled
    <3>4. /\ rt'.epoch > rpoll.epoch \/ (rt'.epoch = rpoll.epoch /\ rt'.level >= rpoll.level)
          /\ rt'.epoch > rt.epoch \/ (rt'.epoch = rt.epoch /\ rt'.level >= rt.level)
      BY <2>1, <3>1, <3>3
    <3>5. rpoll.level > 0 => Covers(rt', rpoll.epoch)
      BY <1>P, <3>2, <3>4 DEF Covers
    <3>6. Covers(rt', told'.now)
      BY <1>M, <1>T, <3>2, <3>3, <3>4, <3>5 DEF RuntimeInv
    <3>7. told'.obeyed <= log' /\ log' <= rt'.epoch
      BY <1>T, <1>P, <3>1, <3>3, <3>4 DEF RuntimeInv
    <3>8. ~setBack => Covers(rt', told.ever)
      BY <1>M, <1>T, <3>1, <3>2, <3>4 DEF RuntimeInv
    <3>9. ~setBack => Covers(rt', told'.ever)
      BY <3>2, <3>3, <3>5, <3>8
    <3>10. QED
      BY <3>1, <3>6, <3>7, <3>9 DEF RuntimeInv
  <2>4. CASE ReconcileAnswered
    <3>1. rpoll' = hot /\ ~rt.reconciled /\ UNCHANGED <<rt, log, told, setBack>>
      BY <2>4 DEF ReconcileAnswered
    <3>2. QED
      BY <3>1 DEF RuntimeInv, ForwardInv
  <2>5. CASE ReconcileFailed
    <3>1. rpoll' = NoPoll /\ UNCHANGED <<rt, log, told, setBack>>
      BY <2>5 DEF ReconcileFailed
    <3>2. QED
      BY <3>1 DEF RuntimeInv
  <2>6. CASE EnterOutage
    <3>1. /\ rt'.epoch = rt.epoch /\ rt'.level = rt.level /\ ~rt'.reconciled /\ rpoll = NoPoll
          /\ UNCHANGED <<log, told, rpoll, setBack>>
      BY <1>T, <2>6 DEF EnterOutage, RuntimeInv
    <3>2. QED
      BY <3>1 DEF RuntimeInv, Covers
  <2>7. CASE Restart
    <3>1. /\ rt'.epoch = log /\ ~rt'.reconciled /\ rpoll' = NoPoll
          /\ told'.now = 0 /\ told'.obeyed = told.obeyed /\ log' = log
      BY <1>T, <2>7 DEF Restart, Seeded
    <3>2. QED
      BY <1>T, <3>1 DEF RuntimeInv, Covers
  <2>8. QED
    BY <1>2, <2>2, <2>3, <2>4, <2>5, <2>6, <2>7 DEF Runtime
<1>3. QED
  BY <1>1, <1>2 DEF Next

(* Types, the ledger, the mirror and the runtime: the invariant of the     *)
(* chain, whatever overlaps.                                               *)
THEOREM KillInvariant == Spec => []KillInv
<1>1. KillInv /\ [Next]_vars => KillInv'
  BY KillTypeStep, LedgerStep, MirrorStep, ForwardStep, RuntimeStep DEF KillInv
<1>2. QED
  BY <1>1, KillInit, PTL DEF Spec

(* A fresh mirror shows the level auth has had for longer than the         *)
(* staleness bound and one poll, unless auth went back behind it.          *)
THEOREM FreshMirrorHidesNoStop == Spec => []FreshMirrorIsCurrent
<1>1. KillInv => FreshMirrorIsCurrent
  <2> SUFFICES ASSUME KillInv, ~MirrorStale, settled > Stale + Timeout
               PROVE  mirror.level = hot.level \/ mirror.epoch > hot.epoch
    BY DEF FreshMirrorIsCurrent
  <2>1. age \in Nat /\ settled \in Nat /\ Stale \in Nat /\ Timeout \in Nat
    BY KillAssumption DEF KillInv, KillTypeOK, Long
  <2>2. age <= Stale /\ settled > age + Timeout
    BY <2>1 DEF MirrorStale
  <2>3. QED
    BY <2>2 DEF KillInv, MirrorInv
<1>2. QED
  BY <1>1, KillInvariant, PTL

(* The runtime claims only above every stop of its life, not below what it *)
(* ever obeyed, and above every stop it ever heard if auth never went back.*)
THEOREM NoClaimIsWonAfterStop == Spec => []NoClaimAfterStop
<1>1. KillInv => NoClaimAfterStop
  <2> SUFFICES ASSUME KillInv, Gate PROVE NoClaimAfterStop
    BY DEF NoClaimAfterStop
  <2>1. /\ rt.epoch \in Nat /\ log \in Nat /\ told.now \in Nat /\ told.ever \in Nat
        /\ told.obeyed \in Nat
    BY KillAssumption DEF KillInv, KillTypeOK
  <2>2. Covers(rt, told.now) /\ (setBack \/ Covers(rt, told.ever)) /\ told.obeyed <= rt.epoch
    BY <2>1 DEF KillInv, RuntimeInv, Gate
  <2>3. QED
    BY <2>1, <2>2 DEF Covers, NoClaimAfterStop, Gate
<1>2. QED
  BY <1>1, KillInvariant, PTL

(* Whatever level anyone shows, was sent or obeys is in the ledger.        *)
THEOREM NothingUnrecordedIsObeyed == Spec => []RecordedFirst
<1>1. KillInv => RecordedFirst
  BY DEF KillInv, LedgerInv
<1>2. QED
  BY <1>1, KillInvariant, PTL
=============================================================================
