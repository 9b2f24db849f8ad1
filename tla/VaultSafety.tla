----------------------------- MODULE VaultSafety -----------------------------
(***************************************************************************)
(* The Vault's releases, for any number of releases, redemptions and runs, *)
(* any cap and any clock: the pipeline implements one-shot releases, and a *)
(* quiesce keeps the engine from being asked.                              *)
(***************************************************************************)
EXTENDS VaultRedeem, FiniteSetTheorems, TLAPS

CallRow ==
  [pc : {"idle", "asked", "answered", "facts", "lock", "attempt", "engine"},
   rel : Release \cup {NoRelease}, op : Op \cup {NoOp},
   appr : 0..Runs, repeat : BOOLEAN, drift : BOOLEAN, at : 0..MaxTime]

(* The repeats of a release that have been counted and not yet answered.   *)
Counted(r) ==
  {c \in Call : call[c].repeat /\ call[c].rel = r
                /\ (call[c].drift \/ call[c].pc = "engine")}

Redeemed(r) == IF status[r] = "redeemed" THEN 1 ELSE 0

(* A call under way is one of a redemption; a repeat is one of what its    *)
(* own op_id has taken.                                                    *)
CallInv ==
  \A c \in Call :
    /\ call[c].pc = "idle" => call[c] = Idle
    /\ call[c].pc # "idle" => call[c].rel \in Release /\ call[c].op \in Op
    /\ call[c].repeat => IsRepeat(call[c].rel, call[c].op)

(* What has left is what was redeemed and the repeats that were counted,   *)
(* less those still under way: the cap bounds the count, and so what left. *)
CountInv ==
  \A r \in Release :
    /\ status[r] # "redeemed" => handed[r] = 0
    /\ IsFiniteSet(Counted(r))
    /\ handed[r] + Cardinality(Counted(r)) <= reReleases[r] + Redeemed(r)

(* A token that auth found active was so before G2 came into force, and    *)
(* the time of a live check is at most one introspection after that.       *)
QuiesceInv ==
  /\ level # "G2" => armedAt["G2"] = Never
  /\ \A c \in Call :
       /\ call[c].at <= now
       /\ call[c].pc = "answered" => call[c].at <= armedAt["G2"]
       /\ call[c].pc \in {"facts", "lock", "attempt"} =>
            call[c].at <= armedAt["G2"] + Timeout

VaultInv == TypeOK /\ CallInv /\ CountInv /\ QuiesceInv
-----------------------------------------------------------------------------
(* Counting.                                                               *)

(* A step that counts nothing and hands nothing out keeps the count.       *)
LEMMA CountKept ==
  ASSUME TypeOK, CountInv, UNCHANGED <<handed, reReleases>>,
         \A r \in Release : Counted(r)' \subseteq Counted(r),
         \A r \in Release : status[r] = "redeemed" <=> status'[r] = "redeemed"
  PROVE  CountInv'
<1> SUFFICES ASSUME NEW r \in Release
             PROVE  /\ status'[r] # "redeemed" => handed'[r] = 0
                    /\ IsFiniteSet(Counted(r)')
                    /\ handed'[r] + Cardinality(Counted(r)') <= reReleases'[r] + Redeemed(r)'
  BY DEF CountInv
<1>1. IsFiniteSet(Counted(r)) /\ Counted(r)' \in SUBSET Counted(r)
  BY DEF CountInv
<1>2. /\ IsFiniteSet(Counted(r)') /\ Cardinality(Counted(r)') <= Cardinality(Counted(r))
      /\ Cardinality(Counted(r)') \in Nat /\ Cardinality(Counted(r)) \in Nat
  BY <1>1, FS_Subset, FS_CardinalityType
<1>3. Redeemed(r)' = Redeemed(r)
  BY DEF Redeemed
<1>4. handed[r] + Cardinality(Counted(r)) <= reReleases[r] + Redeemed(r)
  BY DEF CountInv
<1>5. handed[r] \in Nat /\ reReleases[r] \in Nat /\ Redeemed(r) \in Nat
  BY VaultAssumption DEF TypeOK, Redeemed
<1>6. QED
  BY <1>2, <1>3, <1>4, <1>5 DEF CountInv

(* A repeat the engine has been asked for has been counted: it leaves      *)
(* within the cap.                                                         *)
LEMMA RepeatIsCounted ==
  ASSUME TypeOK, CallInv, CountInv, NEW c \in Call, call[c].pc = "engine", call[c].repeat
  PROVE  LET r == call[c].rel
         IN /\ r \in Release /\ IsRepeat(r, call[c].op)
            /\ c \in Counted(r) /\ handed[r] + 1 <= reReleases[r] + 1
            /\ handed[r] <= Cap
<1> DEFINE r == call[c].rel
<1>1. r \in Release /\ IsRepeat(r, call[c].op) /\ c \in Counted(r)
  BY DEF CallInv, Counted
<1>2. IsFiniteSet(Counted(r)) /\ handed[r] + Cardinality(Counted(r)) <= reReleases[r] + Redeemed(r)
  BY <1>1 DEF CountInv
<1>3. Cardinality(Counted(r)) \in Nat /\ Cardinality(Counted(r)) # 0
  BY <1>1, <1>2, FS_CardinalityType, FS_EmptySet
<1>4. Redeemed(r) = 1
  BY <1>1 DEF IsRepeat, Redeemed
<1>5. handed[r] \in Nat /\ reReleases[r] \in 0 .. Cap /\ Cap \in Nat
  BY <1>1, VaultAssumption DEF TypeOK
<1> HIDE DEF r
<1>6. handed[r] + 1 <= reReleases[r] + 1 /\ handed[r] <= Cap
  BY <1>2, <1>3, <1>4, <1>5
<1>7. QED
  BY <1>1, <1>6 DEF r

-----------------------------------------------------------------------------
(* At boot nothing is pending and nobody calls.                            *)
LEMMA VaultInit == Init => VaultInv
<1> SUFFICES ASSUME Init PROVE VaultInv
  OBVIOUS
<1>1. Never \in Nat /\ 0 \in 0 .. Cap /\ 0 \in 0 .. MaxTime /\ 0 \in 0 .. Runs
  BY VaultAssumption DEF Never
<1>2. TypeOK
  <2>1. Idle \in CallRow
    BY <1>1 DEF Idle, CallRow
  <2>2. armedAt \in [Level -> 0 .. Never]
    BY <1>1 DEF Init, Level, Never
  <2>3. 0 \in 0 .. Cap + 1
    BY VaultAssumption
  <2>4. call \in [Call -> CallRow]
    BY <2>1 DEF Init
  <2>5. QED
    BY <1>1, <2>2, <2>3, <2>4 DEF Init, TypeOK, Level, CallRow
<1>3. CallInv
  BY DEF Init, CallInv, Idle
<1>4. \A r \in Release : Counted(r) = {}
  BY DEF Init, Counted, Idle
<1>5. CountInv
  <2> SUFFICES ASSUME NEW r \in Release
               PROVE  /\ handed[r] = 0 /\ IsFiniteSet(Counted(r))
                      /\ handed[r] + Cardinality(Counted(r)) <= reReleases[r] + Redeemed(r)
    BY DEF CountInv
  <2>1. IsFiniteSet(Counted(r)) /\ Cardinality(Counted(r)) = 0
    BY <1>4, FS_EmptySet
  <2>2. handed[r] = 0 /\ reReleases[r] = 0 /\ Redeemed(r) = 0
    BY DEF Init, Redeemed
  <2>3. QED
    BY <2>1, <2>2
<1>6. QuiesceInv
  BY <1>1 DEF Init, QuiesceInv, Idle, Level
<1>7. QED
  BY <1>2, <1>3, <1>5, <1>6 DEF VaultInv
-----------------------------------------------------------------------------
(* One step per action, for each part.                                     *)

(* A redemption that is under way is of the release and the op_id it began *)
(* with, and a release once redeemed stays so, with who took it.           *)
LEMMA CallStep ==
  ASSUME TypeOK, CallInv, [Next]_vars
  PROVE  CallInv'
<1> USE DEF releaseVars, boardVars, killVars
<1>T. /\ status \in [Release -> {"none", "pending", "redeemed", "expired", "revoked"}]
      /\ taker \in [Release -> Op \cup {NoOp}]
      /\ call \in [Call -> CallRow]
  BY DEF TypeOK, CallRow
<1>I. Idle.pc = "idle" /\ Idle.repeat = FALSE
  BY DEF Idle
<1>K. ASSUME UNCHANGED <<call, taker>>,
             \A r \in Release : status[r] = "redeemed" => status'[r] = "redeemed"
      PROVE  CallInv'
  BY <1>I, <1>K DEF CallInv, IsRepeat
<1>C. ASSUME UNCHANGED <<status, taker>>, NEW c \in Call,
             \A d \in Call \ {c} : call'[d] = call[d],
             \/ call'[c] = Idle
             \/ /\ call'[c].pc # "idle"
                /\ call[c].pc # "idle" /\ call'[c].rel = call[c].rel
                /\ call'[c].op = call[c].op /\ call'[c].repeat = call[c].repeat
      PROVE  CallInv'
  BY <1>C, <1>I DEF CallInv, IsRepeat
<1>1. CASE World
  BY <1>1, <1>K DEF World, RunStarts, RunEnds, WindowPasses, Poll, Tick, Arm, TtlPasses
<1>2. CASE Releases
  <2>1. ASSUME NEW r \in Release, RequestRelease(r) PROVE CallInv'
    BY <2>1, <1>T, <1>K DEF RequestRelease
  <2>2. ASSUME NEW S \in SUBSET Pending, NEW why, Close(S, why),
               UNCHANGED call \/ call' = [c \in Call |-> Idle]
        PROVE  CallInv'
    BY <2>2, <1>T, <1>I, <1>K DEF Close, Pending, CallInv
  <2>3. \A r \in Pending : {r} \in SUBSET Pending
    OBVIOUS
  <2>4. QED
    BY <1>2, <2>1, <2>2, <2>3
       DEF Releases, RevokeById, BeginOverdue, RevokeByTicket, SweepExpired, ColdStart
<1>3. ASSUME NEW c \in Call, Pipeline(c) PROVE CallInv'
  <2>1. ASSUME NEW r \in Release, NEW o \in Op, NEW a, Begin(c, r, o, a) PROVE CallInv'
    <3> DEFINE k == [Idle EXCEPT !.rel = r, !.op = o, !.appr = a, !.repeat = IsRepeat(r, o)]
    <3>1. /\ call'[c].pc = "asked" /\ call'[c].rel = r /\ call'[c].op = o
          /\ call'[c].repeat = IsRepeat(r, o)
          /\ \A d \in Call \ {c} : call'[d] = call[d]
          /\ UNCHANGED <<status, taker>>
      BY <2>1, <1>T DEF Begin, Ask, Idle
    <3>2. QED
      BY <3>1 DEF CallInv, IsRepeat
  <2>2. Refuse(c) => CallInv'
    BY <1>T, <1>C DEF Refuse
  <2>3. ASSUME AuthAnswers(c) \/ LiveOk(c) \/ FactsRead(c) \/ LockRead(c) PROVE CallInv'
    <3>1. /\ call'[c].pc # "idle" /\ call[c].pc # "idle"
          /\ call'[c].rel = call[c].rel
          /\ call'[c].op = call[c].op /\ call'[c].repeat = call[c].repeat
          /\ \A d \in Call \ {c} : call'[d] = call[d]
          /\ UNCHANGED <<status, taker>>
      BY <2>3, <1>T DEF AuthAnswers, LiveOk, FactsRead, LockRead, StepTo, CallRow
    <3>2. QED
      BY <3>1, <1>C
  <2>4. ASSUME AttemptLogged(c) \/ AttemptRefused(c) PROVE CallInv'
    <3>1. /\ UNCHANGED <<status, taker>> /\ \A d \in Call \ {c} : call'[d] = call[d]
          /\ \/ call'[c] = Idle
             \/ /\ call'[c].pc # "idle" /\ call[c].pc # "idle"
                /\ call'[c].rel = call[c].rel
                /\ call'[c].op = call[c].op /\ call'[c].repeat = call[c].repeat
      <4>1. call[c] \in CallRow
        BY <1>T
      <4>2. CASE AttemptRefused(c)
        BY <1>T, <4>2 DEF AttemptRefused
      <4>3. CASE AttemptLogged(c) /\ CheckedRecently(call[c])
        BY <1>T, <4>1, <4>3 DEF AttemptLogged, CallRow
      <4>4. CASE AttemptLogged(c) /\ ~CheckedRecently(call[c])
        <5>1. call' = [call EXCEPT ![c] = [[call[c] EXCEPT !.drift = TRUE]
                                             EXCEPT !.pc = "asked", !.at = now]]
          BY <4>4 DEF AttemptLogged, Ask
        <5>2. /\ call'[c].pc = "asked" /\ call'[c].rel = call[c].rel
              /\ call'[c].op = call[c].op /\ call'[c].repeat = call[c].repeat
          BY <1>T, <4>1, <5>1 DEF CallRow
        <5>3. QED
          BY <1>T, <4>4, <5>1, <5>2 DEF AttemptLogged
      <4>5. QED
        BY <2>4, <4>2, <4>3, <4>4
    <3>2. QED
      BY <3>1, <1>C
  <2>5. ASSUME Respond(c) PROVE CallInv'
    <3>1. call[c].rel \in Release /\ call[c].op \in Op
      BY <2>5 DEF Respond, CallInv
    <3>2. \A r \in Release, o \in Op : IsRepeat(r, o) => IsRepeat(r, o)'
      BY <2>5, <1>T, <3>1 DEF Respond, CallInv, IsRepeat, SwapWins
    <3>3. \A d \in Call : call'[d] = IF d = c THEN Idle ELSE call[d]
      BY <2>5, <1>T DEF Respond
    <3>4. QED
      BY <3>2, <3>3, <1>I DEF CallInv
  <2>6. QED
    BY <1>3, <2>1, <2>2, <2>3, <2>4, <2>5 DEF Pipeline
<1>4. CASE UNCHANGED vars
  BY <1>4, <1>K DEF vars
<1>5. QED
  BY <1>1, <1>2, <1>3, <1>4 DEF Next
(* A repeat is counted before the engine is asked for it and leaves        *)
(* afterwards, so that what leaves is bounded by what is counted.          *)
LEMMA CountStep ==
  ASSUME TypeOK, CallInv, CountInv, [Next]_vars
  PROVE  CountInv'
<1> USE DEF releaseVars, boardVars, killVars
<1>T. /\ status \in [Release -> {"none", "pending", "redeemed", "expired", "revoked"}]
      /\ reReleases \in [Release -> 0 .. Cap] /\ handed \in [Release -> 0 .. Cap + 1]
      /\ call \in [Call -> CallRow] /\ Cap \in Nat
  BY VaultAssumption DEF TypeOK, CallRow
<1>I. Idle.pc = "idle" /\ Idle.repeat = FALSE
  BY DEF Idle
<1>K. ASSUME UNCHANGED <<call, handed, reReleases>> \/
             (UNCHANGED <<handed, reReleases>> /\ call' = [c \in Call |-> Idle]),
             \A r \in Release : status[r] = "redeemed" <=> status'[r] = "redeemed"
      PROVE  CountInv'
  <2>1. \A r \in Release : Counted(r)' \subseteq Counted(r)
    BY <1>K, <1>I DEF Counted
  <2>2. QED
    BY <1>K, <2>1, CountKept
<1>C. ASSUME UNCHANGED <<status, handed, reReleases>>, NEW c \in Call,
             \A d \in Call \ {c} : call'[d] = call[d],
             call'[c].repeat /\ (call'[c].drift \/ call'[c].pc = "engine") =>
               /\ call[c].repeat /\ (call[c].drift \/ call[c].pc = "engine")
               /\ call'[c].rel = call[c].rel
      PROVE  CountInv'
  <2>1. \A r \in Release : Counted(r)' \subseteq Counted(r)
    BY <1>C DEF Counted
  <2>2. QED
    BY <1>C, <2>1, CountKept
<1>1. CASE World
  BY <1>1, <1>K DEF World, RunStarts, RunEnds, WindowPasses, Poll, Tick, Arm, TtlPasses
<1>2. CASE Releases
  <2>1. ASSUME NEW r \in Release, RequestRelease(r) PROVE CountInv'
    BY <2>1, <1>T, <1>K DEF RequestRelease
  <2>2. ASSUME NEW S \in SUBSET Pending, NEW why \in {"expired", "revoked"}, Close(S, why),
               UNCHANGED call \/ call' = [c \in Call |-> Idle]
        PROVE  CountInv'
    BY <2>2, <1>T, <1>K DEF Close, Pending
  <2>3. \A r \in Pending : {r} \in SUBSET Pending
    OBVIOUS
  <2>4. QED
    BY <1>2, <2>1, <2>2, <2>3
       DEF Releases, RevokeById, BeginOverdue, RevokeByTicket, SweepExpired, ColdStart
<1>3. ASSUME NEW c \in Call, Pipeline(c) PROVE CountInv'
  <2>T. call[c] \in CallRow
    BY <1>T
  <2>1. ASSUME NEW r \in Release, NEW o \in Op, NEW a, Begin(c, r, o, a) PROVE CountInv'
    <3>1. /\ call'[c].pc = "asked" /\ call'[c].drift = FALSE
          /\ \A d \in Call \ {c} : call'[d] = call[d]
          /\ UNCHANGED <<status, handed, reReleases>>
      BY <2>1, <1>T DEF Begin, Ask, Idle
    <3>2. QED
      BY <3>1, <1>C
  <2>2. Refuse(c) => CountInv'
    BY <1>T, <1>I, <1>C DEF Refuse
  <2>3. ASSUME AuthAnswers(c) \/ LiveOk(c) \/ FactsRead(c) \/ LockRead(c) PROVE CountInv'
    <3>1. /\ call'[c].rel = call[c].rel /\ call'[c].repeat = call[c].repeat
          /\ call'[c].drift = call[c].drift
          /\ call'[c].pc = "engine" => call[c].drift
          /\ \A d \in Call \ {c} : call'[d] = call[d]
          /\ UNCHANGED <<status, handed, reReleases>>
      BY <2>3, <1>T, <2>T DEF AuthAnswers, LiveOk, FactsRead, LockRead, StepTo, CallRow
    <3>2. QED
      BY <3>1, <1>C
  <2>4. ASSUME AttemptLogged(c) \/ AttemptRefused(c) PROVE CountInv'
    <3>1. /\ call'[c].repeat => call[c].repeat /\ call'[c].rel = call[c].rel
          /\ \A d \in Call \ {c} : call'[d] = call[d]
          /\ UNCHANGED <<status, handed>>
      <4>1. CASE AttemptRefused(c)
        BY <1>T, <1>I, <4>1 DEF AttemptRefused
      <4>2. CASE AttemptLogged(c) /\ CheckedRecently(call[c])
        BY <1>T, <2>T, <4>2 DEF AttemptLogged, CallRow
      <4>3. CASE AttemptLogged(c) /\ ~CheckedRecently(call[c])
        <5>1. call' = [call EXCEPT ![c] = [[call[c] EXCEPT !.drift = TRUE]
                                             EXCEPT !.pc = "asked", !.at = now]]
          BY <4>3 DEF AttemptLogged, Ask
        <5>2. QED
          BY <1>T, <2>T, <4>3, <5>1 DEF AttemptLogged, CallRow
      <4>4. QED
        BY <2>4, <4>1, <4>2, <4>3
    <3>2. CASE call[c].repeat
      <4> DEFINE q == call[c].rel
      <4>1. q \in Release
        BY <2>4, <3>2 DEF AttemptLogged, AttemptRefused, CallInv
      <4>2. reReleases' = [reReleases EXCEPT ![q] = @ + 1]
        BY <2>4, <3>2 DEF AttemptLogged, AttemptRefused
      <4> SUFFICES ASSUME NEW r \in Release
                   PROVE  /\ status'[r] # "redeemed" => handed'[r] = 0
                          /\ IsFiniteSet(Counted(r)')
                          /\ handed'[r] + Cardinality(Counted(r)')
                               <= reReleases'[r] + Redeemed(r)'
        BY DEF CountInv
      <4>3. /\ status[r] # "redeemed" => handed[r] = 0
            /\ IsFiniteSet(Counted(r))
            /\ handed[r] + Cardinality(Counted(r)) <= reReleases[r] + Redeemed(r)
            /\ Redeemed(r)' = Redeemed(r) /\ Redeemed(r) \in Nat
        BY <3>1 DEF CountInv, Redeemed
      <4>4. Counted(r)' \subseteq IF r = q THEN Counted(r) \cup {c} ELSE Counted(r)
        BY <3>1 DEF Counted
      <4>5. /\ IsFiniteSet(Counted(r) \cup {c})
            /\ Cardinality(Counted(r) \cup {c}) <= Cardinality(Counted(r)) + 1
            /\ Cardinality(Counted(r)) \in Nat
        <5>1. Cardinality(Counted(r)) \in Nat
          BY <4>3, FS_CardinalityType
        <5>2. /\ IsFiniteSet(Counted(r) \cup {c})
              /\ Cardinality(Counted(r) \cup {c})
                   \in {Cardinality(Counted(r)), Cardinality(Counted(r)) + 1}
          BY <4>3, FS_AddElement
        <5>3. QED
          BY <5>1, <5>2
      <4>6. CASE r = q
        <5>1. Counted(r)' \in SUBSET (Counted(r) \cup {c})
          BY <4>4, <4>6
        <5>2. /\ IsFiniteSet(Counted(r)') /\ Cardinality(Counted(r)') \in Nat
              /\ Cardinality(Counted(r)') <= Cardinality(Counted(r) \cup {c})
              /\ Cardinality(Counted(r) \cup {c}) \in Nat
          BY <4>5, <5>1, FS_Subset, FS_CardinalityType
        <5>3. reReleases'[r] = reReleases[r] + 1 /\ handed'[r] = handed[r]
          BY <1>T, <3>1, <4>1, <4>2, <4>6
        <5>4. QED
          BY <1>T, <3>1, <4>3, <4>5, <5>2, <5>3
      <4>7. CASE r # q
        <5>1. Counted(r)' \in SUBSET Counted(r)
          BY <4>4, <4>7
        <5>2. /\ IsFiniteSet(Counted(r)') /\ Cardinality(Counted(r)') \in Nat
              /\ Cardinality(Counted(r)') <= Cardinality(Counted(r))
          BY <4>3, <5>1, FS_Subset, FS_CardinalityType
        <5>3. reReleases'[r] = reReleases[r] /\ handed'[r] = handed[r]
          BY <1>T, <3>1, <4>1, <4>2, <4>7
        <5>4. QED
          BY <1>T, <3>1, <4>3, <4>5, <5>2, <5>3
      <4>8. QED
        BY <4>6, <4>7
    <3>3. CASE ~call[c].repeat
      <4>1. UNCHANGED reReleases /\ ~call'[c].repeat
        BY <2>4, <3>1, <3>3 DEF AttemptLogged, AttemptRefused
      <4>2. QED
        BY <3>1, <4>1, <1>C
    <3>4. QED
      BY <3>2, <3>3
  <2>5. ASSUME Respond(c) PROVE CountInv'
    <3> DEFINE q == call[c].rel
    <3>1. q \in Release /\ UNCHANGED reReleases /\ call[c].pc = "engine"
      BY <2>5 DEF Respond, CallInv
    <3>2. /\ status' = [status EXCEPT ![q] = "redeemed"]
          /\ handed' = [handed EXCEPT ![q] = @ + 1]
          /\ \A d \in Call : call'[d] = IF d = c THEN Idle ELSE call[d]
      BY <2>5, <1>T DEF Respond
    <3> HIDE DEF q
    <3> SUFFICES ASSUME NEW r \in Release
                 PROVE  /\ status'[r] # "redeemed" => handed'[r] = 0
                        /\ IsFiniteSet(Counted(r)')
                        /\ handed'[r] + Cardinality(Counted(r)')
                             <= reReleases'[r] + Redeemed(r)'
      BY DEF CountInv
    <3>3. /\ status[r] # "redeemed" => handed[r] = 0
          /\ IsFiniteSet(Counted(r)) /\ Cardinality(Counted(r)) \in Nat
          /\ handed[r] + Cardinality(Counted(r)) <= reReleases[r] + Redeemed(r)
      BY FS_CardinalityType DEF CountInv
    <3>4. Counted(r)' = Counted(r) \ {c}
      BY <3>2, <1>I DEF Counted
    <3>5. /\ IsFiniteSet(Counted(r)') /\ Cardinality(Counted(r)') \in Nat
          /\ Cardinality(Counted(r)') = IF c \in Counted(r) THEN Cardinality(Counted(r)) - 1
                                        ELSE Cardinality(Counted(r))
      BY <3>3, <3>4, FS_RemoveElement, FS_CardinalityType
    <3>6. CASE r # q
      BY <1>T, <3>1, <3>2, <3>3, <3>5, <3>6 DEF Redeemed
    <3>7. CASE r = q /\ call[c].repeat
      <4>1. status[r] = "redeemed" /\ c \in Counted(r)
        BY <3>1, <3>7, RepeatIsCounted DEF q, IsRepeat
      <4>2. Redeemed(r) = 1 /\ Redeemed(r)' = 1 /\ status'[r] = "redeemed"
        BY <1>T, <3>2, <3>7, <4>1 DEF Redeemed
      <4>3. handed'[r] = handed[r] + 1
        BY <1>T, <3>2, <3>7
      <4>4. QED
        BY <1>T, <3>1, <3>3, <3>5, <4>1, <4>2, <4>3
    <3>8. CASE r = q /\ ~call[c].repeat
      <4>1. status[r] = "pending"
        BY <2>5, <3>8 DEF Respond, SwapWins, q
      <4>2. Redeemed(r) = 0 /\ Redeemed(r)' = 1 /\ status'[r] = "redeemed"
        BY <1>T, <3>2, <3>8, <4>1 DEF Redeemed
      <4>3. handed[r] = 0 /\ handed'[r] = 1
        BY <1>T, <3>2, <3>3, <3>8, <4>1
      <4>4. QED
        BY <1>T, <3>1, <3>3, <3>5, <4>2, <4>3
    <3>9. QED
      BY <3>6, <3>7, <3>8
  <2>6. QED
    BY <1>3, <2>1, <2>2, <2>3, <2>4, <2>5 DEF Pipeline
<1>4. CASE UNCHANGED vars
  BY <1>4, <1>K DEF vars
<1>5. QED
  BY <1>1, <1>2, <1>3, <1>4 DEF Next
(* Types; what bounds handed is the count of repeats.                      *)
LEMMA VaultTypeStep ==
  ASSUME TypeOK, CallInv, CountInv, [Next]_vars
  PROVE  TypeOK'
<1> USE DEF releaseVars, boardVars, killVars
<1>T. /\ status \in [Release -> {"none", "pending", "redeemed", "expired", "revoked"}]
      /\ taker \in [Release -> Op \cup {NoOp}]
      /\ reReleases \in [Release -> 0 .. Cap]
      /\ overdue \subseteq Release
      /\ call \in [Call -> CallRow]
      /\ handed \in [Release -> 0 .. (Cap + 1)]
      /\ run \in 0 .. Runs /\ executing \in BOOLEAN /\ late \subseteq 1 .. Runs
      /\ level \in Level /\ mirror \in Level
      /\ armedAt \in [Level -> 0 .. Never] /\ now \in 0 .. MaxTime
  BY DEF TypeOK, CallRow
<1>N. Runs \in Nat /\ Cap \in Nat /\ MaxTime \in Nat /\ Never \in Nat /\ now \in 0 .. Never
  BY <1>T, VaultAssumption DEF Never
<1>I. Idle \in CallRow
  BY <1>N DEF Idle, CallRow
<1>S. /\ UNCHANGED <<taker, reReleases, handed, run, executing, late, level, mirror, armedAt, now>>
      /\ status' \in [Release -> {"none", "pending", "redeemed", "expired", "revoked"}]
      /\ overdue' \subseteq Release /\ call' \in [Call -> CallRow]
      => TypeOK'
  BY <1>T DEF TypeOK, CallRow
<1>1. CASE World
  <2>1. CASE RunStarts \/ RunEnds \/ WindowPasses
    <3>1. run' \in 0 .. Runs /\ executing' \in BOOLEAN
      <4>1. run' = run \/ (run < Runs /\ run' = run + 1)
        BY <2>1 DEF RunStarts, RunEnds, WindowPasses
      <4>2. run' \in 0 .. Runs
        <5>1. run \in 0 .. Runs /\ Runs \in Nat
          BY <1>T, <1>N
        <5>2. QED
          BY <4>1, <5>1
      <4>3. CASE RunStarts \/ RunEnds
        BY <4>2, <4>3 DEF RunStarts, RunEnds
      <4>4. CASE WindowPasses
        BY <1>T, <4>2, <4>4 DEF WindowPasses
      <4>5. QED
        BY <2>1, <4>3, <4>4
    <3>2. 1 .. run \subseteq 1 .. Runs
      BY <1>T, <1>N
    <3>3. late' \subseteq 1 .. Runs
      BY <1>T, <2>1, <3>2 DEF RunStarts, RunEnds, WindowPasses
    <3>4. UNCHANGED <<releaseVars, call, handed, killVars, now>>
      BY <2>1 DEF RunStarts, RunEnds, WindowPasses
    <3>5. QED
      BY <1>T, <3>1, <3>3, <3>4 DEF TypeOK, CallRow
  <2>2. CASE Tick
    BY <1>T, <1>N, <2>2 DEF Tick, TypeOK, CallRow
  <2>3. CASE Poll
    BY <1>T, <2>3 DEF Poll, TypeOK, CallRow
  <2>4. ASSUME NEW l \in Level, Arm(l) PROVE TypeOK'
    BY <1>T, <1>N, <2>4 DEF Arm, TypeOK, CallRow
  <2>5. ASSUME NEW r \in Release, TtlPasses(r) PROVE TypeOK'
    BY <1>T, <1>S, <2>5 DEF TtlPasses
  <2>6. QED
    BY <1>1, <2>1, <2>2, <2>3, <2>4, <2>5 DEF World
<1>2. CASE Releases
  <2>1. ASSUME NEW r \in Release, RequestRelease(r) PROVE TypeOK'
    BY <2>1, <1>T, <1>S DEF RequestRelease
  <2>2. ASSUME NEW S, NEW why \in {"expired", "revoked"}, Close(S, why),
               UNCHANGED call \/ call' = [c \in Call |-> Idle]
        PROVE  TypeOK'
    BY <2>2, <1>T, <1>I, <1>S DEF Close
  <2>3. QED
    BY <1>2, <2>1, <2>2
       DEF Releases, RevokeById, BeginOverdue, RevokeByTicket, SweepExpired, ColdStart
<1>3. ASSUME NEW c \in Call, Pipeline(c) PROVE TypeOK'
  <2>T. call[c] \in CallRow
    BY <1>T
  <2>1. ASSUME NEW r \in Release, NEW o \in Op, NEW a \in 1 .. Runs, Begin(c, r, o, a)
        PROVE  TypeOK'
    <3>1. [Idle EXCEPT !.rel = r, !.op = o, !.appr = a, !.repeat = IsRepeat(r, o)] \in CallRow
      <4>1. IsRepeat(r, o) \in BOOLEAN /\ a \in 0 .. Runs
        BY <1>N DEF IsRepeat
      <4> DEFINE rep == IsRepeat(r, o)
      <4> HIDE DEF rep
      <4>2. [Idle EXCEPT !.rel = r, !.op = o, !.appr = a, !.repeat = rep] \in CallRow
        BY <1>I, <4>1 DEF CallRow, rep
      <4>3. QED
        BY <4>2 DEF rep
    <3>2. call' \in [Call -> CallRow]
      BY <1>T, <2>1, <3>1 DEF Begin, Ask, CallRow
    <3>3. QED
      BY <1>T, <1>S, <2>1, <3>2 DEF Begin
  <2>2. Refuse(c) => TypeOK'
    BY <1>T, <1>I, <1>S DEF Refuse
  <2>3. ASSUME AuthAnswers(c) \/ LiveOk(c) \/ FactsRead(c) \/ LockRead(c) PROVE TypeOK'
    <3>1. call' \in [Call -> CallRow]
      BY <2>3, <1>T, <2>T DEF AuthAnswers, LiveOk, FactsRead, LockRead, StepTo, CallRow
    <3>2. QED
      BY <1>T, <1>S, <2>3, <3>1 DEF AuthAnswers, LiveOk, FactsRead, LockRead, StepTo
  <2>4. ASSUME AttemptLogged(c) \/ AttemptRefused(c) PROVE TypeOK'
    <3>1. call' \in [Call -> CallRow]
      <4>1. CASE AttemptRefused(c)
        BY <1>T, <1>I, <4>1 DEF AttemptRefused
      <4>2. CASE AttemptLogged(c) /\ CheckedRecently(call[c])
        BY <1>T, <2>T, <4>2 DEF AttemptLogged, CallRow
      <4>3. CASE AttemptLogged(c) /\ ~CheckedRecently(call[c])
        <5>1. call' = [call EXCEPT ![c] = [[call[c] EXCEPT !.drift = TRUE]
                                             EXCEPT !.pc = "asked", !.at = now]]
          BY <4>3 DEF AttemptLogged, Ask
        <5>2. QED
          BY <1>T, <2>T, <5>1 DEF CallRow
      <4>4. QED
        BY <2>4, <4>1, <4>2, <4>3
    <3>2. reReleases' \in [Release -> 0 .. Cap]
      <4>1. CASE ~call[c].repeat
        BY <1>T, <2>4, <4>1 DEF AttemptLogged, AttemptRefused
      <4>2. CASE call[c].repeat
        <5>1. /\ reReleases[call[c].rel] < Cap /\ call[c].rel \in Release
              /\ reReleases' = [reReleases EXCEPT ![call[c].rel] = @ + 1]
          BY <2>4, <4>2 DEF AttemptLogged, AttemptRefused, MayRepeat, CallInv
        <5>2. QED
          BY <1>T, <1>N, <5>1
      <4>3. QED
        BY <4>1, <4>2
    <3>3. UNCHANGED <<status, taker, overdue, handed, run, executing, late, level, mirror,
                      armedAt, now>>
      BY <2>4 DEF AttemptLogged, AttemptRefused
    <3>4. QED
      BY <1>T, <3>1, <3>2, <3>3 DEF TypeOK, CallRow
  <2>5. ASSUME Respond(c) PROVE TypeOK'
    <3>1. call[c].rel \in Release /\ call[c].op \in Op /\ call[c].pc = "engine"
      BY <2>5 DEF Respond, CallInv
    <3>2. handed[call[c].rel] \in 0 .. Cap
      <4>1. CASE call[c].repeat
        BY <1>T, <1>N, <3>1, <4>1, RepeatIsCounted
      <4>2. CASE ~call[c].repeat
        BY <1>N, <2>5, <3>1, <4>2 DEF Respond, SwapWins, CountInv
      <4>3. QED
        BY <4>1, <4>2
    <3>3. handed' \in [Release -> 0 .. (Cap + 1)]
      BY <1>T, <1>N, <2>5, <3>1, <3>2 DEF Respond
    <3>4. call' \in [Call -> CallRow]
      BY <1>T, <1>I, <2>5 DEF Respond
    <3>5. QED
      BY <1>T, <2>5, <3>1, <3>3, <3>4 DEF Respond, TypeOK, CallRow
  <2>6. QED
    BY <1>3, <2>1, <2>2, <2>3, <2>4, <2>5 DEF Pipeline
<1>4. CASE UNCHANGED vars
  BY <1>4, <1>S, <1>T DEF vars
<1>5. QED
  BY <1>1, <1>2, <1>3, <1>4 DEF Next

(* The clock only moves on, and G2 is armed at the time it is.             *)
LEMMA QuiesceStep ==
  ASSUME TypeOK, CallInv, QuiesceInv, [Next]_vars
  PROVE  QuiesceInv'
<1> USE DEF releaseVars, boardVars, killVars
<1>T. /\ call \in [Call -> CallRow] /\ level \in Level
      /\ armedAt \in [Level -> 0 .. Never] /\ now \in 0 .. MaxTime
      /\ MaxTime \in Nat /\ Never \in Nat /\ now < Never /\ Timeout \in Nat
      /\ "G2" \in Level /\ armedAt["G2"] \in Nat
      /\ \A c \in Call : call[c].at \in Nat
  BY VaultAssumption DEF TypeOK, CallRow, Never, Level
<1>I. Idle.pc = "idle" /\ Idle.at = 0
  BY DEF Idle
<1>K. ASSUME UNCHANGED <<level, armedAt>>, now <= now', now' \in Nat,
             \A c \in Call : call'[c] \in {call[c], Idle}
      PROVE  QuiesceInv'
  BY <1>K, <1>T, <1>I DEF QuiesceInv
<1>C. ASSUME UNCHANGED <<level, armedAt, now>>, NEW c \in Call,
             \A d \in Call \ {c} : call'[d] = call[d],
             call'[c].at <= now,
             call'[c].pc = "answered" => call'[c].at <= armedAt["G2"],
             call'[c].pc \in {"facts", "lock", "attempt"} =>
               call'[c].at <= armedAt["G2"] + Timeout
      PROVE  QuiesceInv'
  BY <1>C DEF QuiesceInv
<1>1. CASE World
  <2>1. ASSUME NEW l \in Level, Arm(l) PROVE QuiesceInv'
    <3>1. level # "G2" /\ level' = l /\ UNCHANGED <<call, now>>
          /\ armedAt' = [armedAt EXCEPT ![l] = now]
      BY <2>1 DEF Arm
    <3>2. CASE l = "G2"
      <4>1. armedAt'["G2"] = now /\ \A c \in Call : call[c].at <= now
        BY <1>T, <3>1, <3>2 DEF QuiesceInv
      <4>2. QED
        BY <1>T, <3>1, <3>2, <4>1 DEF QuiesceInv
    <3>3. CASE l # "G2"
      BY <1>T, <3>1, <3>3 DEF QuiesceInv
    <3>4. QED
      BY <3>2, <3>3
  <2>2. QED
    BY <1>1, <1>K, <1>T, <2>1 DEF World, RunStarts, RunEnds, WindowPasses, Poll, Tick, TtlPasses
<1>2. CASE Releases
  <2>1. ASSUME NEW S, NEW why, Close(S, why),
               UNCHANGED call \/ call' = [c \in Call |-> Idle]
        PROVE  QuiesceInv'
    BY <2>1, <1>T, <1>K DEF Close
  <2>2. ASSUME NEW r \in Release, RequestRelease(r) PROVE QuiesceInv'
    BY <2>2, <1>T, <1>K DEF RequestRelease
  <2>3. QED
    BY <1>2, <2>1, <2>2
       DEF Releases, RevokeById, BeginOverdue, RevokeByTicket, SweepExpired, ColdStart
<1>3. ASSUME NEW c \in Call, Pipeline(c) PROVE QuiesceInv'
  <2>T. call[c] \in CallRow
    BY <1>T
  <2>1. ASSUME NEW r \in Release, NEW o \in Op, NEW a, Begin(c, r, o, a) PROVE QuiesceInv'
    BY <2>1, <1>T, <1>C DEF Begin, Ask, Idle
  <2>2. Refuse(c) => QuiesceInv'
    BY <1>T, <1>I, <1>K DEF Refuse
  <2>3. ASSUME AuthAnswers(c) PROVE QuiesceInv'
    <3>1. /\ armedAt["G2"] = Never /\ call[c].at <= now
          /\ call'[c].pc = "answered" /\ call'[c].at = call[c].at
          /\ \A d \in Call \ {c} : call'[d] = call[d]
          /\ UNCHANGED <<level, armedAt, now>>
      BY <2>3, <1>T, <2>T DEF AuthAnswers, StepTo, QuiesceInv, CallRow
    <3>2. QED
      BY <1>T, <1>C, <3>1
  <2>4. ASSUME LiveOk(c) PROVE QuiesceInv'
    <3>1. /\ call[c].at <= armedAt["G2"] /\ now - call[c].at <= Timeout
          /\ call'[c].pc \in {"engine", "facts"} /\ call'[c].at = now
          /\ \A d \in Call \ {c} : call'[d] = call[d]
          /\ UNCHANGED <<level, armedAt, now>>
      BY <2>4, <1>T, <2>T DEF LiveOk, QuiesceInv, CallRow
    <3>2. QED
      BY <1>T, <1>C, <3>1
  <2>5. ASSUME FactsRead(c) \/ LockRead(c) PROVE QuiesceInv'
    <3>1. /\ call[c].at <= armedAt["G2"] + Timeout /\ call[c].at <= now
          /\ call'[c].pc \in {"lock", "attempt"} /\ call'[c].at = call[c].at
          /\ \A d \in Call \ {c} : call'[d] = call[d]
          /\ UNCHANGED <<level, armedAt, now>>
      BY <2>5, <1>T, <2>T DEF FactsRead, LockRead, StepTo, QuiesceInv, CallRow
    <3>2. QED
      BY <1>C, <3>1
  <2>6. ASSUME AttemptLogged(c) \/ AttemptRefused(c) PROVE QuiesceInv'
    <3>1. CASE AttemptRefused(c)
      BY <1>T, <1>K, <3>1 DEF AttemptRefused
    <3>2. CASE AttemptLogged(c) /\ CheckedRecently(call[c])
      <4>1. /\ call'[c].pc = "engine" /\ call'[c].at = call[c].at /\ call[c].at <= now
            /\ \A d \in Call \ {c} : call'[d] = call[d]
            /\ UNCHANGED <<level, armedAt, now>>
        BY <1>T, <2>T, <3>2 DEF AttemptLogged, CallRow, QuiesceInv
      <4>2. QED
        BY <1>C, <4>1
    <3>3. CASE AttemptLogged(c) /\ ~CheckedRecently(call[c])
      <4>1. call' = [call EXCEPT ![c] = [[call[c] EXCEPT !.drift = TRUE]
                                           EXCEPT !.pc = "asked", !.at = now]]
        BY <3>3 DEF AttemptLogged, Ask
      <4>2. /\ call'[c].pc = "asked" /\ call'[c].at = now
            /\ \A d \in Call \ {c} : call'[d] = call[d]
            /\ UNCHANGED <<level, armedAt, now>>
        BY <1>T, <2>T, <3>3, <4>1 DEF AttemptLogged, CallRow
      <4>3. QED
        BY <1>T, <1>C, <4>2
    <3>4. QED
      BY <2>6, <3>1, <3>2, <3>3
  <2>7. Respond(c) => QuiesceInv'
    BY <1>T, <1>K DEF Respond
  <2>8. QED
    BY <1>3, <2>1, <2>2, <2>3, <2>4, <2>5, <2>6, <2>7 DEF Pipeline
<1>4. CASE UNCHANGED vars
  BY <1>4, <1>K, <1>T DEF vars
<1>5. QED
  BY <1>1, <1>2, <1>3, <1>4 DEF Next
-----------------------------------------------------------------------------
(* The invariant of the Vault, conjunct by conjunct: types, calls, counts  *)
(* and the age of what was checked.                                        *)
THEOREM VaultInvariant == Spec => []VaultInv
<1>1. VaultInv /\ [Next]_vars => VaultInv'
  BY CallStep, CountStep, VaultTypeStep, QuiesceStep DEF VaultInv
<1>2. QED
  BY <1>1, VaultInit, PTL DEF Spec

(* Each step of the pipeline is a step of a one-shot release or none.      *)
LEMMA OneShotStep ==
  ASSUME VaultInv, [Next]_vars
  PROVE  [OneShot!Next]_(OneShot!vars)
<1> USE DEF releaseVars, boardVars, killVars
<1>V. TypeOK /\ CallInv /\ CountInv
  BY DEF VaultInv
<1>T. /\ status \in [Release -> {"none", "pending", "redeemed", "expired", "revoked"}]
      /\ taker \in [Release -> Op \cup {NoOp}]
      /\ handed \in [Release -> 0 .. (Cap + 1)]
  BY <1>V DEF TypeOK
<1>K. UNCHANGED <<status, taker, handed>> => [OneShot!Next]_(OneShot!vars)
  BY DEF OneShot!vars
<1>1. CASE World
  BY <1>1, <1>K DEF World, RunStarts, RunEnds, WindowPasses, Poll, Tick, Arm, TtlPasses
<1>2. CASE Releases
  <2>1. ASSUME NEW r \in Release, RequestRelease(r) PROVE OneShot!Next
    <3>1. OneShot!Stage(r)
      BY <2>1 DEF RequestRelease, Pending, OneShot!Stage
    <3>2. QED
      BY <3>1 DEF OneShot!Next
  <2>2. ASSUME NEW S \in SUBSET Pending, NEW why \in {"expired", "revoked"}, Close(S, why)
        PROVE  OneShot!Next
    <3>1. OneShot!Close(S, why) /\ S \in SUBSET Release
      BY <2>2 DEF Close, Pending, OneShot!Close
    <3>2. QED
      BY <2>2, <3>1 DEF OneShot!Next
  <2>3. \A r \in Pending : {r} \in SUBSET Pending
    OBVIOUS
  <2>4. QED
    BY <1>2, <2>1, <2>2, <2>3
       DEF Releases, RevokeById, BeginOverdue, RevokeByTicket, SweepExpired, ColdStart
<1>3. ASSUME NEW c \in Call, Pipeline(c) PROVE [OneShot!Next]_(OneShot!vars)
  <2>1. ASSUME Respond(c) PROVE OneShot!Next
    <3> DEFINE r == call[c].rel
    <3>1. /\ call[c].pc = "engine" /\ r \in Release /\ call[c].op \in Op
          /\ status' = [status EXCEPT ![r] = "redeemed"]
          /\ taker' = [taker EXCEPT ![r] = call[c].op]
          /\ handed' = [handed EXCEPT ![r] = @ + 1]
      BY <1>V, <2>1 DEF Respond, CallInv
    <3>2. CASE call[c].repeat
      <4>1. IsRepeat(r, call[c].op) /\ handed[r] <= Cap
        BY <1>V, <3>1, <3>2, RepeatIsCounted
      <4>2. status' = status /\ taker' = taker
        BY <1>T, <3>1, <4>1 DEF IsRepeat
      <4>3. OneShot!Repeat(r)
        BY <3>1, <4>1, <4>2 DEF IsRepeat, OneShot!Repeat
      <4>4. QED
        BY <3>1, <4>3 DEF OneShot!Next
    <3>3. CASE ~call[c].repeat
      <4>1. status[r] = "pending"
        BY <2>1, <3>3 DEF Respond, SwapWins
      <4>2. handed[r] = 0
        BY <1>V, <3>1, <4>1 DEF CountInv
      <4>3. handed' = [handed EXCEPT ![r] = 1]
        BY <3>1, <4>2
      <4>4. OneShot!Redeem(r, call[c].op)
        BY <3>1, <4>1, <4>3 DEF OneShot!Redeem
      <4>5. QED
        BY <3>1, <4>4 DEF OneShot!Next
    <3>4. QED
      BY <3>2, <3>3
  <2>2. QED
    BY <1>3, <1>K, <2>1 DEF Pipeline, Begin, Ask, Refuse, AuthAnswers, LiveOk, FactsRead,
                            LockRead, StepTo, AttemptLogged, AttemptRefused
<1>4. QED
  BY <1>1, <1>2, <1>3, <1>K DEF Next, vars

(* The releases of the Vault are one-shot releases: the secret leaves once *)
(* to one redemption, at most Cap times more to its repeats, and never     *)
(* from a release that was revoked or has expired.                         *)
THEOREM ImplementsOneShot == Spec => OneShotSpec
<1>1. Init => OneShot!Init
  BY DEF Init, OneShot!Init
<1>2. VaultInv /\ [Next]_vars => [OneShot!Next]_(OneShot!vars)
  BY OneShotStep
<1>3. QED
  BY <1>1, <1>2, VaultInvariant, PTL DEF Spec, OneShotSpec, OneShot!Spec

(* The engine is asked by a call whose live check is at most Drift old,    *)
(* and which auth answered before G2 came into force.                      *)
LEMMA EngineStep ==
  ASSUME VaultInv, [Next]_vars, NEW c \in Call, EngineStarts(c)
  PROVE  ArmedFor("G2") <= Drift + Timeout
<1> USE DEF releaseVars, boardVars, killVars
<1>T. /\ call \in [Call -> CallRow] /\ armedAt \in [Level -> 0 .. Never]
      /\ now \in 0 .. MaxTime /\ {Drift, Timeout, MaxTime, Never} \subseteq Nat
      /\ armedAt["G2"] \in Nat /\ call[c].at \in Nat /\ call[c] \in CallRow
      /\ QuiesceInv
  BY VaultAssumption DEF VaultInv, TypeOK, CallRow, Never, Level
<1>1. ASSUME NEW d \in Call, Pipeline(d)
      PROVE  \/ LiveOk(c) /\ call[c].drift
             \/ AttemptLogged(c) /\ CheckedRecently(call[c])
  <2>1. d = c
    <3>1. ASSUME d # c PROVE call'[c] = call[c]
      BY <1>1, <1>T, <3>1
         DEF Pipeline, Begin, Ask, Refuse, AuthAnswers, LiveOk, FactsRead, LockRead,
             StepTo, AttemptLogged, AttemptRefused, Respond
    <3>2. QED
      BY <3>1 DEF EngineStarts
  <2>2. ~(Refuse(c) \/ AttemptRefused(c) \/ Respond(c))
    BY <1>T DEF Refuse, AttemptRefused, Respond, Idle, EngineStarts
  <2>3. ~(AuthAnswers(c) \/ FactsRead(c) \/ LockRead(c))
    BY <1>T DEF AuthAnswers, FactsRead, LockRead, StepTo, EngineStarts, CallRow
  <2>4. \A r \in Release, o \in Op, a \in 1 .. Runs : ~Begin(c, r, o, a)
    BY <1>T DEF Begin, Ask, Idle, EngineStarts
  <2>5. LiveOk(c) => call[c].drift
    BY <1>T DEF LiveOk, EngineStarts, CallRow
  <2>6. AttemptLogged(c) => CheckedRecently(call[c])
    <3>1. ASSUME AttemptLogged(c), ~CheckedRecently(call[c]) PROVE call'[c].pc = "asked"
      <4>1. call' = [call EXCEPT ![c] = [[call[c] EXCEPT !.drift = TRUE]
                                           EXCEPT !.pc = "asked", !.at = now]]
        BY <3>1 DEF AttemptLogged, Ask
      <4>2. QED
        BY <1>T, <4>1 DEF CallRow
    <3>2. QED
      BY <3>1 DEF EngineStarts
  <2>7. QED
    BY <1>1, <2>1, <2>2, <2>3, <2>4, <2>5, <2>6 DEF Pipeline
<1>2. ASSUME LiveOk(c) PROVE now - armedAt["G2"] <= Drift + Timeout
  BY <1>T, <1>2 DEF LiveOk, QuiesceInv
<1>3. ASSUME AttemptLogged(c), CheckedRecently(call[c])
      PROVE  now - armedAt["G2"] <= Drift + Timeout
  BY <1>T, <1>3 DEF AttemptLogged, CheckedRecently, QuiesceInv
<1>4. ~World /\ ~UNCHANGED vars
  BY <1>T DEF World, RunStarts, RunEnds, WindowPasses, Poll, Tick, Arm, TtlPasses, vars,
              EngineStarts
<1>5. ~Releases
  BY <1>T DEF Releases, RequestRelease, RevokeById, BeginOverdue, RevokeByTicket,
              SweepExpired, ColdStart, Close, EngineStarts, Idle
<1>6. \E d \in Call : Pipeline(d)
  BY <1>4, <1>5 DEF Next
<1>7. now - armedAt["G2"] <= Drift + Timeout
  BY <1>1, <1>2, <1>3, <1>6
<1>8. Drift + Timeout \in Nat
  BY <1>T
<1>9. QED
  BY <1>7, <1>8 DEF ArmedFor

(* Once G2 has been in force for longer than the drift bound and one       *)
(* introspection, the engine is never asked for a secret again.            *)
THEOREM QuiesceHolds == Spec => QuiesceStopsEngine
<1>1. VaultInv /\ [Next]_vars =>
        [\A c \in Call : EngineStarts(c) => ArmedFor("G2") <= Drift + Timeout]_vars
  BY EngineStep
<1>2. QED
  BY <1>1, VaultInvariant, PTL DEF Spec, QuiesceStopsEngine
=============================================================================
