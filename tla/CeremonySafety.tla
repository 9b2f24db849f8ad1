---------------------------- MODULE CeremonySafety ----------------------------
(***************************************************************************)
(* The ceremony, for any agents, roster and caps: nothing is executed that *)
(* was not contested by a full roster, and a veto yields to nobody but the *)
(* one who raised it.                                                      *)
(***************************************************************************)
EXTENDS Ceremony, FiniteSetTheorems, TLAPS

HuddleRow ==
  [status : {"none", "open", "converged", "escalated"},
   round : 0..(RoundCap + 1), cap : {0, LightCap, RoundCap},
   due : BOOLEAN, paused : BOOLEAN, dissent : BOOLEAN,
   veto : {"none", "raised", "cleared_by_ar"},
   veto_by : Sub \cup {NoSub}, decision : BOOLEAN]

Full == Cardinality(positions) >= MinRoster

(* A role is bound to a member of the roster by the statement it makes; a  *)
(* dissent and a decision, once made, are of a full roster, the dissent    *)
(* with a recon note; no ticket is past the huddle, nor has children, but  *)
(* by both.  What bears it all is that the roster only grows and that      *)
(* reopening the huddle forgets none of it.                                *)
RosterInv ==
  /\ IsFiniteSet(positions) /\ {AR, PO} \subseteq positions \cup {NoSub}
  /\ huddle.dissent => AR # NoSub /\ recon /\ Full
  /\ huddle.decision => PO # NoSub /\ Full
ContestInv ==
  /\ PastHuddle \/ children => huddle.dissent /\ huddle.decision
  /\ NoVetoPastHuddle

CeremonyInv == TypeOK /\ RosterInv /\ ContestInv

-----------------------------------------------------------------------------
(* Nothing is said yet.                                                    *)
LEMMA CeremonyInit == Init => CeremonyInv
<1> SUFFICES ASSUME Init PROVE CeremonyInv
  OBVIOUS
<1>1. 0 \in 0 .. (RoundCap + 1)
  BY CeremonyAssumption
<1>2. huddle \in HuddleRow
  BY <1>1 DEF Init, NoHuddle, HuddleRow
<1>3. TypeOK
  BY <1>2 DEF Init, TypeOK, HuddleRow, Phase, Lane
<1>4. IsFiniteSet(positions)
  BY FS_EmptySet DEF Init
<1>5. QED
  BY <1>3, <1>4 DEF Init, NoHuddle, CeremonyInv, RosterInv, ContestInv, PastHuddle,
                    NoVetoPastHuddle

(* What a statement needs and does.                                        *)
LEMMA StatementTaken ==
  ASSUME TypeOK, NEW s \in Sub, NEW k \in Kind, Statement(s, k)
  PROVE  /\ huddle' \in HuddleRow
         /\ huddle'.dissent = (huddle.dissent \/ k = "dissent")
         /\ huddle'.decision = (huddle.decision \/ k = "decision")
         /\ huddle'.veto = (CASE k = "veto" -> "raised" [] k = "veto_clear" -> "cleared_by_ar"
                              [] OTHER -> huddle.veto)
         /\ positions' = IF k = "position" THEN positions \cup {s} ELSE positions
         /\ AR' = IF k \in {"dissent", "veto", "veto_clear"} THEN s ELSE AR
         /\ PO' = IF k = "decision" THEN s ELSE PO
         /\ spoke' \subseteq Sub
<1>T. huddle \in HuddleRow /\ positions \subseteq Sub /\ spoke \subseteq Sub
      /\ RoundCap \in Nat
  BY CeremonyAssumption DEF TypeOK, HuddleRow
<1>1. /\ Filed(s, k) \in HuddleRow
      /\ Filed(s, k).dissent = (huddle.dissent \/ k = "dissent")
      /\ Filed(s, k).decision = (huddle.decision \/ k = "decision")
      /\ Filed(s, k).veto = (CASE k = "veto" -> "raised" [] k = "veto_clear" -> "cleared_by_ar"
                               [] OTHER -> huddle.veto)
  <2>1. CASE k = "position"
    BY <1>T, <2>1 DEF Filed, HuddleRow
  <2>2. CASE k = "dissent"
    BY <1>T, <2>2 DEF Filed, HuddleRow
  <2>3. CASE k = "veto"
    BY <1>T, <2>3 DEF Filed, HuddleRow
  <2>4. CASE k = "veto_clear"
    BY <1>T, <2>4 DEF Filed, HuddleRow
  <2>5. CASE k = "decision"
    BY <1>T, <2>5 DEF Filed, HuddleRow
  <2>6. QED
    BY <2>1, <2>2, <2>3, <2>4, <2>5 DEF Kind
<1>2. PICK b \in BOOLEAN :
        huddle' = [Filed(s, k) EXCEPT !.round = IF b /\ @ <= RoundCap THEN @ + 1 ELSE @]
  BY DEF Statement
<1>3. \A n \in 0 .. (RoundCap + 1) :
        (IF b /\ n <= RoundCap THEN n + 1 ELSE n) \in 0 .. (RoundCap + 1)
  BY <1>T
<1>4. /\ huddle' \in HuddleRow
      /\ huddle'.dissent = Filed(s, k).dissent /\ huddle'.decision = Filed(s, k).decision
      /\ huddle'.veto = Filed(s, k).veto
  <2> DEFINE f == Filed(s, k)
  <2> HIDE DEF f
  <2>1. f \in HuddleRow /\ huddle' = [f EXCEPT !.round = IF b /\ @ <= RoundCap THEN @ + 1 ELSE @]
    BY <1>1, <1>2 DEF f
  <2>2. f.round \in 0 .. (RoundCap + 1)
    BY <2>1 DEF HuddleRow
  <2>3. QED
    BY <1>3, <2>1, <2>2 DEF HuddleRow, f
<1>5. /\ positions' = IF k = "position" THEN positions \cup {s} ELSE positions
      /\ AR' = IF k \in {"dissent", "veto", "veto_clear"} THEN s ELSE AR
      /\ PO' = IF k = "decision" THEN s ELSE PO
      /\ spoke' \subseteq Sub
  BY <1>T DEF Statement
<1>6. QED
  BY <1>1, <1>4, <1>5
-----------------------------------------------------------------------------
(* One step per action.                                                    *)
LEMMA CeremonyStep ==
  ASSUME CeremonyInv, [Next]_vars
  PROVE  CeremonyInv'
<1> USE DEF ticketVars, rosterVars
<1>T. /\ huddle \in HuddleRow /\ phase \in Phase /\ lane \in Lane
      /\ status \in {"todo", "in_progress", "blocked", "needs_review"}
      /\ held \in BOOLEAN /\ positions \subseteq Sub /\ spoke \subseteq Sub
      /\ {AR, PO} \subseteq Sub \cup {NoSub} /\ recon \in BOOLEAN /\ children \in BOOLEAN
  BY DEF CeremonyInv, TypeOK, HuddleRow
<1>I. RosterInv /\ ContestInv
  BY DEF CeremonyInv
<1>Y. /\ huddle' \in HuddleRow /\ phase' \in Phase /\ lane' \in Lane
      /\ status' \in {"todo", "in_progress", "blocked", "needs_review"}
      /\ held' \in BOOLEAN /\ UNCHANGED <<positions, spoke, AR, PO>>
      /\ recon' \in BOOLEAN /\ children' \in BOOLEAN
      => TypeOK'
  BY <1>T DEF TypeOK, HuddleRow
<1>K. (* the roster and what it has said stay *)
      ASSUME TypeOK', UNCHANGED <<positions, AR, PO, children>>, recon => recon',
             huddle'.dissent = huddle.dissent, huddle'.decision = huddle.decision,
             PastHuddle' => huddle.dissent /\ huddle.decision /\ huddle'.veto # "raised"
      PROVE  CeremonyInv'
  <2>1. RosterInv'
    BY <1>I, <1>K DEF RosterInv, Full
  <2>2. ContestInv'
    BY <1>I, <1>K DEF ContestInv, NoVetoPastHuddle
  <2>3. QED
    BY <1>K, <2>1, <2>2 DEF CeremonyInv
<1>1. ASSUME NEW l \in Lane, Triage(l) PROVE CeremonyInv'
  <2>1. TypeOK'
    BY <1>T, <1>Y, <1>1 DEF Triage, Phase
  <2>2. QED
    BY <1>K, <1>1, <2>1 DEF Triage, PastHuddle
<1>2. CASE OpenHuddle
  <2>1. PICK cap \in {LightCap, RoundCap} :
          huddle' = [huddle EXCEPT !.status = "open", !.cap = cap, !.due = FALSE]
    BY <1>2 DEF OpenHuddle, Reopened
  <2>2. /\ huddle' \in HuddleRow /\ huddle'.dissent = huddle.dissent
        /\ huddle'.decision = huddle.decision
    BY <1>T, <2>1 DEF HuddleRow
  <2>3. TypeOK'
    BY <1>T, <1>Y, <1>2, <2>2 DEF OpenHuddle, Phase
  <2>4. QED
    BY <1>K, <1>2, <2>2, <2>3 DEF OpenHuddle, PastHuddle
<1>3. CASE ToBacklog
  <2>1. /\ huddle' \in HuddleRow /\ huddle'.dissent = huddle.dissent
        /\ huddle'.decision = huddle.decision /\ huddle'.veto = huddle.veto
    BY <1>T, <1>3 DEF ToBacklog, HuddleRow
  <2>2. TypeOK'
    BY <1>T, <1>Y, <1>3, <2>1 DEF ToBacklog, Phase
  <2>3. QED
    BY <1>K, <1>3, <2>1, <2>2 DEF ToBacklog, MayConverge
<1>4. ASSUME NEW p \in Phase, ToPhase(p) PROVE CeremonyInv'
  <2>1. TypeOK'
    BY <1>T, <1>Y, <1>4 DEF ToPhase
  <2>2. PastHuddle' => PastHuddle
    BY <1>4 DEF ToPhase, Follows, PastHuddle
  <2>3. QED
    BY <1>I, <1>K, <1>4, <2>1, <2>2 DEF ToPhase, ContestInv, NoVetoPastHuddle
<1>5. CASE Decompose
  <2>1. TypeOK'
    BY <1>T, <1>Y, <1>5 DEF Decompose
  <2>2. RosterInv'
    BY <1>I, <1>5 DEF Decompose, RosterInv, Full
  <2>3. ContestInv'
    BY <1>I, <1>5 DEF Decompose, ContestInv, PastHuddle, NoVetoPastHuddle
  <2>4. QED
    BY <2>1, <2>2, <2>3 DEF CeremonyInv
<1>6. CASE LinkReconNote
  <2>1. TypeOK'
    BY <1>T, <1>Y, <1>6 DEF LinkReconNote
  <2>2. QED
    BY <1>I, <1>K, <1>6, <2>1 DEF LinkReconNote, ContestInv, NoVetoPastHuddle, PastHuddle
<1>7. ASSUME NEW s \in Sub, NEW k \in Kind, Statement(s, k) PROVE CeremonyInv'
  <2>1. /\ UNCHANGED <<status, held, phase, lane, recon, children>>
        /\ phase \in {"planning", "adversarial_review"}
        /\ k = "position" \/ (Cardinality(positions) >= MinRoster /\ s \in positions)
        /\ k = "dissent" => recon
    BY <1>7 DEF Statement, Open, MaySpeak
  <2>2. /\ k \in {"dissent", "veto", "veto_clear"} => AR \in {NoSub, s}
        /\ k = "decision" => PO \in {NoSub, s}
    BY <1>7 DEF Statement, BindsTo
  <2>3. TypeOK /\ s # NoSub
    BY CeremonyAssumption DEF CeremonyInv
  <2>4. /\ huddle' \in HuddleRow
        /\ huddle'.dissent = (huddle.dissent \/ k = "dissent")
        /\ huddle'.decision = (huddle.decision \/ k = "decision")
        /\ positions' = IF k = "position" THEN positions \cup {s} ELSE positions
        /\ AR' = IF k \in {"dissent", "veto", "veto_clear"} THEN s ELSE AR
        /\ PO' = IF k = "decision" THEN s ELSE PO
        /\ spoke' \subseteq Sub
    BY <1>7, <2>3, StatementTaken
  <2>5. positions' \subseteq Sub /\ {AR', PO'} \subseteq Sub \cup {NoSub}
    BY <1>T, <2>4
  <2>6. TypeOK'
    BY <1>T, <2>1, <2>4, <2>5 DEF TypeOK, HuddleRow
  <2>7. IsFiniteSet(positions') /\ positions \subseteq positions' /\ (Full => Full')
    <3>1. IsFiniteSet(positions)
      BY <1>I DEF RosterInv
    <3>2. IsFiniteSet(positions') /\ positions \subseteq positions'
      BY <2>4, <3>1, FS_AddElement
    <3>3. /\ Cardinality(positions) \in Nat /\ Cardinality(positions') \in Nat
          /\ Cardinality(positions) <= Cardinality(positions')
      BY <3>1, <3>2, FS_Subset, FS_CardinalityType
    <3>4. QED
      BY <3>2, <3>3, CeremonyAssumption DEF Full
  <2>8. {AR', PO'} \subseteq positions' \cup {NoSub}
    BY <1>I, <2>1, <2>4, <2>7 DEF RosterInv
  <2>9. huddle'.dissent => AR' # NoSub /\ recon' /\ Full'
    BY <1>I, <2>1, <2>3, <2>4, <2>7 DEF RosterInv, Full
  <2>10. huddle'.decision => PO' # NoSub /\ Full'
    BY <1>I, <2>1, <2>3, <2>4, <2>7 DEF RosterInv, Full
  <2>11. ContestInv'
    BY <1>I, <2>1, <2>4 DEF ContestInv, NoVetoPastHuddle, PastHuddle
  <2>12. QED
    BY <2>6, <2>7, <2>8, <2>9, <2>10, <2>11 DEF CeremonyInv, RosterInv
<1>8. CASE Ticket
  <2>1. /\ huddle' \in {huddle, [huddle EXCEPT !.paused = TRUE]}
        /\ status' \in {"todo", "in_progress", "blocked", "needs_review"}
        /\ held' \in BOOLEAN
        /\ UNCHANGED <<phase, lane, positions, spoke, AR, PO, recon, children>>
    BY <1>8, <1>T DEF Ticket, Claim, Reap, Block, Hand, SendBack, Hold, ClearHold, Moves, Paused
  <2>2. /\ huddle' \in HuddleRow /\ huddle'.dissent = huddle.dissent
        /\ huddle'.decision = huddle.decision /\ huddle'.veto = huddle.veto
    BY <1>T, <2>1 DEF HuddleRow
  <2>3. TypeOK'
    BY <1>T, <1>Y, <2>1, <2>2
  <2>4. QED
    BY <1>I, <1>K, <2>1, <2>2, <2>3 DEF ContestInv, NoVetoPastHuddle, PastHuddle
<1>9. CASE TimeboxPasses \/ Watchdog
  <2>1. /\ huddle' \in {[huddle EXCEPT !.due = TRUE], [huddle EXCEPT !.status = "escalated"]}
        /\ status' \in {status, "needs_review"}
        /\ UNCHANGED <<held, phase, lane, positions, spoke, AR, PO, recon, children>>
    BY <1>9 DEF TimeboxPasses, Watchdog
  <2>2. /\ huddle' \in HuddleRow /\ huddle'.dissent = huddle.dissent
        /\ huddle'.decision = huddle.decision /\ huddle'.veto = huddle.veto
    BY <1>T, <2>1 DEF HuddleRow
  <2>3. TypeOK'
    BY <1>T, <1>Y, <2>1, <2>2
  <2>4. QED
    BY <1>I, <1>K, <2>1, <2>2, <2>3 DEF ContestInv, NoVetoPastHuddle, PastHuddle
<1>10. CASE UNCHANGED vars
  <2>1. TypeOK'
    BY <1>T, <1>Y, <1>10 DEF vars
  <2>2. QED
    BY <1>I, <1>K, <1>10, <2>1 DEF vars, ContestInv, NoVetoPastHuddle, PastHuddle
<1>11. QED
  BY <1>1, <1>2, <1>3, <1>4, <1>5, <1>6, <1>7, <1>8, <1>9, <1>10 DEF Next, Deliberate

(* Types, the roster and what it has said: the invariant of the ceremony.  *)
THEOREM CeremonyInvariant == Spec => []CeremonyInv
<1>1. CeremonyInv /\ [Next]_vars => CeremonyInv'
  BY CeremonyStep
<1>2. QED
  BY <1>1, CeremonyInit, PTL DEF Spec

(* No ticket is past the huddle, and none has execution children, but by a *)
(* grounded dissent and a decision of a full roster, however the phases    *)
(* are run through, paused, escalated or started over.                     *)
THEOREM ExecutionContested == Spec => []ExecutionWasContested
<1>1. CeremonyInv => ExecutionWasContested
  BY DEF CeremonyInv, RosterInv, ContestInv, ExecutionWasContested, Full
<1>2. QED
  BY <1>1, CeremonyInvariant, PTL

(* A ticket past the huddle has no raised veto.                            *)
THEOREM NoVetoSlipsThrough == Spec => []NoVetoPastHuddle
<1>1. CeremonyInv => NoVetoPastHuddle
  BY DEF CeremonyInv, ContestInv
<1>2. QED
  BY <1>1, CeremonyInvariant, PTL

(* A raised veto is cleared by the one who raised it and by nothing else.  *)
LEMMA VetoStep ==
  ASSUME CeremonyInv, [Next]_vars, huddle.veto = "raised", huddle'.veto # "raised"
  PROVE  Statement(huddle.veto_by, "veto_clear")
<1> USE DEF ticketVars, rosterVars
<1>T. huddle \in HuddleRow
  BY DEF CeremonyInv, TypeOK, HuddleRow
<1>1. ASSUME NEW s \in Sub, NEW k \in Kind, Statement(s, k)
      PROVE  Statement(huddle.veto_by, "veto_clear")
  <2>1. k = "veto_clear"
    BY <1>1, StatementTaken DEF CeremonyInv, Kind
  <2>2. huddle.veto_by = s
    BY <1>1, <2>1 DEF Statement
  <2>3. QED
    BY <1>1, <2>1, <2>2
<1>2. \A l \in Lane : ~Triage(l)
  BY DEF Triage
<1>3. ~(OpenHuddle \/ ToBacklog)
  BY <1>T DEF OpenHuddle, Reopened, ToBacklog, HuddleRow
<1>4. ~(Decompose \/ LinkReconNote) /\ \A p \in Phase : ~ToPhase(p)
  BY DEF Decompose, LinkReconNote, ToPhase
<1>5. ~Ticket
  BY <1>T DEF Ticket, Claim, Reap, Block, Hand, SendBack, Hold, ClearHold, Moves, Paused, HuddleRow
<1>6. ~(TimeboxPasses \/ Watchdog) /\ ~UNCHANGED vars
  BY <1>T DEF TimeboxPasses, Watchdog, HuddleRow, vars
<1>7. QED
  BY <1>1, <1>2, <1>3, <1>4, <1>5, <1>6 DEF Next, Deliberate

(* The same of every behaviour.                                            *)
THEOREM VetoYieldsToItsOwner == Spec => VetoHolds
<1>1. CeremonyInv /\ [Next]_vars =>
        [huddle.veto = "raised" /\ huddle'.veto # "raised"
           => Statement(huddle.veto_by, "veto_clear")]_vars
  BY VetoStep
<1>2. QED
  BY <1>1, CeremonyInvariant, PTL DEF Spec, VetoHolds
=============================================================================
