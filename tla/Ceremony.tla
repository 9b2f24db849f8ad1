------------------------------- MODULE Ceremony ------------------------------
(***************************************************************************)
(* The deliberation of one planning ticket: phases, huddle, statements,    *)
(* watchdog and decomposition (board/service/ceremony.js), with the moves  *)
(* of the ticket it is coupled to (claim, reap, block, outage hold).       *)
(*                                                                         *)
(* Statements are bound to the roster, not to the lease: they are filed,   *)
(* and phases requested, by anybody at any time, whatever becomes of the   *)
(* ticket.  Each call is one transaction, so one action.                   *)
(***************************************************************************)
EXTENDS Naturals, FiniteSets

CONSTANTS
  Sub, NoSub,       \* the agents of the huddle
  MinRoster,        \* ceremonyMinRoster
  RoundCap,         \* ceremonyRoundCap
  LightCap          \* ceremonyLightweightRoundCap

ASSUME CeremonyAssumption ==
  /\ NoSub \notin Sub
  /\ {MinRoster, RoundCap, LightCap} \subseteq Nat
  /\ LightCap <= RoundCap

VARIABLES
  status, held,      \* the ticket's status and outage hold
  phase, lane,       \* its ceremony_phase and lane
  huddle,            \* its row of huddles
  positions,         \* the roster: the drafters of positions
  spoke,             \* who filed a statement since the round began
  AR, PO,            \* the roles as bound in meta
  recon,             \* a recon child of the ticket has a note linked
  children           \* execution children exist

ticketVars == <<status, held>>
rosterVars == <<positions, spoke, AR, PO>>
vars == <<ticketVars, phase, lane, huddle, rosterVars, recon, children>>

Phase == {"triage", "recon", "planning", "adversarial_review", "backlog", "execute", "retro"}
Lane == {"straight_to_execute", "lightweight", "full"}
Kind == {"position", "dissent", "veto", "veto_clear", "decision"}

NoHuddle ==
  [status |-> "none", round |-> 0, cap |-> 0, due |-> FALSE, paused |-> FALSE,
   dissent |-> FALSE, veto |-> "none", veto_by |-> NoSub, decision |-> FALSE]

Init ==
  /\ status = "todo" /\ held = FALSE
  /\ phase = "triage" /\ lane = "full"
  /\ huddle = NoHuddle
  /\ positions = {} /\ spoke = {} /\ AR = NoSub /\ PO = NoSub
  /\ recon = FALSE /\ children = FALSE

-----------------------------------------------------------------------------
(* Phases.                                                                 *)

(* The lane follows from signals that the Board fetches itself; a triage   *)
(* may be run again at any time, and starts the phases over.               *)
Triage(l) ==
  /\ phase' = "triage" /\ lane' = l
  /\ UNCHANGED <<ticketVars, huddle, rosterVars, recon, children>>

(* Opening again keeps what the row holds but the cap, the deadline and    *)
(* the status.  Mutant: it starts from a clean row.                        *)
Reopened_Clean(h, cap) == [NoHuddle EXCEPT !.status = "open", !.cap = cap]
Reopened(h, cap) == [h EXCEPT !.status = "open", !.cap = cap, !.due = FALSE]

OpenHuddle ==
  /\ phase = "recon" /\ phase' = "planning"
  /\ huddle' = Reopened(huddle, IF lane = "lightweight" THEN LightCap ELSE RoundCap)
  /\ UNCHANGED <<ticketVars, lane, rosterVars, recon, children>>

(* _guardBacklog.  Without a dissent it escalates and then throws, which   *)
(* rolls the escalation back: nothing happens.                             *)
(* Mutant: the dissent is not looked at.                                   *)
MayConverge_Agreed == huddle.veto # "raised" /\ huddle.decision
MayConverge == huddle.veto # "raised" /\ huddle.dissent /\ huddle.decision

ToBacklog ==
  /\ phase = "adversarial_review" /\ MayConverge
  /\ phase' = "backlog"
  /\ huddle' = [huddle EXCEPT !.status = "converged"]
  /\ UNCHANGED <<ticketVars, lane, rosterVars, recon, children>>

Follows == {<<"triage", "recon">>, <<"planning", "adversarial_review">>,
            <<"backlog", "execute">>, <<"execute", "retro">>}

ToPhase(p) ==
  /\ <<phase, p>> \in Follows /\ phase' = p
  /\ UNCHANGED <<ticketVars, lane, huddle, rosterVars, recon, children>>

(* The only path that stamps children as execution children.               *)
Decompose ==
  /\ phase \in {"backlog", "execute", "retro"}
  /\ children' = TRUE
  /\ UNCHANGED <<ticketVars, phase, lane, huddle, rosterVars, recon>>

-----------------------------------------------------------------------------
(* Statements.                                                             *)

(* The role is bound to the first who acts in it.                          *)
BindsTo(role, s) == role \in {NoSub, s}

MaySpeak(s, k) ==
  k = "position" \/ (Cardinality(positions) >= MinRoster /\ s \in positions)

(* What a statement does to the row.                                       *)
Filed(s, k) ==
  CASE k = "dissent" -> [huddle EXCEPT !.dissent = TRUE]
    [] k = "veto" -> [huddle EXCEPT !.veto = "raised", !.veto_by = s]
    [] k = "veto_clear" -> [huddle EXCEPT !.veto = "cleared_by_ar"]
    [] k = "decision" -> [huddle EXCEPT !.decision = TRUE]
    [] OTHER -> huddle

(* Mutant: statements are taken in any phase.                              *)
Open_Always == huddle.status # "none"
Open == phase \in {"planning", "adversarial_review"} /\ huddle.status # "none"

(* The round advances before the statement itself is on record, when all   *)
(* of the roster have spoken since it began; rounds beyond the cap count   *)
(* as one.                                                                 *)
Statement(s, k) ==
  LET roster == IF k = "position" THEN positions \cup {s} ELSE positions
      covered == roster # {} /\ roster \subseteq spoke IN
  /\ Open /\ ~huddle.paused /\ MaySpeak(s, k)
  /\ k \in {"dissent", "veto", "veto_clear"} => BindsTo(AR, s)
  /\ k = "decision" => BindsTo(PO, s)
  /\ k = "dissent" => recon
  /\ k = "veto_clear" => huddle.veto = "raised" /\ huddle.veto_by = s
  /\ AR' = IF k \in {"dissent", "veto", "veto_clear"} THEN s ELSE AR
  /\ PO' = IF k = "decision" THEN s ELSE PO
  /\ positions' = roster
  /\ spoke' = IF covered THEN {s} ELSE spoke \cup {s}
  /\ huddle' = [Filed(s, k) EXCEPT
                  !.round = IF covered /\ @ <= RoundCap THEN @ + 1 ELSE @]
  /\ UNCHANGED <<ticketVars, phase, lane, recon, children>>

LinkReconNote ==
  /\ ~recon /\ recon' = TRUE
  /\ UNCHANGED <<ticketVars, phase, lane, huddle, rosterVars, children>>

-----------------------------------------------------------------------------
(* The watchdog, and the clock it reads.                                   *)

TimeboxPasses ==
  /\ huddle.status # "none" /\ ~huddle.due
  /\ huddle' = [huddle EXCEPT !.due = TRUE]
  /\ UNCHANGED <<ticketVars, phase, lane, rosterVars, recon, children>>

Working == status = "in_progress" /\ ~held
Overdue == huddle.status = "open" /\ (huddle.due \/ huddle.round > huddle.cap)

(* Mutant: it looks at the rounds only.                                    *)
Trips_Rounds == huddle.status = "open" /\ huddle.round > huddle.cap /\ ~huddle.paused /\ Working
Trips == Overdue /\ ~huddle.paused /\ Working

Watchdog ==
  /\ Trips
  /\ status' = "needs_review"
  /\ huddle' = [huddle EXCEPT !.status = "escalated"]
  /\ UNCHANGED <<held, phase, lane, rosterVars, recon, children>>

-----------------------------------------------------------------------------
(* The ticket (Board.tla has the whole of it).  A reap and a block pause   *)
(* the huddle; nothing in the repository calls resume.                     *)

Paused == IF huddle.status = "none" THEN huddle ELSE [huddle EXCEPT !.paused = TRUE]

Moves(from, to, h) ==
  /\ status = from /\ status' = to /\ huddle' = h
  /\ UNCHANGED <<held, phase, lane, rosterVars, recon, children>>

Claim == ~held /\ Moves("todo", "in_progress", huddle)
Reap == ~held /\ Moves("in_progress", "todo", Paused)
Block == Moves("in_progress", "blocked", Paused)
Hand == Moves("in_progress", "needs_review", huddle)
SendBack == Moves("needs_review", "todo", huddle) \/ Moves("blocked", "todo", huddle)

Hold ==
  /\ status = "in_progress" /\ ~held /\ held' = TRUE
  /\ UNCHANGED <<status, phase, lane, huddle, rosterVars, recon, children>>
ClearHold ==
  /\ held /\ held' = FALSE /\ status' = "todo"
  /\ UNCHANGED <<phase, lane, huddle, rosterVars, recon, children>>

-----------------------------------------------------------------------------
Deliberate ==
  \/ \E l \in Lane : Triage(l)
  \/ OpenHuddle \/ ToBacklog \/ Decompose \/ LinkReconNote
  \/ \E p \in Phase : ToPhase(p)
  \/ \E s \in Sub, k \in Kind : Statement(s, k)

Ticket == Claim \/ Reap \/ Block \/ Hand \/ SendBack \/ Hold \/ ClearHold

Next == Deliberate \/ Ticket \/ TimeboxPasses \/ Watchdog

Spec == Init /\ [][Next]_vars
(* The watchdog runs every 10 s, well within a lease of minutes: a ticket  *)
(* that is worked on again and again is looked at while it is.             *)
FairSpec == Spec /\ WF_vars(TimeboxPasses) /\ SF_vars(Watchdog)

-----------------------------------------------------------------------------
(* Every variable has its type.                                            *)
TypeOK ==
  /\ status \in {"todo", "in_progress", "blocked", "needs_review"}
  /\ held \in BOOLEAN /\ phase \in Phase /\ lane \in Lane
  /\ huddle \in [status : {"none", "open", "converged", "escalated"},
                 round : 0..(RoundCap + 1), cap : {0, LightCap, RoundCap},
                 due : BOOLEAN, paused : BOOLEAN, dissent : BOOLEAN,
                 veto : {"none", "raised", "cleared_by_ar"},
                 veto_by : Sub \cup {NoSub}, decision : BOOLEAN]
  /\ positions \subseteq Sub /\ spoke \subseteq Sub
  /\ {AR, PO} \subseteq Sub \cup {NoSub}
  /\ recon \in BOOLEAN /\ children \in BOOLEAN

(* No ticket is past the huddle, and no execution child exists, but by a   *)
(* dissent of the reviewer, grounded in a recon note, and a decision of    *)
(* the product owner, both of a full roster - however often the phases are *)
(* run through, paused, escalated or started over (ceremony.js, _guard-    *)
(* Backlog and "the ONLY path that stamps child_class='execution'").       *)
PastHuddle == phase \in {"backlog", "execute", "retro"}
ExecutionWasContested ==
  PastHuddle \/ children =>
    /\ huddle.dissent /\ huddle.decision /\ recon
    /\ {AR, PO} \subseteq positions /\ Cardinality(positions) >= MinRoster

(* A ticket past the huddle has no raised veto: none is raised later, none *)
(* slips through.                                                          *)
NoVetoPastHuddle == PastHuddle => huddle.veto # "raised"

(* A raised veto is cleared by the one who raised it and by nothing else:  *)
(* no new triage, huddle, escalation or decision of the product owner.     *)
VetoHolds ==
  [][huddle.veto = "raised" /\ huddle'.veto # "raised"
       => Statement(huddle.veto_by, "veto_clear")]_vars

(* No huddle past its timebox or rounds stays open for ever on a ticket    *)
(* that is worked on again and again, unless it was paused: the watchdog   *)
(* "fires regardless of any agent's activity" (ceremony.js), but no call   *)
(* resumes a huddle that a reap or a block has paused.                     *)
WatchedHuddlesEnd == ([]<>Working /\ <>[]~huddle.paused) => ([]<>~Overdue)
=============================================================================
