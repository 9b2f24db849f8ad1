----------------------------- MODULE VaultRedeem -----------------------------
(***************************************************************************)
(* The Vault's releases and its redeem pipeline                            *)
(* (src/apps/vault/server/src/service/redeem.js, releases.js,              *)
(* auth/introspect.js), with the parts of auth and the Board it reads.     *)
(*                                                                         *)
(* Redemptions of the Gateway run concurrently and interleave at every     *)
(* await: the introspection, the Board's facts, the two audit writes, the  *)
(* engine.  What happens between two awaits is one action.  The releases   *)
(* are those of one ticket and one handle.                                 *)
(***************************************************************************)
EXTENDS Naturals

CONSTANTS
  Release, Call, Op, NoOp, NoRelease,
  Runs,      \* bound: approvals the Board consumes for the ticket, one a run
  Cap,       \* RE_RELEASE_CAP
  Drift,     \* driftBoundMs, the age a live check may have
  Timeout,   \* clientTimeoutMs, the longest an introspection takes
  MaxTime    \* bound: the clock

ASSUME VaultAssumption ==
  /\ NoOp \notin Op /\ NoRelease \notin Release
  /\ {Runs, Cap, Drift, Timeout, MaxTime} \subseteq Nat

VARIABLES
  status, taker, reReleases,    \* the releases table
  overdue,    \* releases whose expires_at has passed
  call,       \* redemptions under way
  handed,     \* history: responses that left, per release
  run, executing, late,   \* the Board: runs so far, whether the last one is
                          \* on, and the runs consumed longer ago than W
  level, armedAt,         \* auth: the kill level, and since when
  mirror,                 \* the Vault's polled mirror of the level
  now

releaseVars == <<status, taker, reReleases, overdue>>
boardVars == <<run, executing, late>>
killVars == <<level, armedAt, mirror>>
vars == <<releaseVars, call, handed, boardVars, killVars, now>>

Level == {"G0", "G1", "G2"}
Never == MaxTime + 1
Idle == [pc |-> "idle", rel |-> NoRelease, op |-> NoOp, appr |-> 0,
         repeat |-> FALSE, drift |-> FALSE, at |-> 0]

Init ==
  /\ status = [r \in Release |-> "none"]
  /\ taker = [r \in Release |-> NoOp]
  /\ reReleases = [r \in Release |-> 0]
  /\ overdue = {}
  /\ call = [c \in Call |-> Idle]
  /\ handed = [r \in Release |-> 0]
  /\ run = 0 /\ executing = FALSE /\ late = {}
  /\ level = "G0" /\ armedAt = [l \in Level |-> IF l = "G0" THEN 0 ELSE Never]
  /\ mirror = "G0"
  /\ now = 0

-----------------------------------------------------------------------------
(* Releases (service/releases.js).                                         *)

Pending == {r \in Release : status[r] = "pending"}

(* requestRelease, after its await: a pending release of the ticket and    *)
(* the handle is returned as it is.                                        *)
RequestRelease(r) ==
  /\ status[r] = "none" /\ Pending = {}
  /\ status' = [status EXCEPT ![r] = "pending"]
  /\ UNCHANGED <<taker, reReleases, overdue, call, handed, boardVars, killVars, now>>

Close(S, why) ==
  /\ status' = [r \in Release |-> IF r \in S THEN why ELSE status[r]]
  /\ UNCHANGED <<taker, reReleases, overdue, handed, boardVars, killVars, now>>

RevokeById(r) == r \in Pending /\ Close({r}, "revoked") /\ UNCHANGED call
RevokeByTicket == Pending # {} /\ Close(Pending, "revoked") /\ UNCHANGED call
SweepExpired ==
  /\ Pending \cap overdue # {}
  /\ Close(Pending \cap overdue, "expired") /\ UNCHANGED call

(* A crash ends the calls; the cold start revokes what is pending.         *)
ColdStart ==
  /\ Close(Pending, "revoked")
  /\ call' = [c \in Call |-> Idle]

-----------------------------------------------------------------------------
(* The pipeline (service/redeem.js).                                       *)

IsRepeat(r, o) == status[r] = "redeemed" /\ taker[r] = o

(* The live check up to its await: the mirror, then the question to auth.  *)
Ask(c, k) ==
  /\ mirror = "G0"
  /\ call' = [call EXCEPT ![c] = [k EXCEPT !.pc = "asked", !.at = now]]

(* Steps 0 to 8, on the release read here and never again.                 *)
Begin(c, r, o, a) ==
  /\ call[c].pc = "idle"
  /\ (status[r] = "pending" /\ r \notin overdue) \/ IsRepeat(r, o)
  /\ Ask(c, [Idle EXCEPT !.rel = r, !.op = o, !.appr = a, !.repeat = IsRepeat(r, o)])
  /\ UNCHANGED <<releaseVars, handed, boardVars, killVars, now>>

(* getRelease expires an overdue release as it reads it.                   *)
BeginOverdue(r) ==
  /\ r \in Pending \cap overdue
  /\ Close({r}, "expired") /\ UNCHANGED call

StepTo(c, pc) ==
  /\ call' = [call EXCEPT ![c].pc = pc]
  /\ UNCHANGED <<releaseVars, handed, boardVars, killVars, now>>

(* Any await may fail, and any check refuse: a denial.                     *)
Refuse(c) ==
  /\ call[c].pc # "idle"
  /\ call' = [call EXCEPT ![c] = Idle]
  /\ UNCHANGED <<releaseVars, handed, boardVars, killVars, now>>

(* auth's introspection consults the kill switch: only G2 makes the token  *)
(* inactive (consult_denylist).                                            *)
AuthAnswers(c) == call[c].pc = "asked" /\ level # "G2" /\ StepTo(c, "answered")

(* The answer arrives in time; the timestamp is taken here.  The first     *)
(* check leads to the Board, the repeated one to the engine.               *)
LiveOk(c) ==
  /\ call[c].pc = "answered" /\ now - call[c].at <= Timeout
  /\ call' = [call EXCEPT ![c].at = now,
                          ![c].pc = IF call[c].drift THEN "engine" ELSE "facts"]
  /\ UNCHANGED <<releaseVars, handed, boardVars, killVars, now>>

(* Step 9: a first redemption is bound to the window W, a repeat to a run  *)
(* that is on, which takes a second read.                                  *)
FactsRead(c) ==
  /\ call[c].pc = "facts" /\ call[c].appr \in 1..run
  /\ IF call[c].repeat THEN executing /\ StepTo(c, "lock")
     ELSE call[c].appr \notin late /\ StepTo(c, "attempt")

LockRead(c) == call[c].pc = "lock" /\ executing /\ StepTo(c, "attempt")

(* Mutant: the live check of before the awaits is good enough.             *)
CheckedRecently_Always(k) == k.at <= now
CheckedRecently(k) == now - k.at <= Drift

MayRepeat(r) == reReleases[r] < Cap

(* The attempt is on record (steps 10 to 12): count a repeat, then look at *)
(* the age of the live check.                                              *)
AttemptLogged(c) ==
  LET k == call[c] IN
  /\ k.pc = "attempt"
  /\ k.repeat => MayRepeat(k.rel)
  /\ reReleases' = IF k.repeat THEN [reReleases EXCEPT ![k.rel] = @ + 1] ELSE reReleases
  /\ IF CheckedRecently(k) THEN call' = [call EXCEPT ![c].pc = "engine"]
     ELSE Ask(c, [k EXCEPT !.drift = TRUE])
  /\ UNCHANGED <<status, taker, overdue, handed, boardVars, killVars, now>>

(* The same, when the mirror refuses the second live check.                *)
AttemptRefused(c) ==
  LET k == call[c] IN
  /\ k.pc = "attempt" /\ k.repeat /\ MayRepeat(k.rel)
  /\ ~CheckedRecently(k) /\ mirror # "G0"
  /\ reReleases' = [reReleases EXCEPT ![k.rel] = @ + 1]
  /\ call' = [call EXCEPT ![c] = Idle]
  /\ UNCHANGED <<status, taker, overdue, handed, boardVars, killVars, now>>

(* Mutant: the swap only refuses a lost race.                              *)
SwapWins_UnlessRedeemed(r) == status[r] # "redeemed"
SwapWins(r) == status[r] = "pending"

(* Step 13, the engine is done and the outcome on record: a first          *)
(* redemption swaps pending for redeemed and answers if it wins; a repeat  *)
(* answers.                                                                *)
Respond(c) ==
  LET k == call[c] IN
  /\ k.pc = "engine"
  /\ k.repeat \/ SwapWins(k.rel)
  /\ status' = [status EXCEPT ![k.rel] = "redeemed"]
  /\ taker' = [taker EXCEPT ![k.rel] = k.op]
  /\ handed' = [handed EXCEPT ![k.rel] = @ + 1]
  /\ call' = [call EXCEPT ![c] = Idle]
  /\ UNCHANGED <<reReleases, overdue, boardVars, killVars, now>>

-----------------------------------------------------------------------------
(* The Board, auth and time.                                               *)

RunStarts ==
  /\ ~executing /\ run < Runs
  /\ run' = run + 1 /\ executing' = TRUE
  /\ UNCHANGED <<late, releaseVars, call, handed, killVars, now>>
RunEnds ==
  /\ executing /\ executing' = FALSE
  /\ UNCHANGED <<run, late, releaseVars, call, handed, killVars, now>>
WindowPasses ==
  /\ late # 1..run /\ late' = 1..run
  /\ UNCHANGED <<run, executing, releaseVars, call, handed, killVars, now>>

Arm(l) ==
  /\ <<level, l>> \in {<<"G0", "G1">>, <<"G0", "G2">>, <<"G1", "G2">>}
  /\ level' = l
  /\ armedAt' = [armedAt EXCEPT ![l] = now]
  /\ UNCHANGED <<mirror, releaseVars, call, handed, boardVars, now>>
Poll ==
  /\ mirror # level /\ mirror' = level
  /\ UNCHANGED <<level, armedAt, releaseVars, call, handed, boardVars, now>>

Tick ==
  /\ now < MaxTime /\ now' = now + 1
  /\ UNCHANGED <<releaseVars, call, handed, boardVars, killVars>>
TtlPasses(r) ==
  /\ status[r] = "pending" /\ r \notin overdue
  /\ overdue' = overdue \cup {r}
  /\ UNCHANGED <<status, taker, reReleases, call, handed, boardVars, killVars, now>>

-----------------------------------------------------------------------------
Pipeline(c) ==
  \/ \E r \in Release, o \in Op, a \in 1..Runs : Begin(c, r, o, a)
  \/ Refuse(c) \/ AuthAnswers(c) \/ LiveOk(c) \/ FactsRead(c) \/ LockRead(c)
  \/ AttemptLogged(c) \/ AttemptRefused(c) \/ Respond(c)

Releases ==
  \/ \E r \in Release : RequestRelease(r) \/ RevokeById(r) \/ BeginOverdue(r)
  \/ RevokeByTicket \/ SweepExpired \/ ColdStart

World ==
  \/ RunStarts \/ RunEnds \/ WindowPasses \/ Poll \/ Tick
  \/ \E l \in Level : Arm(l)
  \/ \E r \in Release : TtlPasses(r)

Next == Releases \/ World \/ \E c \in Call : Pipeline(c)

Spec == Init /\ [][Next]_vars

-----------------------------------------------------------------------------
(* Every variable has its type.                                            *)
TypeOK ==
  /\ status \in [Release -> {"none", "pending", "redeemed", "expired", "revoked"}]
  /\ taker \in [Release -> Op \cup {NoOp}]
  /\ reReleases \in [Release -> 0..Cap]
  /\ overdue \subseteq Release
  /\ call \in [Call -> [pc : {"idle", "asked", "answered", "facts", "lock",
                              "attempt", "engine"},
                        rel : Release \cup {NoRelease}, op : Op \cup {NoOp},
                        appr : 0..Runs, repeat : BOOLEAN, drift : BOOLEAN, at : 0..MaxTime]]
  /\ handed \in [Release -> 0..(Cap + 1)]
  /\ run \in 0..Runs /\ executing \in BOOLEAN /\ late \subseteq 1..Runs
  /\ level \in Level /\ mirror \in Level
  /\ armedAt \in [Level -> 0..Never] /\ now \in 0..MaxTime

(* However redemptions, repeats, revokes, expiries and restarts interleave *)
(* with the awaits of the pipeline, the releases are one-shot releases:    *)
(* redeem.js, "release CAS pending -> redeemed (single-use); ONLY then the *)
(* response leaves", and its re-release cap.                               *)
OneShot == INSTANCE OneShotRelease
OneShotSpec == OneShot!Spec

EngineStarts(c) == call[c].pc # "engine" /\ call'[c].pc = "engine"
ArmedFor(l) == IF armedAt[l] = Never THEN 0 ELSE now - armedAt[l]

(* A quiesce stops the hands: the engine is never asked for a secret once  *)
(* G2 has been in force for longer than the drift bound and one            *)
(* introspection.  (auth-apps-tokens-scopes.md section 8 step 8.)          *)
QuiesceStopsEngine ==
  [][\A c \in Call : EngineStarts(c) => ArmedFor("G2") <= Drift + Timeout]_vars
=============================================================================
