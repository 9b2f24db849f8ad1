-------------------------- MODULE CompositionSafety --------------------------
(***************************************************************************)
(* What is built over the whole of the Board.  The Gateway: both together  *)
(* still are the Board, one run per host, one dispatched run per approval, *)
(* for any number of runs, hosts, tickets and op_ids.  Restarts and        *)
(* restores: whatever is lost, tokens and approvals that are spent stay    *)
(* spent, and locks and tickets agree.                                     *)
(***************************************************************************)
EXTENDS BoardGateway, BoardRestore, BoardSafety, WellFoundedInduction

-----------------------------------------------------------------------------
(* The Gateway over the Board.                                             *)

(* From the facts read on, a run names an approval and a host.             *)
RowsBound ==
  \A r \in Run :
    /\ run[r].phase # "unused" => run[r].ticket \in Ticket /\ run[r].op \in Op
    /\ run[r].phase \in {"checked"} \cup InFlight =>
         run[r].approval \in Approval /\ HostOfRun(r) \in Host

GatewayInv == GatewayTypeOK /\ RowsBound

(* Phase sets, expanded.                                                   *)
LEMMA Phases ==
  /\ Preflight = {"preflight", "checked"}
  /\ InFlight = {"consumed", "fenced", "locked", "redeemed", "executing"}
  /\ Phase = {"preflight", "checked", "consumed", "fenced", "locked", "redeemed",
              "executing", "unused", "rejected", "failed", "reported", "dead"}
BY DEF Preflight, InFlight, Burned, Phase

(* A run moves to phase p and keeps the rest of its row.                   *)
LEMMA MovesRow ==
  ASSUME GatewayInv, NEW r \in Run, NEW p \in Phase, Moves(r, p),
         run[r].phase # "unused",
         p \in {"checked"} \cup InFlight => run[r].phase \in {"checked"} \cup InFlight
  PROVE  /\ run' \in [Run -> RunRow] /\ RowsBound'
         /\ \A s \in Run \ {r} : run'[s] = run[s]
         /\ run'[r] = [run[r] EXCEPT !.phase = p]
<1>1. run'[r] = [run[r] EXCEPT !.phase = p] /\ \A s \in Run \ {r} : run'[s] = run[s]
  BY DEF Moves, GatewayInv, GatewayTypeOK
<1>2. run' \in [Run -> RunRow]
  BY DEF Moves, GatewayInv, GatewayTypeOK, RunRow
<1>3. /\ run[r] \in RunRow
      /\ run'[r].phase = p /\ run'[r].ticket = run[r].ticket
      /\ run'[r].op = run[r].op /\ run'[r].approval = run[r].approval
  BY <1>1 DEF GatewayInv, GatewayTypeOK, RunRow
<1>4. RowsBound'
  <2> SUFFICES ASSUME NEW s \in Run
               PROVE  /\ run'[s].phase # "unused" =>
                           run'[s].ticket \in Ticket /\ run'[s].op \in Op
                      /\ run'[s].phase \in {"checked"} \cup InFlight =>
                           /\ run'[s].approval \in Approval
                           /\ HostOf[run'[s].ticket] \in Host
    BY DEF RowsBound, HostOfRun
  <2>1. CASE s = r
    BY <1>3, <2>1 DEF GatewayInv, RowsBound, HostOfRun
  <2>2. CASE s # r
    BY <1>1, <2>2 DEF GatewayInv, RowsBound, HostOfRun
  <2>3. QED
    BY <2>1, <2>2
<1>5. QED
  BY <1>1, <1>2, <1>4

(* Letting go of a mutex takes it from nobody else.                        *)
LEMMA ReleaseMutexTyped ==
  ASSUME GatewayTypeOK, NEW r \in Run, ReleaseMutex(r)
  PROVE  /\ mutex' \in [Host -> Run \cup {NoRun}]
         /\ \A h \in Host : mutex[h] # r => mutex'[h] = mutex[h]
BY DEF GatewayTypeOK, ReleaseMutex

(* No run is used yet.                                                     *)
LEMMA GatewayInitInv == SysInit => GatewayInv
<1> SUFFICES ASSUME SysInit PROVE GatewayInv
  OBVIOUS
<1>1. NewRow \in RunRow /\ NewRow.phase = "unused"
  BY Phases DEF NewRow, RunRow, NoToken
<1>2. \A r \in Run : run[r].phase = "unused"
  BY <1>1 DEF SysInit, GatewayInit
<1>3. GatewayTypeOK
  BY <1>1 DEF SysInit, GatewayInit, GatewayTypeOK
<1>4. QED
  BY <1>2, <1>3, Phases DEF GatewayInv, RowsBound

(* Every step keeps the types and the names of the rows.                   *)
LEMMA GatewayStepInv ==
  TypeInv /\ GatewayInv /\ [SysNext]_sysVars => GatewayInv'
<1> SUFFICES ASSUME TypeInv, GatewayInv, [SysNext]_sysVars PROVE GatewayInv'
  OBVIOUS
<1>T. GatewayTypeOK /\ RowsBound
  BY DEF GatewayInv
<1>1. CASE UNCHANGED gatewayVars
  BY <1>1, <1>T DEF gatewayVars, GatewayInv, GatewayTypeOK, RowsBound, HostOfRun
<1>2. ASSUME NEW r \in Run, NEW t \in Ticket, NEW o \in Op, Begin(r, t, o)
      PROVE  GatewayInv'
  <2>1. [NewRow EXCEPT !.phase = "preflight", !.ticket = t, !.op = o] \in RunRow
    BY Phases DEF NewRow, RunRow, NoToken
  <2>2. run' \in [Run -> RunRow] /\ \A s \in Run \ {r} : run'[s] = run[s]
    BY <1>2, <1>T, <2>1 DEF Begin, GatewayTypeOK
  <2>3. /\ run'[r].phase = "preflight" /\ run'[r].ticket = t /\ run'[r].op = o
    BY <1>2, <1>T DEF Begin, GatewayTypeOK, NewRow
  <2>4. GatewayTypeOK'
    BY <1>2, <1>T, <2>2 DEF Begin, GatewayTypeOK
  <2>5. RowsBound'
    BY <1>T, <2>2, <2>3, Phases DEF RowsBound, HostOfRun
  <2>6. QED
    BY <2>4, <2>5 DEF GatewayInv
<1>3. ASSUME NEW r \in Run, ReadFacts(r) PROVE GatewayInv'
  <2>1. run[r] \in RunRow /\ run[r].ticket \in Ticket /\ run[r].op \in Op
    BY <1>3, <1>T DEF ReadFacts, GatewayTypeOK, RowsBound
  <2>2. approvalId[run[r].ticket] \in Approval
    BY <1>3, <2>1 DEF ReadFacts, TypeInv, TypeOK
  <2>3. run' \in [Run -> RunRow] /\ \A s \in Run \ {r} : run'[s] = run[s]
    BY <1>3, <1>T, <2>1, <2>2, Phases DEF ReadFacts, GatewayTypeOK, RunRow
  <2>4. /\ run'[r].phase = "checked" /\ run'[r].approval \in Approval
        /\ run'[r].ticket = run[r].ticket /\ run'[r].op = run[r].op
        /\ HostOf[run[r].ticket] \in Host
    BY <1>3, <1>T, <2>1, <2>2 DEF ReadFacts, GatewayTypeOK, RunRow
  <2>5. GatewayTypeOK'
    BY <1>3, <1>T, <2>3 DEF ReadFacts, GatewayTypeOK
  <2>6. RowsBound'
    BY <1>T, <2>1, <2>3, <2>4 DEF RowsBound, HostOfRun
  <2>7. QED
    BY <2>5, <2>6 DEF GatewayInv
<1>4. ASSUME NEW r \in Run, NEW answer \in {"received", "lost"}, ConsumeApproval(r, answer)
      PROVE  GatewayInv'
  <2> DEFINE token == lockGen[HostOfRun(r)] + 1
             p == IF answer = "lost" THEN "rejected" ELSE "consumed"
  <2>1. /\ run[r] \in RunRow /\ run[r].ticket \in Ticket /\ run[r].op \in Op
        /\ run[r].approval \in Approval /\ HostOfRun(r) \in Host
    BY <1>4, <1>T DEF ConsumeApproval, GatewayTypeOK, RowsBound
  <2>2. token \in Nat
    BY <2>1 DEF TypeInv, TypeOK, Resource
  <2>3. p \in Phase /\ p # "unused" /\ p # "checked"
    BY Phases
  <2>4. /\ run' = [run EXCEPT ![r].phase = p,
                              ![r].token = IF answer = "lost" THEN @ ELSE token]
        /\ served' = served \cup
             {[op |-> run[r].op, approval |-> run[r].approval, token |-> token]}
        /\ UNCHANGED <<mutex, fence, answered, redeemed, ran>>
    BY <1>4 DEF ConsumeApproval
  <2> HIDE DEF token, p
  <2>5. run' \in [Run -> RunRow] /\ \A s \in Run \ {r} : run'[s] = run[s]
    BY <1>T, <2>1, <2>2, <2>3, <2>4 DEF GatewayTypeOK, RunRow
  <2>6. /\ run'[r].phase = p /\ run'[r].ticket = run[r].ticket
        /\ run'[r].op = run[r].op /\ run'[r].approval = run[r].approval
    BY <1>T, <2>1, <2>4 DEF GatewayTypeOK, RunRow
  <2>7. GatewayTypeOK'
    BY <1>T, <2>1, <2>2, <2>4, <2>5 DEF GatewayTypeOK, Serving
  <2>8. RowsBound'
    BY <1>T, <2>1, <2>5, <2>6 DEF RowsBound, HostOfRun
  <2>9. QED
    BY <2>7, <2>8 DEF GatewayInv
<1>5. ASSUME NEW r \in Run, ConsumeReplayed(r) PROVE GatewayInv'
  <2>1. PICK s \in served :
          run' = [run EXCEPT ![r].phase = "consumed", ![r].token = s.token]
    BY <1>5 DEF ConsumeReplayed
  <2>2. /\ run[r] \in RunRow /\ s.token \in Nat
        /\ run[r].ticket \in Ticket /\ run[r].op \in Op
        /\ run[r].approval \in Approval /\ HostOfRun(r) \in Host
    BY <1>5, <1>T DEF ConsumeReplayed, GatewayTypeOK, RowsBound, Serving
  <2>3. run' \in [Run -> RunRow] /\ \A q \in Run \ {r} : run'[q] = run[q]
    BY <1>T, <2>1, <2>2, Phases DEF GatewayTypeOK, RunRow
  <2>4. /\ run'[r].phase = "consumed" /\ run'[r].ticket = run[r].ticket
        /\ run'[r].op = run[r].op /\ run'[r].approval = run[r].approval
    BY <1>T, <2>1, <2>2 DEF GatewayTypeOK, RunRow
  <2>5. GatewayTypeOK'
    BY <1>5, <1>T, <2>3 DEF ConsumeReplayed, GatewayTypeOK
  <2>6. RowsBound'
    BY <1>T, <2>2, <2>3, <2>4 DEF RowsBound, HostOfRun
  <2>7. QED
    BY <2>5, <2>6 DEF GatewayInv
<1>6. ASSUME NEW r \in Run, CheckFencing(r) PROVE GatewayInv'
  <2>1. run' \in [Run -> RunRow] /\ RowsBound'
    BY <1>6, MovesRow, Phases DEF CheckFencing
  <2>2. QED
    BY <1>6, <1>T, <2>1 DEF CheckFencing, GatewayInv, GatewayTypeOK
<1>7. ASSUME NEW r \in Run, AcquireMutex(r) PROVE GatewayInv'
  <2>1. run' \in [Run -> RunRow] /\ RowsBound'
    BY <1>7, MovesRow, Phases DEF AcquireMutex
  <2>2. mutex' \in [Host -> Run \cup {NoRun}]
    BY <1>7, <1>T DEF AcquireMutex, GatewayTypeOK
  <2>3. QED
    BY <1>7, <1>T, <2>1, <2>2 DEF AcquireMutex, GatewayInv, GatewayTypeOK
<1>8. ASSUME NEW r \in Run, NEW answer \in {"received", "lost"}, Redeem(r, answer)
      PROVE  GatewayInv'
  <2>1. /\ run[r].phase = "locked" /\ run[r].approval \in Approval
        /\ \/ Moves(r, "failed") /\ ReleaseMutex(r)
           \/ Moves(r, "redeemed") /\ UNCHANGED mutex
    BY <1>8, <1>T, Phases DEF Redeem, RowsBound
  <2>2. run' \in [Run -> RunRow] /\ RowsBound'
    BY <2>1, MovesRow, Phases
  <2>3. mutex' \in [Host -> Run \cup {NoRun}]
    BY <1>T, <2>1, ReleaseMutexTyped DEF GatewayTypeOK
  <2>4. QED
    BY <1>8, <1>T, <2>1, <2>2, <2>3 DEF Redeem, GatewayInv, GatewayTypeOK
<1>9. ASSUME NEW r \in Run, Dispatch(r) PROVE GatewayInv'
  <2>1. run' \in [Run -> RunRow] /\ RowsBound'
    BY <1>9, MovesRow, Phases DEF Dispatch
  <2>2. run[r].token \in Nat
    BY <1>T DEF GatewayTypeOK, RunRow
  <2>3. fence' \in [Host -> Nat]
    BY <1>9, <1>T, <2>2 DEF Dispatch, GatewayTypeOK
  <2>4. QED
    BY <1>9, <1>T, <2>1, <2>3 DEF Dispatch, GatewayInv, GatewayTypeOK
<1>10. ASSUME NEW r \in Run, Report(r) \/ Reject(r) \/ Die(r) PROVE GatewayInv'
  <2>1. /\ run[r].phase # "unused"
        /\ \E p \in {"reported", "rejected", "failed", "dead"} : Moves(r, p)
        /\ ReleaseMutex(r)
        /\ answered' = answered \/ answered' = answered \cup {run[r].op}
        /\ UNCHANGED <<fence, served, redeemed, ran>>
    BY <1>10, Phases DEF Report, Reject, Die, Burned
  <2>2. run' \in [Run -> RunRow] /\ RowsBound'
    BY <2>1, MovesRow, Phases
  <2>3. run[r].op \in Op
    BY <1>T, <2>1 DEF RowsBound
  <2>4. QED
    BY <1>T, <2>1, <2>2, <2>3, ReleaseMutexTyped DEF GatewayInv, GatewayTypeOK
<1>11. CASE BoardStep
  BY <1>1, <1>11 DEF BoardStep
<1>12. CASE UNCHANGED sysVars
  BY <1>1, <1>12 DEF sysVars
<1>13. QED
  BY <1>2, <1>3, <1>4, <1>5, <1>6, <1>7, <1>8, <1>9, <1>10, <1>11, <1>12
     DEF SysNext, RunStep

(* A step of the composition is a step of the Board, or leaves it alone.   *)
LEMMA SysStepIsBoardStep ==
  GatewayInv /\ [SysNext]_sysVars => [Next]_vars
<1> SUFFICES ASSUME GatewayInv, [SysNext]_sysVars PROVE [Next]_vars
  OBVIOUS
<1>1. CASE BoardStep
  BY <1>1 DEF BoardStep, Next
<1>2. ASSUME NEW r \in Run, NEW answer \in {"received", "lost"}, ConsumeApproval(r, answer)
      PROVE  Next
  <2>1. run[r].approval \in Approval
    BY <1>2 DEF ConsumeApproval, GatewayInv, RowsBound
  <2>2. QED
    BY <1>2, <2>1 DEF ConsumeApproval, GatewayCall, Next
<1>3. ASSUME NEW r \in Run, NEW answer \in {"received", "lost"},
             \/ ReadFacts(r) \/ ConsumeReplayed(r) \/ CheckFencing(r) \/ AcquireMutex(r)
             \/ Dispatch(r) \/ Report(r) \/ Reject(r) \/ Die(r) \/ Redeem(r, answer)
      PROVE  UNCHANGED vars
  BY <1>3 DEF ReadFacts, ConsumeReplayed, CheckFencing, AcquireMutex, Dispatch,
              Report, Reject, Die, Redeem
<1>4. ASSUME NEW r \in Run, NEW t \in Ticket, NEW o \in Op, Begin(r, t, o)
      PROVE  UNCHANGED vars
  BY <1>4 DEF Begin
<1>5. CASE UNCHANGED sysVars
  BY <1>5 DEF sysVars
<1>6. QED
  BY <1>1, <1>2, <1>3, <1>4, <1>5 DEF SysNext, RunStep

(* The Gateway only ever drives the Board as its handlers allow: every     *)
(* behaviour of the two is one of the Board, so TypeCorrect, NeverDesync,  *)
(* ReleasedTokensDie and the other theorems about Spec hold here too.      *)
THEOREM SysImplementsBoard == SysSpec => Spec /\ []TypeInv /\ []GatewayInv
<1>1. SysInit => Init /\ TypeInv /\ GatewayInv
  BY TypeInit, GatewayInitInv DEF SysInit
<1>2. TypeInv /\ GatewayInv /\ [SysNext]_sysVars => TypeInv' /\ GatewayInv'
  BY TypeStep, GatewayStepInv, SysStepIsBoardStep
<1>3. GatewayInv /\ [SysNext]_sysVars => [Next]_vars
  BY SysStepIsBoardStep
<1>4. QED
  BY <1>1, <1>2, <1>3, PTL DEF SysSpec, Spec

-----------------------------------------------------------------------------
(* A run from its lock to its report is the holder of its host's mutex.    *)
MutexInv ==
  \A r \in Run : run[r].phase \in HoldsMutex => mutex[HostOfRun(r)] = r

(* A run that has its credential, or had it, used up the release of its    *)
(* approval, and no other run did.                                         *)
Spent(r) == run[r].phase = "redeemed" \/ r \in ran
ReleaseInv ==
  /\ \A r \in ran : run[r].phase \in {"executing", "reported", "dead"}
  /\ \A r \in Run : run[r].phase = "executing" => r \in ran
  /\ \A r \in Run : Spent(r) => run[r].approval \in redeemed
  /\ \A r, s \in Run :
       Spent(r) /\ Spent(s) /\ run[r].approval = run[s].approval => r = s

(* What a step does to the row of the run that takes it, and to nobody     *)
(* else's.                                                                 *)
LEMMA OneRowMoves ==
  ASSUME GatewayInv, NEW r \in Run,
         \/ \E t \in Ticket, o \in Op : Begin(r, t, o)
         \/ RunStep(r) \/ Die(r)
  PROVE  /\ \A s \in Run \ {r} : run'[s] = run[s]
         /\ run[r].phase \notin {"unused", "preflight"} =>
              run'[r].approval = run[r].approval /\ run'[r].ticket = run[r].ticket
<1>1. run[r] \in RunRow /\ run \in [Run -> RunRow]
  BY DEF GatewayInv, GatewayTypeOK
<1>2. ASSUME NEW t \in Ticket, NEW o \in Op, Begin(r, t, o)
      PROVE  run[r].phase = "unused" /\ \A s \in Run \ {r} : run'[s] = run[s]
  BY <1>1, <1>2 DEF Begin
<1>3. ASSUME NEW p \in Phase, Moves(r, p)
      PROVE  /\ \A s \in Run \ {r} : run'[s] = run[s]
             /\ run'[r].approval = run[r].approval /\ run'[r].ticket = run[r].ticket
  BY <1>1, <1>3 DEF Moves, RunRow
<1>4. CASE ReadFacts(r)
  BY <1>1, <1>4 DEF ReadFacts
<1>5. ASSUME NEW answer \in {"received", "lost"}, ConsumeApproval(r, answer)
      PROVE  /\ \A s \in Run \ {r} : run'[s] = run[s]
             /\ run'[r].approval = run[r].approval /\ run'[r].ticket = run[r].ticket
  BY <1>1, <1>5 DEF ConsumeApproval, RunRow
<1>6. CASE ConsumeReplayed(r)
  <2>1. PICK s \in served :
          run' = [run EXCEPT ![r].phase = "consumed", ![r].token = s.token]
    BY <1>6 DEF ConsumeReplayed
  <2>2. QED
    BY <1>1, <2>1 DEF RunRow
<1>7. CASE \/ CheckFencing(r) \/ AcquireMutex(r) \/ Dispatch(r) \/ Report(r)
           \/ Reject(r) \/ Die(r) \/ \E answer \in {"received", "lost"} : Redeem(r, answer)
  <2>1. \E p \in Phase : Moves(r, p)
    BY <1>7, Phases DEF CheckFencing, AcquireMutex, Dispatch, Report, Reject, Die, Redeem
  <2>2. QED
    BY <1>3, <2>1
<1>8. QED
  BY <1>2, <1>4, <1>5, <1>6, <1>7 DEF RunStep

(* A run that lets its mutex go, or never had it, disturbs no holder.      *)
LEMMA MutexStep ==
  GatewayInv /\ GatewayInv' /\ MutexInv /\ [SysNext]_sysVars => MutexInv'
<1> SUFFICES ASSUME GatewayInv, GatewayInv', MutexInv, [SysNext]_sysVars PROVE MutexInv'
  OBVIOUS
<1>1. CASE UNCHANGED gatewayVars
  BY <1>1 DEF gatewayVars, MutexInv, HostOfRun
<1>2. ASSUME NEW r \in Run,
             \/ \E t \in Ticket, o \in Op : Begin(r, t, o)
             \/ RunStep(r) \/ Die(r)
      PROVE  MutexInv'
  <2>1. \A s \in Run \ {r} : run'[s] = run[s]
    BY <1>2, OneRowMoves
  <2>2. ASSUME ReleaseMutex(r), run'[r].phase \notin HoldsMutex PROVE MutexInv'
    <3>1. ASSUME NEW s \in Run, run'[s].phase \in HoldsMutex
          PROVE  mutex'[HostOf[run'[s].ticket]] = s
      <4>1. s # r /\ run'[s] = run[s] /\ HostOfRun(s) \in Host
        BY <2>1, <2>2, <3>1, Phases DEF HoldsMutex, GatewayInv, RowsBound
      <4>2. mutex[HostOfRun(s)] = s
        BY <3>1, <4>1 DEF MutexInv
      <4>3. QED
        BY <2>2, <4>1, <4>2 DEF ReleaseMutex, HostOfRun
    <3>2. QED
      BY <3>1 DEF MutexInv, HostOfRun
  <2>3. ASSUME UNCHANGED mutex, run'[r].phase \notin HoldsMutex PROVE MutexInv'
    BY <2>1, <2>3 DEF MutexInv, HostOfRun
  <2>4. ASSUME UNCHANGED mutex, run[r].phase \in HoldsMutex, run'[r].ticket = run[r].ticket
        PROVE  MutexInv'
    BY <2>1, <2>4 DEF MutexInv, HostOfRun
  <2>5. CASE AcquireMutex(r)
    <3>1. /\ run[r].phase = "fenced" /\ HostOfRun(r) \in Host /\ mutex[HostOfRun(r)] = NoRun
          /\ mutex' = [mutex EXCEPT ![HostOfRun(r)] = r]
      BY <2>5, Phases DEF AcquireMutex, MutexFree, GatewayInv, RowsBound
    <3>2. run'[r].ticket = run[r].ticket
      BY <1>2, <3>1, OneRowMoves
    <3>3. ASSUME NEW s \in Run, run'[s].phase \in HoldsMutex
          PROVE  mutex'[HostOf[run'[s].ticket]] = s
      <4>1. CASE s = r
        BY <3>1, <3>2, <4>1 DEF GatewayInv, GatewayTypeOK, HostOfRun
      <4>2. CASE s # r
        <5>1. run'[s] = run[s] /\ mutex[HostOfRun(s)] = s
          BY <2>1, <3>3, <4>2 DEF MutexInv
        <5>2. HostOfRun(s) # HostOfRun(r)
          BY <3>1, <5>1, RunAssumption
        <5>3. QED
          BY <3>1, <5>1, <5>2 DEF GatewayInv, GatewayTypeOK, HostOfRun
      <4>3. QED
        BY <4>1, <4>2
    <3>4. QED
      BY <3>3 DEF MutexInv, HostOfRun
  <2>6. run \in [Run -> RunRow]
    BY DEF GatewayInv, GatewayTypeOK
  <2>7. ASSUME NEW p \in Phase, Moves(r, p) PROVE run'[r].phase = p
    BY <2>6, <2>7 DEF Moves, RunRow
  <2>8. CASE Report(r) \/ Reject(r) \/ Die(r)
    BY <2>2, <2>7, <2>8, Phases DEF Report, Reject, Die, HoldsMutex
  <2>9. CASE CheckFencing(r)
    BY <2>3, <2>7, <2>9, Phases DEF CheckFencing, HoldsMutex
  <2>10. CASE Dispatch(r)
    <3>1. run[r].phase = "redeemed" /\ UNCHANGED mutex
      BY <2>10 DEF Dispatch
    <3>2. QED
      BY <1>2, <2>4, <3>1, OneRowMoves DEF HoldsMutex
  <2>11. ASSUME NEW answer \in {"received", "lost"}, Redeem(r, answer) PROVE MutexInv'
    <3>1. CASE Moves(r, "failed") /\ ReleaseMutex(r)
      BY <2>2, <2>7, <3>1, Phases DEF HoldsMutex
    <3>2. CASE UNCHANGED mutex
      <4>1. run[r].phase = "locked"
        BY <2>11 DEF Redeem
      <4>2. QED
        BY <1>2, <2>4, <3>2, <4>1, OneRowMoves DEF HoldsMutex
    <3>3. QED
      BY <2>11, <3>1, <3>2 DEF Redeem
  <2>12. CASE ConsumeReplayed(r)
    <3>1. PICK s \in served :
            run' = [run EXCEPT ![r].phase = "consumed", ![r].token = s.token]
      BY <2>12 DEF ConsumeReplayed
    <3>2. run'[r].phase = "consumed" /\ UNCHANGED mutex
      BY <2>6, <2>12, <3>1 DEF ConsumeReplayed, RunRow
    <3>3. QED
      BY <2>3, <3>2 DEF HoldsMutex
  <2>13. ASSUME NEW answer \in {"received", "lost"}, ConsumeApproval(r, answer) PROVE MutexInv'
    <3>1. run'[r].phase \in {"rejected", "consumed"} /\ UNCHANGED mutex
      BY <2>6, <2>13 DEF ConsumeApproval, RunRow
    <3>2. QED
      BY <2>3, <3>1 DEF HoldsMutex
  <2>14. CASE ReadFacts(r)
    <3>1. run'[r].phase = "checked" /\ UNCHANGED mutex
      BY <2>6, <2>14 DEF ReadFacts, RunRow
    <3>2. QED
      BY <2>3, <3>1 DEF HoldsMutex
  <2>15. ASSUME NEW t \in Ticket, NEW o \in Op, Begin(r, t, o) PROVE MutexInv'
    <3>1. run'[r].phase = "preflight" /\ UNCHANGED mutex
      BY <2>6, <2>15 DEF Begin, NewRow
    <3>2. QED
      BY <2>3, <3>1 DEF HoldsMutex
  <2>16. QED
    BY <1>2, <2>5, <2>8, <2>9, <2>10, <2>11, <2>12, <2>13, <2>14, <2>15 DEF RunStep
<1>3. QED
  BY <1>1, <1>2 DEF SysNext, BoardStep, sysVars

(* The release of an approval is redeemed once; only then can its run be   *)
(* dispatched.                                                             *)
LEMMA ReleaseStep ==
  GatewayInv /\ GatewayInv' /\ ReleaseInv /\ [SysNext]_sysVars => ReleaseInv'
<1> SUFFICES ASSUME GatewayInv, GatewayInv', ReleaseInv, [SysNext]_sysVars PROVE ReleaseInv'
  OBVIOUS
<1>1. CASE UNCHANGED gatewayVars
  BY <1>1 DEF gatewayVars, ReleaseInv, Spent
<1>2. ASSUME NEW r \in Run,
             \/ \E t \in Ticket, o \in Op : Begin(r, t, o)
             \/ RunStep(r) \/ Die(r)
      PROVE  ReleaseInv'
  <2>1. /\ \A s \in Run \ {r} : run'[s] = run[s]
        /\ run[r].phase \notin {"unused", "preflight"} => run'[r].approval = run[r].approval
    BY <1>2, OneRowMoves
  <2>2. run \in [Run -> RunRow] /\ ran \subseteq Run /\ ran' \subseteq Run
    BY DEF GatewayInv, GatewayTypeOK
  <2>3. ASSUME NEW p \in Phase, Moves(r, p) PROVE run'[r].phase = p
    BY <2>2, <2>3 DEF Moves, RunRow
  (* A run that neither gets its credential nor is dispatched.             *)
  <2>4. ASSUME UNCHANGED ran, redeemed \subseteq redeemed',
               run'[r].phase \notin {"redeemed", "executing"},
               r \in ran => run'[r].phase \in {"reported", "dead"}
        PROVE  ReleaseInv'
    <3>1. r \in ran => run'[r].approval = run[r].approval
      BY <2>1 DEF ReleaseInv
    <3>2. \A s \in Run : Spent(s)' => Spent(s) /\ run'[s].approval = run[s].approval
      BY <2>1, <2>4, <3>1 DEF Spent
    <3>3. \A s \in ran' : run'[s].phase \in {"executing", "reported", "dead"}
      BY <2>1, <2>2, <2>4 DEF ReleaseInv
    <3>4. \A s \in Run : run'[s].phase = "executing" => s \in ran'
      BY <2>1, <2>4 DEF ReleaseInv
    <3>5. QED
      BY <2>4, <3>2, <3>3, <3>4 DEF ReleaseInv
  <2>5. ASSUME NEW answer \in {"received", "lost"}, Redeem(r, answer) PROVE ReleaseInv'
    <3>1. CASE Moves(r, "failed")
      BY <2>3, <2>4, <2>5, <3>1, Phases DEF Redeem, ReleaseInv
    <3>2. CASE Moves(r, "redeemed")
      <4>1. /\ run[r].phase = "locked" /\ run[r].approval \notin redeemed
            /\ redeemed' = redeemed \cup {run[r].approval} /\ ran' = ran
            /\ run'[r].phase = "redeemed" /\ run'[r].approval = run[r].approval
        BY <2>1, <2>3, <2>5, <3>2, Phases DEF Redeem, ReleasePending
      <4>2. r \notin ran
        BY <4>1 DEF ReleaseInv
      <4>3. \A s \in Run \ {r} : Spent(s)' => /\ Spent(s) /\ run'[s].approval = run[s].approval
                                              /\ run'[s].approval # run[r].approval
        BY <2>1, <4>1 DEF Spent, ReleaseInv
      <4>4. \A s \in Run : Spent(s)' => run'[s].approval \in redeemed'
        BY <4>1, <4>3 DEF ReleaseInv
      <4>5. \A s, q \in Run :
              Spent(s)' /\ Spent(q)' /\ run'[s].approval = run'[q].approval => s = q
        BY <4>1, <4>3 DEF ReleaseInv
      <4>6. /\ \A s \in ran' : run'[s].phase \in {"executing", "reported", "dead"}
            /\ \A s \in Run : run'[s].phase = "executing" => s \in ran'
        BY <2>1, <2>2, <4>1, <4>2 DEF ReleaseInv
      <4>7. QED
        BY <4>4, <4>5, <4>6 DEF ReleaseInv
    <3>3. QED
      BY <2>5, <3>1, <3>2 DEF Redeem
  <2>6. CASE Dispatch(r)
    <3>1. /\ run[r].phase = "redeemed" /\ run'[r].phase = "executing"
          /\ run'[r].approval = run[r].approval
          /\ ran' = ran \cup {r} /\ redeemed' = redeemed
      BY <2>1, <2>3, <2>6, Phases DEF Dispatch
    <3>2. \A s \in Run : Spent(s)' => Spent(s) /\ run'[s].approval = run[s].approval
      BY <2>1, <3>1 DEF Spent
    <3>3. /\ \A s \in ran' : run'[s].phase \in {"executing", "reported", "dead"}
          /\ \A s \in Run : run'[s].phase = "executing" => s \in ran'
      BY <2>1, <2>2, <3>1 DEF ReleaseInv
    <3>4. QED
      BY <3>1, <3>2, <3>3 DEF ReleaseInv
  <2>7. CASE Report(r) \/ Reject(r) \/ Die(r)
    <3>1. /\ UNCHANGED <<ran, redeemed>>
          /\ run'[r].phase \in {"reported", "rejected", "failed", "dead"}
          /\ run[r].phase \in {"executing", "reported", "dead"} =>
               run'[r].phase \in {"reported", "dead"}
      BY <2>3, <2>7, Phases DEF Report, Reject, Die, Burned
    <3>2. QED
      BY <2>4, <3>1 DEF ReleaseInv
  <2>8. CASE CheckFencing(r) \/ AcquireMutex(r)
    <3>1. /\ UNCHANGED <<ran, redeemed>> /\ run[r].phase \in {"consumed", "fenced"}
          /\ run'[r].phase \in {"fenced", "locked"}
      BY <2>3, <2>8, Phases DEF CheckFencing, AcquireMutex
    <3>2. QED
      BY <2>4, <3>1 DEF ReleaseInv
  <2>9. CASE ConsumeReplayed(r)
    <3>1. PICK s \in served :
            run' = [run EXCEPT ![r].phase = "consumed", ![r].token = s.token]
      BY <2>9 DEF ConsumeReplayed
    <3>2. /\ UNCHANGED <<ran, redeemed>> /\ run[r].phase = "checked"
          /\ run'[r].phase = "consumed"
      BY <2>2, <2>9, <3>1 DEF ConsumeReplayed, RunRow
    <3>3. QED
      BY <2>4, <3>2 DEF ReleaseInv
  <2>10. ASSUME NEW answer \in {"received", "lost"}, ConsumeApproval(r, answer)
         PROVE  ReleaseInv'
    <3>1. /\ UNCHANGED <<ran, redeemed>> /\ run[r].phase = "checked"
          /\ run'[r].phase \in {"rejected", "consumed"}
      BY <2>2, <2>10 DEF ConsumeApproval, RunRow
    <3>2. QED
      BY <2>4, <3>1 DEF ReleaseInv
  <2>11. CASE ReadFacts(r)
    <3>1. /\ UNCHANGED <<ran, redeemed>> /\ run[r].phase = "preflight"
          /\ run'[r].phase = "checked"
      BY <2>2, <2>11 DEF ReadFacts, RunRow
    <3>2. QED
      BY <2>4, <3>1 DEF ReleaseInv
  <2>12. ASSUME NEW t \in Ticket, NEW o \in Op, Begin(r, t, o) PROVE ReleaseInv'
    <3>1. /\ UNCHANGED <<ran, redeemed>> /\ run[r].phase = "unused"
          /\ run'[r].phase = "preflight"
      BY <2>2, <2>12 DEF Begin, NewRow
    <3>2. QED
      BY <2>4, <3>1 DEF ReleaseInv
  <2>13. QED
    BY <1>2, <2>5, <2>6, <2>7, <2>8, <2>9, <2>10, <2>11, <2>12 DEF RunStep
<1>3. QED
  BY <1>1, <1>2 DEF SysNext, BoardStep, sysVars

(* No run holds a mutex or has redeemed an approval yet.                   *)
LEMMA SafetyInit == SysInit => MutexInv /\ ReleaseInv
<1> SUFFICES ASSUME SysInit PROVE MutexInv /\ ReleaseInv
  OBVIOUS
<1>1. ran = {} /\ \A r \in Run : run[r].phase = "unused"
  BY DEF SysInit, GatewayInit, NewRow
<1>2. QED
  BY <1>1 DEF MutexInv, ReleaseInv, Spent, HoldsMutex

(* Whatever is retried, lost or refused, and whenever a run dies, no two   *)
(* runs are between the mutex and the report of one host.                  *)
THEOREM HostsAreExclusive == SysSpec => []OneRunPerHost
<1>1. MutexInv => OneRunPerHost
  BY DEF MutexInv, OneRunPerHost
<1>2. QED
  BY <1>1, SafetyInit, MutexStep, SysImplementsBoard, PTL DEF SysSpec

(* No approval is ever behind two dispatched runs: where the Board's       *)
(* answer is replayed, the single-use release decides.                     *)
THEOREM ApprovalsRunOnce == SysSpec => []OneRunPerApproval
<1>1. GatewayInv /\ ReleaseInv => OneRunPerApproval
  BY DEF ReleaseInv, OneRunPerApproval, Spent, GatewayInv, GatewayTypeOK
<1>2. QED
  BY <1>1, SafetyInit, ReleaseStep, SysImplementsBoard, PTL DEF SysSpec

-----------------------------------------------------------------------------
(* The Board stands behind a run.                                          *)

(* What the Board answered to a consume is still so: the approval is       *)
(* spent, and unless an outage-hold clear forced it back its ticket        *)
(* executes under that approval and token.                                 *)
StandsBehind(s) ==
  /\ appr[s.approval].status = "consumed"
  /\ LET t == appr[s.approval].ticket
     IN t \notin forced =>
          /\ status[t] = "executing" /\ approvalId[t] = s.approval
          /\ lockTicket[HostOf[t]] = t /\ lockAgent[HostOf[t]] = Gateway
          /\ lockGen[HostOf[t]] = s.token

(* A run goes by an answer the Board gave for the approval of its ticket,  *)
(* its own answer or one that was replayed to it.                          *)
BackedInv ==
  /\ \A s \in served : StandsBehind(s)
  /\ \A r \in Run :
       /\ run[r].phase \in {"checked"} \cup InFlight =>
            /\ appr[run[r].approval].status # "none"
            /\ appr[run[r].approval].ticket = run[r].ticket
       /\ run[r].phase \in InFlight =>
            \E s \in served : s.approval = run[r].approval /\ s.token = run[r].token

(* While the Gateway's reports are not served, an executing ticket stays   *)
(* so, unless an outage-hold clear forces it.                              *)
LEMMA ExecutingStays ==
  ASSUME TypeInv, BoardStep, NEW t \in Ticket, status[t] = "executing", t \notin forced'
  PROVE  status'[t] = "executing"
<1> USE DEF ticketVars, historyVars
<1>T. status \in [Ticket -> Status]
  BY DEF TypeInv, TypeOK
<1>1. ASSUME NEW a \in Agent, NEW u \in Ticket, AgentCall(a, u) PROVE status'[t] = status[t]
  <2>1. ASSUME NEW tok, NEW to, AgentTransition(a, u, tok, to) PROVE status'[t] = status[t]
    BY <2>1, <1>T DEF AgentTransition, ClaimHolder
  <2>2. ASSUME NEW tok, NEW p, Propose(a, u, tok, p) PROVE status'[t] = status[t]
    BY <2>2, <1>T DEF Propose, ClaimHolder
  <2>3. ASSUME NEW tok, Heartbeat(a, u, tok) \/ Release(a, u, tok) PROVE status'[t] = status[t]
    BY <2>3, <1>T DEF Heartbeat, Release
  <2>4. ASSUME Claim(a, u) PROVE status'[t] = status[t]
    BY <2>4, <1>T DEF Claim, Claimable
  <2>5. QED
    BY <1>1, <2>1, <2>2, <2>3, <2>4 DEF AgentCall
<1>2. ASSUME NEW u \in Ticket, OperatorCall(u) PROVE status'[t] = status[t]
  <2>1. ASSUME NEW to, OperatorTransition(u, to) PROVE status'[t] = status[t]
    BY <2>1, <1>T DEF OperatorTransition, OperatorMay
  <2>2. ASSUME Revoke(u) PROVE status'[t] = status[t]
    BY <2>2, <1>T DEF Revoke
  <2>3. ASSUME ClearOutageHold(u) PROVE status'[t] = status[t]
    BY <2>3, <1>T DEF ClearOutageHold, Legal
  <2>4. ASSUME NEW b, GrantBegin(b, u) PROVE status'[t] = status[t]
    BY <2>4 DEF GrantBegin
  <2>5. QED
    BY <1>2, <2>1, <2>2, <2>3, <2>4 DEF OperatorCall
<1>3. ASSUME GrantStep PROVE status'[t] = status[t]
  BY <1>3, <1>T DEF GrantStep, GrantFail, GrantCommit
<1>4. ASSUME Sweeps PROVE status'[t] = status[t]
  <2>1. ASSUME ReaperSweep PROVE status'[t] = status[t]
    BY <2>1 DEF ReaperSweep, TicketsOn, WallCapped, Expired, Sweepable, InProgress
  <2>2. ASSUME NEW u, HuddleTrip(u) PROVE status'[t] = status[t]
    BY <2>2, <1>T DEF HuddleTrip
  <2>3. QED
    BY <1>4, <2>1, <2>2 DEF Sweeps
<1>5. ASSUME TimePasses \/ KillMirror PROVE status'[t] = status[t]
  BY <1>5 DEF TimePasses, LeaseAges, CapRunsOut, KillMirror, KillPoll, MirrorGoesStale
<1>6. QED
  BY <1>1, <1>2, <1>3, <1>4, <1>5 DEF BoardStep

(* So do the answers the Board gave.                                       *)
LEMMA AnswersStand ==
  ASSUME TypeInv, TypeInv', LockInv, LockInv', PermitInv, GatewayInv, BoardStep,
         NEW s \in served, StandsBehind(s)
  PROVE  StandsBehind(s)'
<1>1. [Next]_vars /\ s.approval \in Approval
  BY DEF BoardStep, Next, GatewayInv, GatewayTypeOK, Serving
<1>2. PICK t \in Ticket : appr[s.approval].ticket = t
  BY <1>1 DEF StandsBehind, TypeInv, RowsNameHosts
<1>3. HostOf[t] # NoHost /\ Res(t) = HostOf[t] /\ HostOf[t] \in Resource
  BY <1>1, <1>2, HostAssumption DEF StandsBehind, TypeInv, RowsNameHosts, Res, Resource
<1>4. appr'[s.approval] = appr[s.approval]
  BY <1>1, FinalStep DEF StandsBehind, RowsFinal
<1>5. forced \subseteq forced'
  BY <1>1, TicketMoves DEF Work, Granted, GrantCommit, Consumed, Consume, Proposed,
                           Withdrawn, OnlyMoves, historyVars
<1>6. ASSUME t \notin forced'
      PROVE  /\ status'[t] = "executing" /\ approvalId'[t] = s.approval
             /\ lockTicket'[HostOf[t]] = t /\ lockAgent'[HostOf[t]] = Gateway
             /\ lockGen'[HostOf[t]] = s.token
  <2>1. /\ status[t] = "executing" /\ approvalId[t] = s.approval
        /\ lockTicket[HostOf[t]] = t /\ lockGen[HostOf[t]] = s.token
    BY <1>2, <1>5, <1>6 DEF StandsBehind
  <2>2. status'[t] = "executing"
    BY <1>6, <2>1, ExecutingStays
  <2>3. approvalId'[t] = approvalId[t]
    <3>1. CASE Granted
      BY <2>1, <3>1 DEF Granted, GrantCommit, TypeInv, TypeOK
    <3>2. CASE Consumed
      BY <3>2 DEF Consumed, Consume
    <3>3. QED
      BY <1>1, <3>1, <3>2, TicketMoves DEF Work, Proposed, Withdrawn
  <2>4. lockTicket'[HostOf[t]] = t /\ HoldMatchesTicket(HostOf[t])'
    BY <1>3, <2>2, IdentityAssumption DEF LockInv, LockMatchesTicket
  <2>5. lockAgent'[HostOf[t]] = Gateway
    BY <2>2, <2>4 DEF HoldMatchesTicket
  <2>6. lockGen'[HostOf[t]] = lockGen[HostOf[t]]
    <3>1. CASE LockRest
      BY <3>1 DEF LockRest
    <3>2. CASE LockTaken
      BY <1>3, <2>1, <3>2, IdentityAssumption, ResIsResource
         DEF LockTaken, AcquireLock, LockFree, TypeInv, TypeOK
    <3>3. CASE LocksFreed
      BY <1>3, <2>4, <3>3, IdentityAssumption DEF LocksFreed, FreeLocks
    <3>4. QED
      BY <1>1, <3>1, <3>2, <3>3, LockMoves
  <2>7. QED
    BY <2>1, <2>2, <2>3, <2>4, <2>5, <2>6
<1>7. QED
  BY <1>2, <1>4, <1>6 DEF StandsBehind

(* At the start nothing was answered.                                      *)
LEMMA BackedInit == SysInit => BackedInv
<1> SUFFICES ASSUME SysInit PROVE BackedInv
  OBVIOUS
<1>1. served = {} /\ \A r \in Run : run[r].phase = "unused"
  BY DEF SysInit, GatewayInit, NewRow
<1>2. QED
  BY <1>1, Phases DEF BackedInv

(* A consume makes the Board stand behind its answer, and takes no ticket, *)
(* row or lock another answer rests on.                                    *)
LEMMA ConsumeAnswers ==
  ASSUME TypeInv, LockInv, PermitInv, NEW a \in Approval, Consume(a)
  PROVE  /\ \A s \in Serving :
              s.approval = a /\ s.token = lockGen[HostOf[appr[a].ticket]] + 1
                => StandsBehind(s)'
         /\ \A s \in Serving : StandsBehind(s) => StandsBehind(s)'
<1>1. PICK t \in Ticket : appr[a].ticket = t
  BY DEF Consume, TypeInv, RowsNameHosts
<1>2. HostOf[t] \in Resource /\ HostOf[t] # NoHost
  BY <1>1, HostAssumption DEF Consume, TypeInv, RowsNameHosts, Resource
<1>3. /\ appr[a].status = "granted" /\ appr'[a].status = "consumed" /\ appr'[a].ticket = t
      /\ \A b \in Approval \ {a} : appr'[b] = appr[b]
      /\ UNCHANGED <<approvalId, forced>>
      /\ status[t] = "approved" /\ status'[t] = "executing"
      /\ \A u \in Ticket \ {t} : status'[u] = status[u]
  BY <1>1 DEF Consume, TypeInv, TypeOK, ApprovalRow
<1>4. /\ lockTicket[HostOf[t]] = NoTicket
      /\ lockTicket'[HostOf[t]] = t /\ lockAgent'[HostOf[t]] = Gateway
      /\ lockGen'[HostOf[t]] = lockGen[HostOf[t]] + 1
      /\ \A r \in Resource \ {HostOf[t]} : /\ lockTicket'[r] = lockTicket[r]
                                           /\ lockAgent'[r] = lockAgent[r]
                                           /\ lockGen'[r] = lockGen[r]
  BY <1>1, <1>2 DEF Consume, AcquireLock, LockFree, TypeInv, TypeOK
<1>5. t \notin forced => approvalId[t] = a
  BY <1>1, <1>3 DEF PermitInv, GrantedIffApproved
<1>6. ASSUME NEW s \in Serving, StandsBehind(s)
      PROVE  StandsBehind(s)'
  <2>1. PICK u \in Ticket : appr[s.approval].ticket = u
    BY <1>6 DEF StandsBehind, TypeInv, RowsNameHosts, Serving
  <2>2. s.approval \in Approval \ {a} /\ appr'[s.approval] = appr[s.approval]
    BY <1>3, <1>6 DEF StandsBehind, Serving
  <2>3. HostOf[u] \in Resource
    BY <2>1, <2>2, <1>6, HostAssumption DEF StandsBehind, TypeInv, RowsNameHosts, Resource
  <2>4. u \notin forced => u # t /\ HostOf[u] # HostOf[t]
    BY <1>3, <1>4, <1>6, <2>1, IdentityAssumption DEF StandsBehind
  <2>5. QED
    BY <1>3, <1>4, <1>6, <2>1, <2>2, <2>3, <2>4 DEF StandsBehind
<1>7. ASSUME NEW s \in Serving, s.approval = a, s.token = lockGen[HostOf[appr[a].ticket]] + 1
      PROVE  StandsBehind(s)'
  BY <1>1, <1>3, <1>4, <1>5, <1>7 DEF StandsBehind
<1>8. QED
  BY <1>6, <1>7

(* One step per way a run's row can move.                                  *)
LEMMA BackedStep ==
  /\ TypeInv /\ TypeInv' /\ LockInv /\ LockInv' /\ PermitInv /\ GatewayInv /\ GatewayInv'
  /\ BackedInv /\ [SysNext]_sysVars
  => BackedInv'
<1> SUFFICES ASSUME TypeInv, TypeInv', LockInv, LockInv', PermitInv, GatewayInv, GatewayInv',
                    BackedInv, [SysNext]_sysVars
             PROVE  BackedInv'
  OBVIOUS
<1>T. run \in [Run -> RunRow]
  BY DEF GatewayInv, GatewayTypeOK
<1>1. CASE BoardStep
  <2>1. UNCHANGED <<run, served>>
    BY <1>1 DEF BoardStep, gatewayVars
  <2>2. \A s \in served : StandsBehind(s)'
    BY <1>1, AnswersStand DEF BackedInv
  <2>3. ASSUME NEW r \in Run, run[r].phase \in {"checked"} \cup InFlight
        PROVE  /\ appr'[run[r].approval].status # "none"
               /\ appr'[run[r].approval].ticket = run[r].ticket
    <3>1. run[r].approval \in Approval /\ [Next]_vars
      BY <1>1, <2>3 DEF GatewayInv, RowsBound, BoardStep, Next
    <3>2. QED
      BY <2>3, <3>1, RowsKeepTicket DEF BackedInv
  <2>4. QED
    BY <2>1, <2>2, <2>3 DEF BackedInv
<1>2. CASE UNCHANGED sysVars
  BY <1>2 DEF sysVars, vars, ticketVars, lockVars, approvalVars, historyVars, gatewayVars,
              BackedInv, StandsBehind
<1>3. ASSUME UNCHANGED vars, UNCHANGED served PROVE \A s \in served' : StandsBehind(s)'
  BY <1>3 DEF vars, ticketVars, lockVars, approvalVars, historyVars, BackedInv, StandsBehind
(* A step of the Gateway alone that brings no run past its consume.        *)
<1>4. ASSUME NEW r \in Run, UNCHANGED vars, UNCHANGED served,
             \A s \in Run \ {r} : run'[s] = run[s],
             \/ run'[r].phase \notin {"checked"} \cup InFlight
             \/ /\ run[r].phase \in InFlight
                /\ run'[r].approval = run[r].approval /\ run'[r].ticket = run[r].ticket
                /\ run'[r].token = run[r].token
      PROVE  BackedInv'
  <2>1. UNCHANGED appr
    BY <1>4 DEF vars, approvalVars
  <2>2. QED
    BY <1>3, <1>4, <2>1, Phases DEF BackedInv
<1>5. ASSUME NEW r \in Run, NEW p \in Phase, Moves(r, p), UNCHANGED vars, UNCHANGED served,
             run[r].phase \in InFlight \/ p \notin {"checked"} \cup InFlight
      PROVE  BackedInv'
  <2>1. /\ \A s \in Run \ {r} : run'[s] = run[s]
        /\ run'[r].phase = p /\ run'[r].approval = run[r].approval
        /\ run'[r].ticket = run[r].ticket /\ run'[r].token = run[r].token
    BY <1>T, <1>5 DEF Moves, RunRow
  <2>2. QED
    BY <1>4, <1>5, <2>1
<1>6. ASSUME NEW r \in Run, \/ CheckFencing(r) \/ AcquireMutex(r) \/ Dispatch(r)
                            \/ Report(r) \/ Reject(r) \/ Die(r)
                            \/ \E answer \in {"received", "lost"} : Redeem(r, answer)
      PROVE  BackedInv'
  <2>1. \E p \in Phase : /\ Moves(r, p)
                         /\ run[r].phase \in InFlight \/ p \notin {"checked"} \cup InFlight
    BY <1>6, Phases DEF CheckFencing, AcquireMutex, Dispatch, Report, Reject, Die, Redeem
  <2>2. UNCHANGED vars /\ UNCHANGED served
    BY <1>6 DEF CheckFencing, AcquireMutex, Dispatch, Report, Reject, Die, Redeem
  <2>3. QED
    BY <1>5, <2>1, <2>2
<1>7. ASSUME NEW r \in Run, NEW t \in Ticket, NEW o \in Op, Begin(r, t, o) PROVE BackedInv'
  <2>1. run'[r].phase = "preflight" /\ \A s \in Run \ {r} : run'[s] = run[s]
    BY <1>T, <1>7 DEF Begin, NewRow
  <2>2. QED
    BY <1>4, <1>7, <2>1, Phases DEF Begin
<1>8. ASSUME NEW r \in Run, ReadFacts(r) PROVE BackedInv'
  <2>1. run[r].ticket \in Ticket /\ approvalId[run[r].ticket] \in Approval
    BY <1>8 DEF ReadFacts, GatewayInv, RowsBound, TypeInv, TypeOK
  <2>2. /\ \A s \in Run \ {r} : run'[s] = run[s]
        /\ run'[r].phase = "checked" /\ run'[r].ticket = run[r].ticket
        /\ run'[r].approval = approvalId[run[r].ticket]
        /\ UNCHANGED vars /\ UNCHANGED served /\ UNCHANGED appr
    BY <1>T, <1>8 DEF ReadFacts, RunRow, vars, approvalVars
  <2>3. /\ appr[approvalId[run[r].ticket]].status # "none"
        /\ appr[approvalId[run[r].ticket]].ticket = run[r].ticket
    BY <2>1 DEF PermitInv, PointsAtOwn
  <2>4. QED
    BY <1>3, <2>2, <2>3, Phases DEF BackedInv
<1>9. ASSUME NEW r \in Run, ConsumeReplayed(r) PROVE BackedInv'
  <2>1. PICK s \in served :
          /\ s.approval = run[r].approval
          /\ run' = [run EXCEPT ![r].phase = "consumed", ![r].token = s.token]
    BY <1>9 DEF ConsumeReplayed
  <2>2. /\ run[r].phase = "checked" /\ \A q \in Run \ {r} : run'[q] = run[q]
        /\ run'[r].phase = "consumed" /\ run'[r].ticket = run[r].ticket
        /\ run'[r].approval = run[r].approval /\ run'[r].token = s.token
        /\ UNCHANGED vars /\ UNCHANGED served /\ UNCHANGED appr
    BY <1>T, <1>9, <2>1 DEF ConsumeReplayed, RunRow, vars, approvalVars
  <2>3. \A q \in served' : StandsBehind(q)'
    BY <1>3, <2>2
  <2>4. ASSUME NEW q \in Run
        PROVE  /\ run'[q].phase \in {"checked"} \cup InFlight =>
                    /\ appr'[run'[q].approval].status # "none"
                    /\ appr'[run'[q].approval].ticket = run'[q].ticket
               /\ run'[q].phase \in InFlight =>
                    \E x \in served' : x.approval = run'[q].approval /\ x.token = run'[q].token
    <3>1. CASE q = r
      <4>1. s \in served' /\ s.approval = run'[r].approval /\ s.token = run'[r].token
        BY <2>1, <2>2
      <4>2. /\ appr'[run'[r].approval].status # "none"
            /\ appr'[run'[r].approval].ticket = run'[r].ticket
        BY <2>2 DEF BackedInv
      <4>3. QED
        BY <3>1, <4>1, <4>2
    <3>2. CASE q # r
      <4>1. run'[q] = run[q] /\ appr' = appr /\ served' = served
        BY <2>2, <3>2
      <4>2. QED
        BY <4>1 DEF BackedInv
    <3>3. QED
      BY <3>1, <3>2
  <2>5. QED
    BY <2>3, <2>4 DEF BackedInv
<1>10. ASSUME NEW r \in Run, NEW answer \in {"received", "lost"}, ConsumeApproval(r, answer)
       PROVE  BackedInv'
  <2> DEFINE a == run[r].approval
             new == [op |-> run[r].op, approval |-> a, token |-> lockGen[HostOfRun(r)] + 1]
  <2>1. /\ a \in Approval /\ run[r].op \in Op /\ Consume(a)
        /\ served' = served \cup {new} /\ run[r].phase = "checked"
        /\ run[r].ticket = appr[a].ticket
    BY <1>10, Phases DEF ConsumeApproval, GatewayInv, RowsBound, BackedInv
  <2>2. /\ \A q \in Run \ {r} : run'[q] = run[q]
        /\ run'[r].phase \in {"rejected", "consumed"}
        /\ run'[r].approval = a /\ run'[r].ticket = run[r].ticket
        /\ run'[r].phase = "consumed" => run'[r].token = lockGen[HostOfRun(r)] + 1
    BY <1>T, <1>10 DEF ConsumeApproval, RunRow
  <2>3. new \in served' /\ new \in Serving /\ served \subseteq Serving
    BY <2>1 DEF GatewayInv, GatewayTypeOK
  <2>4. new.approval = a /\ new.token = lockGen[HostOf[appr[a].ticket]] + 1
    BY <2>1 DEF HostOfRun
  <2>5. \A s \in served' : StandsBehind(s)'
    BY <2>1, <2>3, <2>4, ConsumeAnswers DEF BackedInv
  <2>6. \A q \in Approval : appr[q].status # "none" =>
          appr'[q].status # "none" /\ appr'[q].ticket = appr[q].ticket
    BY <2>1, RowsKeepTicket DEF GatewayCall, Next
  <2>7. appr[a].status = "granted"
    BY <2>1 DEF Consume
  <2>8. ASSUME NEW q \in Run
        PROVE  /\ run'[q].phase \in {"checked"} \cup InFlight =>
                    /\ appr'[run'[q].approval].status # "none"
                    /\ appr'[run'[q].approval].ticket = run'[q].ticket
               /\ run'[q].phase \in InFlight =>
                    \E s \in served' : s.approval = run'[q].approval /\ s.token = run'[q].token
    <3>1. CASE q = r
      <4>1. new.token = lockGen[HostOfRun(r)] + 1
        OBVIOUS
      <4>2. QED
        BY <2>1, <2>2, <2>3, <2>4, <2>6, <2>7, <3>1, <4>1, Phases
    <3>2. CASE q # r
      <4>1. run'[q] = run[q] /\ (run[q].phase \in {"checked"} \cup InFlight =>
                                   run[q].approval \in Approval)
        BY <2>2, <3>2 DEF GatewayInv, RowsBound
      <4>2. QED
        BY <2>1, <2>6, <4>1 DEF BackedInv
    <3>3. QED
      BY <3>1, <3>2
  <2>9. QED
    BY <2>5, <2>8 DEF BackedInv
<1>11. QED
  BY <1>1, <1>2, <1>6, <1>7, <1>8, <1>9, <1>10 DEF SysNext, RunStep

(* The Board stands behind every run that has burned its approval, under   *)
(* its approval, its token and the Gateway's hold, until an outage-hold    *)
(* clear forces the ticket: whatever is retried or lost, and whatever the  *)
(* sweeps, the agents and the operators do meanwhile.                      *)
THEOREM RunsAreBacked == SysSpec => []RunIsBacked
<1>1. GatewayInv /\ BackedInv => RunIsBacked
  BY Phases DEF BackedInv, StandsBehind, RunIsBacked
<1>2. SysSpec => [](TypeInv /\ LockInv /\ PermitInv /\ GatewayInv)
  BY SysImplementsBoard, LocksInOrder, PermitsInOrder, PTL
<1>3. QED
  BY <1>1, <1>2, BackedInit, BackedStep, PTL DEF SysSpec

(* Every row the Gateway keeps has its type.                               *)
THEOREM GatewayTypeCorrect == SysSpec => []GatewayTypeOK
<1>1. GatewayInv => GatewayTypeOK
  BY DEF GatewayInv
<1>2. QED
  BY <1>1, SysImplementsBoard, PTL
-----------------------------------------------------------------------------
(* Restarts and restores of the Board.                                     *)

(* The tables of one database, running or saved.                           *)
Db ==
  [status : [Ticket -> Status], held : [Ticket -> BOOLEAN],
   claimedBy : [Ticket -> Agent \cup {NoAgent}], fencingToken : [Ticket -> Nat],
   pin : [Ticket -> Plan \cup {NoPlan}], proposerId : [Ticket -> Agent \cup {NoAgent}],
   approvalId : [Ticket -> Approval \cup {NoApproval}],
   wallCap : [Ticket -> {"unset", "running", "past"}],
   lockTicket : [Resource -> Ticket \cup {NoTicket}],
   lockAgent : [Resource -> Agent \cup {Gateway, NoAgent}],
   holdKind : [Resource -> {"none", "claim", "execution"}],
   lease : [Resource -> {"none", "live", "lapsed", "stale"}],
   lockGen : [Resource -> Nat], appr : [Approval -> ApprovalRow],
   killLevel : KillLevel, mirrorStale : BOOLEAN]

RowsName(d) ==
  \A a \in Approval : d.appr[a].status # "none" =>
    d.appr[a].ticket \in Ticket /\ HostOf[d.appr[a].ticket] # NoHost

(* LocksFit(FALSE) of a database, with what a floor of its generations     *)
(* needs: a lock that is held has one.                                     *)
HoldStands(d, r) ==
  LET t == d.lockTicket[r]
  IN /\ r = Res(t)
     /\ d.fencingToken[t] <= d.lockGen[r] /\ d.lockGen[r] # 0
     /\ \/ /\ d.holdKind[r] = "claim" /\ d.status[t] = "in_progress"
           /\ d.lockAgent[r] \in Agent /\ d.lockAgent[r] = d.claimedBy[t]
        \/ /\ d.holdKind[r] = "execution" /\ d.status[t] = "executing"
           /\ d.lockAgent[r] = Gateway

LocksStand(d) ==
  /\ \A r \in Resource : d.lockTicket[r] # NoTicket => HoldStands(d, r)
  /\ \A t \in Ticket : d.status[t] \in Worked => d.lockTicket[Res(t)] = t
  /\ \A r \in Resource : d.lockTicket[r] = NoTicket =>
       d.lockAgent[r] = NoAgent /\ d.holdKind[r] = "none"
  /\ \A t \in Ticket : d.status[t] = "executing" => HostOf[t] # NoHost

DbInv(d) == d \in Db /\ RowsName(d) /\ LocksStand(d)

(* Of a resource whose row was never lost, no token handed out is above    *)
(* its generation, and one that equals it is the holder's.                 *)
IssueInv ==
  \A i \in issued :
    /\ i.token \in 1..MaxGen
    /\ Res(i.ticket) \notin dropped =>
         /\ i.token <= lockGen[Res(i.ticket)]
         /\ i.token = lockGen[Res(i.ticket)] =>
              lockTicket[Res(i.ticket)] = i.ticket /\ lockAgent[Res(i.ticket)] = i.agent

(* The snapshot is older than the database, and what is spent is final.    *)
SpentInv ==
  /\ \A a \in Approval : snap.appr[a].status = "consumed" => appr[a].status = "consumed"
  /\ spent \subseteq Approval
  /\ \A a \in spent : appr[a].status \in {"consumed", "revoked"}

RestoreInv == TypeInv /\ DbInv(Database) /\ DbInv(snap) /\ IssueInv /\ SpentInv

-----------------------------------------------------------------------------
(* The clock.                                                              *)

Below == {p \in Nat \X Nat : p[1] < p[2]}

(* A set of numbers that is not empty has a least one.                     *)
LEMMA LeastNumber ==
  ASSUME NEW T \in SUBSET Nat, T # {}
  PROVE  \E n \in T : \A m \in T : n <= m
<1>1. IsWellFoundedOn(Below, Nat)
  <2>1. Below = OpToRel(<, Nat)
    BY DEF Below, OpToRel
  <2>2. QED
    BY <2>1, NatLessThanWellFounded
<1>2. \E n \in T : \A m \in T : <<m, n>> \notin Below
  BY <1>1, WFMin
<1>3. \A m, n \in T : <<m, n>> \notin Below => n <= m
  <2> TAKE m \in T, n \in T
  <2>1. <<m, n>> \in Nat \X Nat
    OBVIOUS
  <2>2. m < n => <<m, n>> \in Below
    BY <2>1 DEF Below
  <2>3. QED
    BY <2>2
<1>4. QED
  BY <1>2, <1>3

(* The clock is ahead of every token: the tokens handed out are bounded,   *)
(* so there is a last one.                                                 *)
LEMMA ClockIsAhead ==
  ASSUME TypeInv, IssueInv
  PROVE  Now \in Nat /\ \A i \in issued : i.token < Now
<1> DEFINE tokens == {i.token : i \in issued} \cup {0}
           Last(n) == \A i \in issued : i.token <= n
           bounds == {n \in Nat : Last(n)}
<1>1. \A i \in issued : i.token \in Nat /\ i.token <= MaxGen
  BY BoundAssumption DEF IssueInv
<1>2. MaxGen \in bounds
  BY <1>1, BoundAssumption
<1>3. PICK b \in bounds : \A n \in bounds : b <= n
  BY <1>2, LeastNumber
<1>4. b \in tokens
  <2>1. CASE b = 0
    BY <2>1
  <2>2. CASE b # 0
    <3>1. b - 1 \in Nat /\ b - 1 \notin bounds
      BY <1>3, <2>2
    <3>2. PICK i \in issued : ~(i.token <= b - 1)
      BY <3>1
    <3>3. i.token <= b /\ i.token \in Nat /\ b \in Nat
      BY <1>1, <1>3
    <3>4. i.token = b
      BY <3>2, <3>3
    <3>5. QED
      BY <3>4
  <2>3. QED
    BY <2>1, <2>2
<1>5. \E n \in tokens : Last(n)
  BY <1>3, <1>4
<1> DEFINE m == CHOOSE n \in tokens : Last(n)
<1>6. m \in tokens /\ Last(m)
  BY <1>5
<1>7. Now = 1 + m
  BY DEF Now
<1>8. m \in Nat
  <2>1. tokens \subseteq Nat
    BY <1>1
  <2> HIDE DEF tokens, m
  <2>2. QED
    BY <1>6, <2>1
<1> HIDE DEF m
<1>9. QED
  BY <1>1, <1>6, <1>7, <1>8

-----------------------------------------------------------------------------
(* The reconcile.                                                          *)

(* What reconcileOnBoot makes of each column.                              *)
LEMMA ReconciledColumns ==
  ASSUME NEW d \in Db
  PROVE  LET c == Reconciled(d)
             freed == ClaimHolds(d)
             claimed == {d.lockTicket[r] : r \in freed}
         IN /\ c.status = Requeued(d)
            /\ c.claimedBy = [t \in Ticket |-> IF t \in claimed THEN NoAgent ELSE d.claimedBy[t]]
            /\ c.fencingToken = [t \in Ticket |-> IF t \in claimed THEN NoToken ELSE d.fencingToken[t]]
            /\ c.lockTicket = [r \in Resource |-> IF r \in freed THEN NoTicket ELSE d.lockTicket[r]]
            /\ c.lockAgent = [r \in Resource |-> IF r \in freed THEN NoAgent ELSE d.lockAgent[r]]
            /\ c.holdKind = [r \in Resource |-> IF r \in freed THEN "none" ELSE d.holdKind[r]]
            /\ c.lease = [r \in Resource |-> IF r \in freed THEN "none" ELSE d.lease[r]]
            /\ c.lockGen = [r \in Resource |-> IF r \in freed THEN Floored(d, r) + 1
                                               ELSE Floored(d, r)]
            /\ c.appr = [a \in Approval |->
                           IF a \in GrantsOf(d) THEN [d.appr[a] EXCEPT !.status = "revoked"]
                           ELSE d.appr[a]]
            /\ c.held = d.held /\ c.pin = d.pin /\ c.proposerId = d.proposerId
            /\ c.approvalId = d.approvalId /\ c.wallCap = d.wallCap
            /\ c.killLevel = d.killLevel /\ c.mirrorStale = d.mirrorStale
            /\ c = [status |-> c.status, held |-> c.held, claimedBy |-> c.claimedBy,
                    fencingToken |-> c.fencingToken, pin |-> c.pin,
                    proposerId |-> c.proposerId, approvalId |-> c.approvalId,
                    wallCap |-> c.wallCap, lockTicket |-> c.lockTicket,
                    lockAgent |-> c.lockAgent, holdKind |-> c.holdKind, lease |-> c.lease,
                    lockGen |-> c.lockGen, appr |-> c.appr, killLevel |-> c.killLevel,
                    mirrorStale |-> c.mirrorStale]
<1> DEFINE freed == ClaimHolds(d)
           claimed == {d.lockTicket[r] : r \in freed}
           gen == [r \in Resource |-> IF r \in freed THEN Floored(d, r) + 1 ELSE Floored(d, r)]
           tick == [r \in Resource |-> IF r \in freed THEN NoTicket ELSE d.lockTicket[r]]
           agent == [r \in Resource |-> IF r \in freed THEN NoAgent ELSE d.lockAgent[r]]
           kind == [r \in Resource |-> IF r \in freed THEN "none" ELSE d.holdKind[r]]
           lse == [r \in Resource |-> IF r \in freed THEN "none" ELSE d.lease[r]]
           owner == [t \in Ticket |-> IF t \in claimed THEN NoAgent ELSE d.claimedBy[t]]
           tok == [t \in Ticket |-> IF t \in claimed THEN NoToken ELSE d.fencingToken[t]]
           rows == [a \in Approval |->
                      IF a \in GrantsOf(d) THEN [d.appr[a] EXCEPT !.status = "revoked"]
                      ELSE d.appr[a]]
           req == Requeued(d)
<1>1. Reconciled(d) =
        [d EXCEPT !.lockGen = gen, !.lockTicket = tick, !.lockAgent = agent,
                  !.holdKind = kind, !.lease = lse, !.claimedBy = owner,
                  !.fencingToken = tok, !.status = req, !.appr = rows]
  BY DEF Reconciled
<1> HIDE DEF freed, claimed, gen, tick, agent, kind, lse, owner, tok, rows, req
<1>2. d = [status |-> d.status, held |-> d.held, claimedBy |-> d.claimedBy,
           fencingToken |-> d.fencingToken, pin |-> d.pin, proposerId |-> d.proposerId,
           approvalId |-> d.approvalId, wallCap |-> d.wallCap, lockTicket |-> d.lockTicket,
           lockAgent |-> d.lockAgent, holdKind |-> d.holdKind, lease |-> d.lease,
           lockGen |-> d.lockGen, appr |-> d.appr, killLevel |-> d.killLevel,
           mirrorStale |-> d.mirrorStale]
  BY DEF Db
<1>3. Reconciled(d) =
        [status |-> req, held |-> d.held, claimedBy |-> owner, fencingToken |-> tok,
         pin |-> d.pin, proposerId |-> d.proposerId, approvalId |-> d.approvalId,
         wallCap |-> d.wallCap, lockTicket |-> tick, lockAgent |-> agent,
         holdKind |-> kind, lease |-> lse, lockGen |-> gen, appr |-> rows,
         killLevel |-> d.killLevel, mirrorStale |-> d.mirrorStale]
  BY <1>1, <1>2
<1>4. QED
  BY <1>3 DEF freed, claimed, gen, tick, agent, kind, lse, owner, tok, rows, req

(* A floor moves no generation back, and the one of a row that exists to   *)
(* the clock.                                                              *)
LEMMA FloorRaises ==
  ASSUME NEW d \in Db, Now \in Nat, NEW r \in Resource
  PROVE  /\ Floored(d, r) \in Nat /\ d.lockGen[r] <= Floored(d, r)
         /\ d.lockGen[r] = 0 => Floored(d, r) = 0
         /\ d.lockGen[r] # 0 => Now <= Floored(d, r)
<1>1. d.lockGen[r] \in Nat
  BY DEF Db
<1>2. QED
  BY <1>1 DEF Floored

(* A reconciled database is one, and its locks and tickets still agree:    *)
(* the claims are gone from both sides, and the rest is left as it was.    *)
LEMMA ReconcileStands ==
  ASSUME NEW d, DbInv(d), Now \in Nat
  PROVE  DbInv(Reconciled(d))
<1> DEFINE c == Reconciled(d)
           freed == ClaimHolds(d)
           claimed == {d.lockTicket[r] : r \in freed}
<1>1. d \in Db /\ RowsName(d) /\ LocksStand(d)
  BY DEF DbInv
<1>2. /\ c.status = Requeued(d)
      /\ c.claimedBy = [t \in Ticket |-> IF t \in claimed THEN NoAgent ELSE d.claimedBy[t]]
      /\ c.fencingToken = [t \in Ticket |-> IF t \in claimed THEN NoToken ELSE d.fencingToken[t]]
      /\ c.lockTicket = [r \in Resource |-> IF r \in freed THEN NoTicket ELSE d.lockTicket[r]]
      /\ c.lockAgent = [r \in Resource |-> IF r \in freed THEN NoAgent ELSE d.lockAgent[r]]
      /\ c.holdKind = [r \in Resource |-> IF r \in freed THEN "none" ELSE d.holdKind[r]]
      /\ c.lease = [r \in Resource |-> IF r \in freed THEN "none" ELSE d.lease[r]]
      /\ c.lockGen = [r \in Resource |-> IF r \in freed THEN Floored(d, r) + 1 ELSE Floored(d, r)]
      /\ c.appr = [a \in Approval |->
                     IF a \in GrantsOf(d) THEN [d.appr[a] EXCEPT !.status = "revoked"]
                     ELSE d.appr[a]]
  BY <1>1, ReconciledColumns
<1>T. /\ d.status \in [Ticket -> Status]
      /\ d.claimedBy \in [Ticket -> Agent \cup {NoAgent}] /\ d.fencingToken \in [Ticket -> Nat]
      /\ d.lockTicket \in [Resource -> Ticket \cup {NoTicket}]
      /\ d.lockAgent \in [Resource -> Agent \cup {Gateway, NoAgent}]
      /\ d.holdKind \in [Resource -> {"none", "claim", "execution"}]
      /\ d.lease \in [Resource -> {"none", "live", "lapsed", "stale"}]
      /\ d.lockGen \in [Resource -> Nat] /\ d.appr \in [Approval -> ApprovalRow]
  BY <1>1 DEF Db
<1>3. \A a \in Approval :
        /\ c.appr[a] \in ApprovalRow
        /\ c.appr[a].ticket = d.appr[a].ticket
        /\ c.appr[a].status # "none" => d.appr[a].status # "none"
  <2> TAKE a \in Approval
  <2>1. d.appr[a] \in ApprovalRow
    BY <1>T
  <2>2. CASE a \in GrantsOf(d)
    <3>1. c.appr[a] = [d.appr[a] EXCEPT !.status = "revoked"] /\ d.appr[a].status = "granted"
      BY <1>2, <2>2 DEF GrantsOf
    <3>2. QED
      BY <2>1, <3>1 DEF ApprovalRow
  <2>3. CASE a \notin GrantsOf(d)
    BY <1>2, <2>1, <2>3
  <2>4. QED
    BY <2>2, <2>3
<1>4. c \in Db
  <2>1. c.appr \in [Approval -> ApprovalRow]
    BY <1>2, <1>3
  <2>2. c.status \in [Ticket -> Status]
    BY <1>2, <1>T DEF Requeued, Status
  <2>3. /\ c.claimedBy \in [Ticket -> Agent \cup {NoAgent}]
        /\ c.fencingToken \in [Ticket -> Nat]
    BY <1>2, <1>T DEF NoToken
  <2>4. /\ c.lockTicket \in [Resource -> Ticket \cup {NoTicket}]
        /\ c.lockAgent \in [Resource -> Agent \cup {Gateway, NoAgent}]
        /\ c.holdKind \in [Resource -> {"none", "claim", "execution"}]
    BY <1>2, <1>T
  <2>5. c.lockGen \in [Resource -> Nat]
    BY <1>1, <1>2, FloorRaises
  <2>6. c.lease \in [Resource -> {"none", "live", "lapsed", "stale"}]
    BY <1>2, <1>T
  <2>7. /\ c.held \in [Ticket -> BOOLEAN] /\ c.pin \in [Ticket -> Plan \cup {NoPlan}]
        /\ c.proposerId \in [Ticket -> Agent \cup {NoAgent}]
        /\ c.approvalId \in [Ticket -> Approval \cup {NoApproval}]
        /\ c.wallCap \in [Ticket -> {"unset", "running", "past"}]
        /\ c.killLevel \in KillLevel /\ c.mirrorStale \in BOOLEAN
    BY <1>1, ReconciledColumns DEF Db
  <2> DEFINE row ==
         [status |-> c.status, held |-> c.held, claimedBy |-> c.claimedBy,
          fencingToken |-> c.fencingToken, pin |-> c.pin,
          proposerId |-> c.proposerId, approvalId |-> c.approvalId,
          wallCap |-> c.wallCap, lockTicket |-> c.lockTicket,
          lockAgent |-> c.lockAgent, holdKind |-> c.holdKind, lease |-> c.lease,
          lockGen |-> c.lockGen, appr |-> c.appr, killLevel |-> c.killLevel,
          mirrorStale |-> c.mirrorStale]
  <2>8. c = row
    BY <1>1, ReconciledColumns
  <2> HIDE DEF c
  <2>9. row \in Db
    BY <2>1, <2>2, <2>3, <2>4, <2>5, <2>6, <2>7 DEF Db
  <2> HIDE DEF row
  <2>10. QED
    BY <2>8, <2>9
<1>5. RowsName(c)
  BY <1>1, <1>3 DEF RowsName
<1>6. \A r \in freed : /\ r \in Resource /\ d.lockTicket[r] \in Ticket
                       /\ r = Res(d.lockTicket[r]) /\ d.status[d.lockTicket[r]] = "in_progress"
  BY <1>1, <1>T DEF ClaimHolds, LocksStand, HoldStands
<1>7. ASSUME NEW r \in Resource, c.lockTicket[r] # NoTicket PROVE HoldStands(c, r)
  <2> DEFINE t == d.lockTicket[r]
  <2>1. r \notin freed /\ c.lockTicket[r] = t /\ t \in Ticket
    BY <1>2, <1>7, <1>T
  <2>2. /\ r = Res(t) /\ d.fencingToken[t] <= d.lockGen[r] /\ d.lockGen[r] # 0
        /\ d.holdKind[r] = "execution" /\ d.status[t] = "executing" /\ d.lockAgent[r] = Gateway
    <3>1. HoldStands(d, r)
      BY <1>1, <1>7, <2>1, IdentityAssumption DEF LocksStand
    <3>2. d.holdKind[r] # "claim"
      BY <2>1, IdentityAssumption DEF ClaimHolds
    <3>3. QED
      BY <3>1, <3>2, <2>1 DEF HoldStands
  <2>3. t \notin claimed
    BY <1>6, <2>1, <2>2
  <2>4. /\ c.status[t] = "executing" /\ c.fencingToken[t] = d.fencingToken[t]
        /\ c.lockGen[r] = Floored(d, r) /\ c.holdKind[r] = "execution"
        /\ c.lockAgent[r] = Gateway
    BY <1>2, <2>1, <2>2, <2>3 DEF Requeued
  <2>5. c.fencingToken[t] <= c.lockGen[r] /\ c.lockGen[r] # 0
    BY <1>1, <1>T, <2>1, <2>2, <2>4, FloorRaises
  <2> HIDE DEF c, t
  <2>6. QED
    BY <2>1, <2>2, <2>4, <2>5 DEF HoldStands
<1>8. ASSUME NEW t \in Ticket, c.status[t] \in Worked PROVE c.lockTicket[Res(t)] = t
  <2>1. d.status[t] \in Worked /\ Res(t) \in Resource /\ d.lockTicket[Res(t)] = t
    BY <1>1, <1>2, <1>8, <1>T, ResIsResource DEF Requeued, Worked, LocksStand
  <2>2. Res(t) \notin freed
    BY <1>2, <1>6, <1>8, <2>1 DEF Requeued, Worked
  <2>3. QED
    BY <1>2, <2>1, <2>2
<1>9. \A r \in Resource : c.lockTicket[r] = NoTicket =>
        c.lockAgent[r] = NoAgent /\ c.holdKind[r] = "none"
  BY <1>1, <1>2 DEF LocksStand
<1>10. \A t \in Ticket : c.status[t] = "executing" => HostOf[t] # NoHost
  BY <1>1, <1>2 DEF LocksStand, Requeued
<1>11. LocksStand(c)
  BY <1>7, <1>8, <1>9, <1>10 DEF LocksStand
<1>12. QED
  BY <1>4, <1>5, <1>11 DEF DbInv

-----------------------------------------------------------------------------
(* The running server.                                                     *)

HeldMinted == \A r \in Resource : lockTicket[r] # NoTicket => lockGen[r] # 0

(* The database the server runs on, in the words of Board.                 *)
LEMMA DatabaseStands == TypeInv => (DbInv(Database) <=> LocksFit(FALSE) /\ HeldMinted)
<1> SUFFICES ASSUME TypeInv PROVE DbInv(Database) <=> LocksFit(FALSE) /\ HeldMinted
  OBVIOUS
<1>1. Database \in Db
  BY DEF TypeInv, TypeOK, Database, Db
<1>2. RowsName(Database)
  BY DEF TypeInv, RowsNameHosts, RowsName, Database
<1>3. \A r \in Resource :
        HoldStands(Database, r) <=> HoldFits(r, FALSE) /\ lockGen[r] # 0
  BY DEF HoldStands, HoldFits, Database
<1>4. LocksStand(Database) <=> LocksFit(FALSE) /\ HeldMinted
  BY <1>3 DEF LocksStand, LocksFit, HeldMinted, FreeLocksBlank, ExecutingHasHost, Database
<1>5. QED
  BY <1>1, <1>2, <1>4 DEF DbInv

(* A server that has just started, with no call in flight, is well typed.  *)
LEMMA DatabaseTyped ==
  DbInv(Database) /\ grants = {} /\ issued \subseteq Issue /\ forced \subseteq Ticket => TypeInv
<1> SUFFICES ASSUME Database \in Db, RowsName(Database), grants = {},
                    issued \subseteq Issue, forced \subseteq Ticket
             PROVE  TypeInv
  BY DEF DbInv
<1>1. TypeOK
  BY DEF Database, Db, TypeOK
<1>2. RowsNameHosts
  BY DEF Database, RowsName, RowsNameHosts
<1>3. QED
  BY <1>1, <1>2 DEF TypeInv

(* A server runs on the database it starts on.                             *)
LEMMA StartsOn ==
  ASSUME NEW d \in Db, StartOn(d)
  PROVE  Database' = d
<1>1. d = [status |-> d.status, held |-> d.held, claimedBy |-> d.claimedBy,
           fencingToken |-> d.fencingToken, pin |-> d.pin, proposerId |-> d.proposerId,
           approvalId |-> d.approvalId, wallCap |-> d.wallCap, lockTicket |-> d.lockTicket,
           lockAgent |-> d.lockAgent, holdKind |-> d.holdKind, lease |-> d.lease,
           lockGen |-> d.lockGen, appr |-> d.appr, killLevel |-> d.killLevel,
           mirrorStale |-> d.mirrorStale]
  BY DEF Db
<1>2. QED
  BY <1>1 DEF StartOn, Database

(* The first lock of a resource moves its generation on.                   *)
LEMMA MintedStep ==
  ASSUME TypeInv, HeldMinted, [Next]_vars
  PROVE  HeldMinted'
<1>T. /\ lockGen \in [Resource -> Nat] /\ lockTicket \in [Resource -> Ticket \cup {NoTicket}]
  BY DEF TypeInv, TypeOK
<1>1. CASE LockRest
  BY <1>1 DEF LockRest, HeldMinted
<1>2. CASE LockTaken
  <2> PICK t \in Ticket, a \in Agent \cup {Gateway}, k \in {"claim", "execution"} :
        AcquireLock(Res(t), t, a, k)
    BY <1>2 DEF LockTaken
  <2> QED
    BY <1>T, ResIsResource DEF AcquireLock, HeldMinted
<1>3. CASE LocksFreed
  BY <1>3, <1>T DEF LocksFreed, FreeLocks, HeldMinted
<1>4. QED
  BY <1>1, <1>2, <1>3, LockMoves

(* What a step of the Board mints is above all that is out.                *)
LEMMA IssueStep ==
  ASSUME TypeInv, IssueInv, [Next]_vars, dropped' = dropped
  PROVE  IssueInv'
<1>T. /\ lockGen \in [Resource -> Nat] /\ MaxGen \in Nat
      /\ \A i \in issued : i.ticket \in Ticket /\ i.token \in Nat /\ Res(i.ticket) \in Resource
      /\ lockTicket \in [Resource -> Ticket \cup {NoTicket}]
      /\ lockAgent \in [Resource -> Agent \cup {Gateway, NoAgent}]
  BY ResIsResource, BoundAssumption DEF TypeInv, TypeOK, Issue
<1>1. CASE LockRest
  BY <1>1 DEF LockRest, IssueInv
<1>2. CASE LockTaken
  <2> PICK t \in Ticket, a \in Agent \cup {Gateway}, k \in {"claim", "execution"} :
        AcquireLock(Res(t), t, a, k)
    BY <1>2 DEF LockTaken
  <2> DEFINE r == Res(t)
             new == [ticket |-> t, agent |-> a, token |-> lockGen[r] + 1]
  <2>1. /\ r \in Resource /\ issued' = issued \cup {new}
        /\ lockGen[r] + 1 \in 1..MaxGen
    BY <1>T, ResIsResource DEF AcquireLock
  <2>2. /\ lockGen'[r] = lockGen[r] + 1 /\ lockTicket'[r] = t /\ lockAgent'[r] = a
        /\ \A q \in Resource \ {r} : /\ lockGen'[q] = lockGen[q]
                                     /\ lockTicket'[q] = lockTicket[q]
                                     /\ lockAgent'[q] = lockAgent[q]
    BY <1>T, <2>1 DEF AcquireLock
  <2>3. \A i \in issued : Res(i.ticket) = r /\ r \notin dropped => i.token < lockGen[r] + 1
    BY <1>T, <2>1 DEF IssueInv
  <2>4. QED
    BY <1>T, <2>1, <2>2, <2>3 DEF IssueInv
<1>3. CASE LocksFreed
  <2>1. PICK S \in SUBSET HeldLocks : FreeLocks(S) /\ UNCHANGED issued
    BY <1>3 DEF LocksFreed
  <2>2. \A q \in Resource :
          /\ q \in S => lockGen'[q] = lockGen[q] + 1
          /\ q \notin S => /\ lockGen'[q] = lockGen[q]
                           /\ lockTicket'[q] = lockTicket[q] /\ lockAgent'[q] = lockAgent[q]
    BY <2>1 DEF FreeLocks, AfterRelease
  <2>3. QED
    BY <1>T, <2>1, <2>2 DEF IssueInv
<1>4. QED
  BY <1>1, <1>2, <1>3, LockMoves

(* The floor puts the generation of every row there is above all that is   *)
(* out; of a resource that has no row, none ever was, or it was lost.      *)
LEMMA BootFences ==
  ASSUME TypeInv, IssueInv, NEW d, DbInv(d), Boot(Reconciled(d))
  PROVE  IssueInv'
<1>T. /\ d \in Db /\ lockGen \in [Resource -> Nat] /\ d.lockGen \in [Resource -> Nat]
      /\ \A i \in issued : i.token \in Nat /\ Res(i.ticket) \in Resource
  BY ResIsResource DEF TypeInv, TypeOK, Issue, DbInv, Db
<1>N. Now \in Nat /\ \A i \in issued : i.token < Now
  BY ClockIsAhead
<1>1. \A r \in Resource : lockGen'[r] = IF r \in ClaimHolds(d) THEN Floored(d, r) + 1
                                      ELSE Floored(d, r)
  <2>1. lockGen' = Reconciled(d).lockGen
    BY DEF Boot, StartOn
  <2>2. Reconciled(d).lockGen = [r \in Resource |-> IF r \in ClaimHolds(d) THEN Floored(d, r) + 1
                                                   ELSE Floored(d, r)]
    BY <1>T, ReconciledColumns
  <2>3. QED
    BY <2>1, <2>2
<1>2. /\ issued' = issued
      /\ dropped' = dropped \cup {r \in Resource : lockGen[r] # 0 /\ lockGen'[r] = 0}
  BY DEF Boot, StartOn
<1>3. ASSUME NEW i \in issued, Res(i.ticket) \notin dropped'
      PROVE  i.token < lockGen'[Res(i.ticket)]
  <2> DEFINE r == Res(i.ticket)
  <2>1. r \in Resource /\ i.token \in 1..MaxGen /\ i.token <= lockGen[r]
    BY <1>2, <1>3, <1>T DEF IssueInv
  <2>2. lockGen[r] # 0
    BY <1>T, <2>1
  <2>3. lockGen'[r] # 0
    BY <1>2, <1>3, <2>1, <2>2
  <2>4. d.lockGen[r] # 0
    <3>1. r \in ClaimHolds(d) => d.lockGen[r] # 0
      BY <2>1 DEF ClaimHolds, DbInv, LocksStand, HoldStands
    <3>2. r \notin ClaimHolds(d) => Floored(d, r) # 0
      BY <1>1, <2>1, <2>3
    <3>3. QED
      BY <3>1, <3>2, <1>T, <1>N, <2>1, FloorRaises
  <2>5. Floored(d, r) \in Nat /\ Now <= Floored(d, r)
    BY <1>T, <1>N, <2>1, <2>4, FloorRaises
  <2>6. Floored(d, r) <= lockGen'[r] /\ lockGen'[r] \in Nat
    BY <1>1, <2>1, <2>5
  <2>7. i.token < Now /\ i.token \in Nat
    BY <1>N, <1>T
  <2>8. QED
    BY <1>N, <2>5, <2>6, <2>7
<1>4. \A r \in Resource : lockGen'[r] \in Nat
  BY <1>1, <1>T, <1>N, FloorRaises
<1>5. QED
  BY <1>2, <1>3, <1>4, <1>T DEF IssueInv

(* The reconcile withdraws what is granted, and leaves what was spent.     *)
LEMMA ReconciledRows ==
  ASSUME NEW d \in Db, NEW a \in Approval
  PROVE  /\ Reconciled(d).appr[a].status = "consumed" <=> d.appr[a].status = "consumed"
         /\ Reconciled(d).appr[a].status # "granted"
<1>1. d.appr[a] \in ApprovalRow
  BY DEF Db
<1>2. Reconciled(d).appr[a] = IF a \in GrantsOf(d) THEN [d.appr[a] EXCEPT !.status = "revoked"]
                              ELSE d.appr[a]
  <2>1. Reconciled(d).appr = [b \in Approval |->
                                IF b \in GrantsOf(d) THEN [d.appr[b] EXCEPT !.status = "revoked"]
                                ELSE d.appr[b]]
    BY ReconciledColumns
  <2>2. QED
    BY <2>1
<1>3. QED
  BY <1>1, <1>2 DEF GrantsOf, ApprovalRow

-----------------------------------------------------------------------------
(* The invariant.                                                          *)

(* The server starts new, with a snapshot of the empty database.           *)
LEMMA RestoreStart == RestoreInit => RestoreInv
<1> SUFFICES ASSUME RestoreInit PROVE RestoreInv
  OBVIOUS
<1>1. TypeInv /\ LocksFit(FALSE)
  <2>1. TypeInv
    BY TypeInit DEF RestoreInit
  <2>2. \A r \in Resource : lockTicket[r] = NoTicket
    BY DEF RestoreInit, Init
  <2>3. LockInv
    BY LockInit DEF RestoreInit
  <2>4. \A t \in Ticket : status[t] = "todo"
    BY DEF RestoreInit, Init
  <2>5. QED
    BY <2>1, <2>2, <2>3, <2>4 DEF LocksFit, LockInv, Worked
<1>2. HeldMinted
  BY DEF RestoreInit, Init, HeldMinted
<1>3. DbInv(Database)
  BY <1>1, <1>2, DatabaseStands
<1>4. IssueInv
  BY DEF RestoreInit, Init, IssueInv
<1>5. SpentInv
  BY DEF RestoreInit, SpentInv, Database
<1>6. QED
  BY <1>1, <1>3, <1>4, <1>5 DEF RestoreInit, RestoreInv

Spends ==
  spent' = spent \cup {a \in Approval : appr'[a].status = "consumed"
                                        /\ appr[a].status # "consumed"}

(* A step of the Board, or of the snapshot timer.                          *)
LEMMA ServeStep ==
  ASSUME RestoreInv, Next \/ UNCHANGED vars,
         UNCHANGED <<dropped, boots>>, snap' \in {snap, Database},
         Spends
  PROVE  RestoreInv'
<1>T. TypeInv /\ LocksFit(FALSE) /\ HeldMinted /\ SpentInv /\ DbInv(snap) /\ DbInv(Database)
  BY DatabaseStands DEF RestoreInv
<1>1. TypeInv'
  BY <1>T, TypeStep
<1>2. LocksFit(FALSE)' /\ HeldMinted'
  BY <1>T, LocksFitStep, MintedStep
<1>3. DbInv(Database)'
  BY <1>1, <1>2, DatabaseStands, PTL
<1>4. IssueInv'
  BY <1>T, IssueStep DEF RestoreInv
<1>5. SpentInv'
  <2>1. RowsFinal
    BY <1>T, FinalStep
  <2>2. \A a \in Approval : snap'.appr[a].status = "consumed" => appr[a].status = "consumed"
    BY <1>T DEF SpentInv, Database
  <2>3. QED
    BY <1>T, <2>1, <2>2 DEF SpentInv, RowsFinal, Spends
<1>6. DbInv(snap')
  BY <1>T
<1>7. QED
  BY <1>1, <1>3, <1>4, <1>5, <1>6 DEF RestoreInv, DbInv, RowsName, LocksStand, HoldStands

(* A start on the database as it was left, or on one that is reconciled.   *)
LEMMA BootStep ==
  ASSUME RestoreInv, Restart \/ Restore
  PROVE  RestoreInv'
<1>T. TypeInv /\ SpentInv /\ IssueInv /\ DbInv(snap) /\ DbInv(Database)
  BY DEF RestoreInv
<1>N. Now \in Nat
  BY <1>T, ClockIsAhead
<1>D. snap \in Db /\ Database \in Db /\ Database.appr = appr
  BY <1>T DEF DbInv, Database
<1>1. ASSUME NEW d, DbInv(d), Boot(d), IssueInv',
             \A a \in Approval : snap.appr[a].status = "consumed" => d.appr[a].status = "consumed",
             \A a \in spent : d.appr[a].status \in {"none", "consumed", "revoked"}
      PROVE  RestoreInv'
  <2>1. Database' = d
    BY <1>1, StartsOn DEF Boot, DbInv
  <2>2. /\ grants' = {} /\ UNCHANGED <<issued, forced>> /\ snap' \in {snap, d} /\ appr' = d.appr
        /\ spent' = {a \in spent : d.appr[a].status # "none"}
    BY <1>1 DEF Boot, StartOn
  <2>3. DbInv(Database)'
    BY <1>1, <2>1 DEF DbInv, RowsName, LocksStand, HoldStands
  <2>4. issued' \subseteq Issue /\ forced' \subseteq Ticket
    BY <1>T, <2>2 DEF TypeInv, TypeOK
  <2>5. TypeInv'
    <3>1. (/\ DbInv(Database) /\ grants = {}
           /\ issued \subseteq Issue /\ forced \subseteq Ticket)'
      BY <2>2, <2>3, <2>4
    <3>2. QED
      BY <3>1, DatabaseTyped, PTL
  <2>6. SpentInv'
    BY <1>1, <1>T, <2>2 DEF SpentInv
  <2>7. DbInv(snap')
    BY <1>1, <1>T, <2>2
  <2>8. QED
    BY <1>1, <2>3, <2>5, <2>6, <2>7 DEF RestoreInv, DbInv, RowsName, LocksStand, HoldStands
<1>2. CASE Boot(Database)
  <2>1. UNCHANGED <<lockGen, lockTicket, lockAgent, issued, dropped>>
    BY <1>2 DEF Boot, StartOn, Database
  <2>2. IssueInv'
    BY <1>T, <2>1 DEF IssueInv
  <2>3. QED
    BY <1>1, <1>2, <1>T, <1>D, <2>2 DEF SpentInv
<1>3. ASSUME NEW e \in {Database, snap}, Boot(Reconciled(e)) PROVE RestoreInv'
  <2>1. DbInv(e) /\ DbInv(Reconciled(e)) /\ e \in Db
    BY <1>3, <1>T, <1>N, <1>D, ReconcileStands
  <2>2. IssueInv'
    BY <1>3, <1>T, <2>1, BootFences
  <2>3. \A a \in Approval : /\ Reconciled(e).appr[a].status = "consumed"
                              <=> e.appr[a].status = "consumed"
                           /\ Reconciled(e).appr[a].status \in {"none", "consumed", "revoked"}
    <3> TAKE a \in Approval
    <3>1. Reconciled(e).appr[a] \in ApprovalRow
      BY <2>1 DEF DbInv, Db
    <3>2. QED
      BY <3>1, <2>1, ReconciledRows DEF ApprovalRow
  <2>4. \A a \in Approval : snap.appr[a].status = "consumed" => e.appr[a].status = "consumed"
    BY <1>3, <1>T, <1>D DEF SpentInv
  <2>5. spent \subseteq Approval
    BY <1>T DEF SpentInv
  <2>6. QED
    BY <1>1, <1>3, <2>1, <2>2, <2>3, <2>4, <2>5
<1>4. QED
  BY <1>2, <1>3 DEF Restart, Restore

(* Crashes, snapshots, restarts and restores keep the invariant.           *)
LEMMA RestoreStep == RestoreInv /\ [RestoreNext]_<<vars, restoreVars>> => RestoreInv'
<1> SUFFICES ASSUME RestoreInv, [RestoreNext]_<<vars, restoreVars>> PROVE RestoreInv'
  OBVIOUS
<1>1. CASE Serve
  <2>1. Spends
    BY <1>1 DEF Serve, Spends
  <2>2. QED
    BY <1>1, <2>1, ServeStep DEF Serve
<1>2. CASE Snapshot
  <2>1. appr' = appr
    BY <1>2 DEF Snapshot, vars, approvalVars
  <2>2. Spends
    BY <1>2, <2>1 DEF Snapshot, Spends
  <2>3. QED
    BY <1>2, <2>2, ServeStep DEF Snapshot
<1>3. CASE Restart \/ Restore
  BY <1>3, BootStep
<1>4. CASE UNCHANGED <<vars, restoreVars>>
  <2>1. appr' = appr /\ UNCHANGED vars
    BY <1>4 DEF vars, approvalVars
  <2>2. Spends
    BY <1>4, <2>1 DEF restoreVars, Spends
  <2>3. QED
    BY <1>4, <2>1, <2>2, ServeStep DEF restoreVars
<1>5. QED
  BY <1>1, <1>2, <1>3, <1>4 DEF RestoreNext

(* The inductive invariant of the restored Board.                          *)
THEOREM RestoreInvariant == RestoreSpec => []RestoreInv
<1>1. QED
  BY RestoreStart, RestoreStep, PTL DEF RestoreSpec

(* Locks and tickets of a restored database agree, and keep agreeing, in   *)
(* all but the token of an execution hold.                                 *)
THEOREM RestoredLocksAgree == RestoreSpec => []RestoredHoldsAgree
<1>1. RestoreInv => RestoredHoldsAgree
  <2> SUFFICES ASSUME LocksStand(Database) PROVE RestoredHoldsAgree
    BY DEF RestoreInv, DbInv
  <2>1. \A r \in Resource : lockTicket[r] # NoTicket => HoldStands(Database, r)
    BY DEF LocksStand, Database
  <2>2. \A t \in Ticket : status[t] \in Worked => lockTicket[Res(t)] = t
    BY DEF LocksStand, Database
  <2>3. QED
    BY <2>1, <2>2 DEF RestoredHoldsAgree, HoldStands, Database, Worked
<1>2. QED
  BY <1>1, RestoreInvariant, PTL

(* A token handed out before a restart, or in the window a restore lost,   *)
(* is the holder's or is dead, however old the snapshot.                   *)
THEOREM LostTokensStayDead == RestoreSpec => []LostTokensAreDead
<1>1. RestoreInv => LostTokensAreDead
  BY DEF RestoreInv, IssueInv, LostTokensAreDead, FenceMatches
<1>2. QED
  BY <1>1, RestoreInvariant, PTL

(* An approval spent in the lost window is not consumed a second time.     *)
THEOREM ApprovalsAreSpentOnce == RestoreSpec => SpentOnce
<1>1. RestoreInv /\ [RestoreNext]_<<vars, restoreVars>> =>
        [\A a \in spent : appr'[a].status = "consumed"
                           => appr[a].status = "consumed"]_<<vars, restoreVars>>
  <2> SUFFICES ASSUME RestoreInv, RestoreNext, NEW a \in spent,
                      appr'[a].status = "consumed"
               PROVE  appr[a].status = "consumed"
    OBVIOUS
  <2>T. /\ TypeInv /\ a \in Approval /\ appr[a].status \in {"consumed", "revoked"}
        /\ snap.appr[a].status = "consumed" => appr[a].status = "consumed"
        /\ Database \in Db /\ snap \in Db /\ Database.appr = appr
    BY DEF RestoreInv, SpentInv, DbInv, Database
  <2>1. CASE Serve
    <3>1. RowsFinal
      BY <2>T, <2>1, FinalStep DEF Serve
    <3>2. QED
      BY <2>T, <3>1 DEF RowsFinal
  <2>2. CASE Snapshot
    BY <2>2 DEF Snapshot, vars, approvalVars
  <2>3. CASE Boot(Database)
    BY <2>3, <2>T DEF Boot, StartOn
  <2>4. ASSUME NEW e \in {Database, snap}, Boot(Reconciled(e))
        PROVE  appr[a].status = "consumed"
    <3>1. appr' = Reconciled(e).appr
      BY <2>4 DEF Boot, StartOn
    <3>2. e.appr[a].status = "consumed"
      BY <2>4, <2>T, <3>1, ReconciledRows
    <3>3. QED
      BY <2>4, <2>T, <3>2
  <2>5. QED
    BY <2>1, <2>2, <2>3, <2>4 DEF RestoreNext, Restart, Restore
<1>2. QED
  BY <1>1, RestoreInvariant, PTL DEF RestoreSpec, SpentOnce
=============================================================================
