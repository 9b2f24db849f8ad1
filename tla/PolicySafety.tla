---------------------------- MODULE PolicySafety ----------------------------
(***************************************************************************)
(* The CMDB's change log, branch and gate, for any number of edits and     *)
(* commits: rows are anchored whatever fails and whenever the process      *)
(* dies; and but for what a re-arm loaded during a ceremony, or a reload   *)
(* that failed left in place, the gate serves only what is anchored and    *)
(* confirms only what was proposed.                                        *)
(***************************************************************************)
EXTENDS PolicyControl, TLAPS, SequenceTheorems

CommitRow == [id : Nat, tree : SUBSET Edit]
ChangeRow == [commit : Nat, edit : Edit \cup {NoEdit}, base : Nat, how : How]
Ceremony == [pc : {"idle", "written", "committed", "pushed", "logged", "served"},
             edit : Edit \cup {NoEdit}, direct : BOOLEAN, how : How]
Served == [commit : Nat, tree : SUBSET Edit, ok : BOOLEAN, how : How]

PolicyTypeOK ==
  /\ work \subseteq Edit /\ made \in Nat
  /\ history \in Seq(CommitRow) /\ history # <<>>
  /\ remote \in Seq(CommitRow) /\ remote # <<>>
  /\ chain \in Seq(ChangeRow) /\ chain # <<>>
  /\ token \in [Edit -> [status : {"none", "new", "used"}, base : Nat]]
  /\ live \in Served /\ op \in Ceremony
  /\ op.pc # "idle" => op.edit \in Edit
  /\ rearm \in [pc : {"idle", "named", "read", "checked"}, commit : Nat,
                tree : SUBSET Edit, ok : BOOLEAN, raced : BOOLEAN]

(* Commits are numbered as they are made; the one a ceremony has made and  *)
(* not pushed is in no row; a weakening one that is past its push is on    *)
(* the remote.                                                             *)
RowInv ==
  /\ \A i \in DOMAIN history : history[i].id <= made
  /\ RowsAreAnchored
  /\ op.pc = "committed" => \A i \in DOMAIN chain : chain[i].commit # HeadId(history)
  /\ op.pc = "pushed" /\ op.edit \in Weak => InHistory(remote, HeadId(history))

(* What was loaded with HEAD to itself is the last row, but between the    *)
(* row of a ceremony and its reload; a ceremony that began on it confirmed *)
(* against the last row; and a re-arm no ceremony overlaps has HEAD to     *)
(* itself.                                                                 *)
ServeInv ==
  /\ GateIsAnchored /\ ConfirmedAsProposed /\ chain[1].edit = NoEdit
  /\ live.ok /\ live.how = "alone" /\ op.pc # "logged" => live.commit = Last(chain).commit
  /\ op.pc \in {"written", "committed", "pushed"} /\ ~op.direct /\ op.how = "alone" =>
       token[op.edit].base = Last(chain).commit
  /\ rearm.pc # "idle" /\ ~rearm.raced =>
       /\ op.pc = "idle" /\ rearm.commit = HeadId(history)
       /\ rearm.pc = "checked" /\ rearm.ok => Integrity(history)

-----------------------------------------------------------------------------
(* Branches.                                                               *)

(* A commit on top of a branch keeps the branch below it.                  *)
LEMMA AppendBranch ==
  ASSUME NEW S, NEW h \in Seq(S), NEW x \in S
  PROVE  /\ Append(h, x) \in Seq(S) /\ Append(h, x) # <<>>
         /\ Last(Append(h, x)) = x
         /\ DOMAIN Append(h, x) = DOMAIN h \cup {Len(h) + 1}
         /\ \A i \in DOMAIN h : Append(h, x)[i] = h[i]
         /\ Append(h, x)[Len(h) + 1] = x
         /\ h # <<>> => Append(h, x)[Len(h)] = Last(h)
BY AppendProperties DEF Last

(* reset --hard HEAD~1 takes the last commit off and nothing else.         *)
LEMMA FrontBranch ==
  ASSUME NEW S, NEW h \in Seq(S), h # <<>>
  PROVE  /\ Front(h) \in Seq(S)
         /\ DOMAIN Front(h) = DOMAIN h \ {Len(h)}
         /\ \A i \in DOMAIN Front(h) : Front(h)[i] = h[i]
         /\ Len(h) # 1 => Front(h) # <<>>
<1>1. Len(h) \in Nat \ {0}
  BY EmptySeq
<1>2. \A i \in 1 .. Len(h) - 1 : h[i] \in S
  BY <1>1, ElementOfSeq
<1>3. /\ Front(h) \in Seq(S) /\ Len(Front(h)) = Len(h) - 1
      /\ \A i \in 1 .. Len(h) - 1 : Front(h)[i] = h[i]
  <2> DEFINE n == Len(h) - 1
  <2>1. n \in Nat /\ 1 \in Int /\ \A i \in 1 .. n : h[i] \in S
    BY <1>1, <1>2
  <2> HIDE DEF n
  <2>2. /\ SubSeq(h, 1, n) \in Seq(S)
        /\ Len(SubSeq(h, 1, n)) = IF 1 <= n THEN n - 1 + 1 ELSE 0
        /\ \A i \in 1 .. n - 1 + 1 : SubSeq(h, 1, n)[i] = h[1 + i - 1]
    BY <2>1, SubSeqProperties
  <2>3. Len(SubSeq(h, 1, n)) = n /\ \A i \in 1 .. n : SubSeq(h, 1, n)[i] = h[i]
    BY <2>1, <2>2
  <2>4. QED
    BY <2>2, <2>3 DEF Front, n
<1>4. DOMAIN Front(h) = 1 .. Len(h) - 1 /\ DOMAIN h = 1 .. Len(h)
  BY <1>3, LenProperties
<1>5. QED
  BY <1>1, <1>3, <1>4, EmptySeq

(* A fast-forward keeps what the branch had.                               *)
LEMMA PrefixBranch ==
  ASSUME NEW S, NEW r \in Seq(S), NEW h \in Seq(S), IsPrefix(r, h)
  PROVE  DOMAIN r \subseteq DOMAIN h /\ \A i \in DOMAIN r : r[i] = h[i]
<1>1. Len(r) <= Len(h) /\ SubSeq(r, 1, Len(r)) = SubSeq(h, 1, Len(r))
  BY DEF IsPrefix
<1>2. \A i \in 1 .. Len(r) : SubSeq(r, 1, Len(r))[i] = r[i] /\ SubSeq(h, 1, Len(r))[i] = h[i]
  BY <1>1
<1>3. QED
  BY <1>1, <1>2

(* HEAD is on its branch, and is a commit.                                 *)
LEMMA HeadInHistory ==
  ASSUME NEW S, NEW h \in Seq(S), h # <<>>
  PROVE  /\ Len(h) \in DOMAIN h /\ Last(h) \in S /\ Last(h) = h[Len(h)]
         /\ HeadId(h) = Last(h).id /\ InHistory(h, HeadId(h))
BY DEF Last, HeadId, InHistory

(* So is what it names and holds.                                          *)
LEMMA HeadTyped ==
  ASSUME NEW h \in Seq(CommitRow), h # <<>>
  PROVE  HeadId(h) \in Nat /\ Last(h).tree \in SUBSET Edit
<1>1. Last(h) \in CommitRow /\ HeadId(h) = Last(h).id
  BY HeadInHistory
<1>2. QED
  BY <1>1 DEF CommitRow

-----------------------------------------------------------------------------
(* Types.                                                                  *)

(* What Snapshots returns is what live may hold.                           *)
LEMMA SnapshotTyped ==
  ASSUME NEW tree \in SUBSET Edit, NEW h \in Seq(CommitRow), h # <<>>,
         NEW l \in Snapshots(tree, h)
  PROVE  /\ l \in Served /\ l.how = "alone"
         /\ l.commit = HeadId(h)
         /\ l.ok => Integrity(h)
<1>1. HeadId(h) \in Nat
  BY HeadTyped
<1>2. QED
  BY <1>1 DEF Snapshots, Integrity, Served, How

(* At the genesis.                                                         *)
LEMMA PolicyTypeInit == Init => PolicyTypeOK
<1> SUFFICES ASSUME Init PROVE PolicyTypeOK
  OBVIOUS
<1>1. Genesis \in CommitRow /\ [commit |-> 0, edit |-> NoEdit, base |-> 0, how |-> "alone"]
                                    \in ChangeRow
  BY DEF Genesis, Commit, CommitRow, ChangeRow, How
<1>2. QED
  BY <1>1 DEF Init, PolicyTypeOK, NoToken, Idle, NoReArm, Ceremony, Served, How

(* One step per action.                                                    *)
LEMMA PolicyTypeStep ==
  PolicyTypeOK /\ RowInv /\ [Next]_vars => PolicyTypeOK'
<1> SUFFICES ASSUME PolicyTypeOK, RowInv, [Next]_vars PROVE PolicyTypeOK'
  OBVIOUS
<1> USE DEF repoVars, PolicyTypeOK
<1>1. ASSUME NEW e \in Edit, Propose(e) PROVE PolicyTypeOK'
  BY <1>1 DEF Propose, Served
<1>2. ASSUME NEW e \in Edit, Confirm(e) \/ DirectTightening(e) PROVE PolicyTypeOK'
  <2>1. PICK d \in BOOLEAN : Start(e, d)
    BY <1>2 DEF Confirm, DirectTightening
  <2>2. /\ op' \in Ceremony
        /\ op'.edit \in Edit
    BY <2>1 DEF Start, Ceremony, Served
  <2>3. /\ work' \subseteq Edit /\ UNCHANGED <<history, made, remote, chain, token, live>>
        /\ rearm' = [rearm EXCEPT !.raced = rearm.pc # "idle"]
    BY <2>1 DEF Start
  <2>4. QED
    BY <2>2, <2>3
<1>3. CASE CommitAll
  <2>1. Commit(made + 1, work) \in CommitRow
    BY DEF Commit, CommitRow
  <2>2. history' \in Seq(CommitRow) /\ history' # <<>>
    BY <1>3, <2>1, AppendBranch DEF CommitAll
  <2>3. /\ op' \in Ceremony
        /\ op'.edit \in Edit
    BY <1>3 DEF CommitAll, StepTo, Ceremony, How
  <2>4. QED
    BY <1>3, <2>2, <2>3 DEF CommitAll
<1>4. CASE Raises
  BY <1>4 DEF Raises, Idle, Ceremony, How, Served
<1>5. CASE PushDone
  BY <1>5 DEF PushDone, StepTo, Ceremony, How
<1>6. CASE PushFails
  <2>1. CASE RollsBack
    <3>1. /\ history' = Front(history) /\ work' = Last(history').tree
          /\ live' \in Snapshots(work', history') \cup {live} /\ op' = Idle
          /\ UNCHANGED <<made, remote, chain, token, rearm>>
      BY <1>6, <2>1 DEF PushFails
    <3>2. Len(history) # 1
      <4>1. 1 \in DOMAIN chain /\ op.pc = "committed"
        BY <1>6, EmptySeq DEF PushFails
      <4>2. InHistory(history, chain[1].commit) /\ chain[1].commit # HeadId(history)
        BY <4>1 DEF RowInv, RowsAreAnchored
      <4>3. QED
        BY <4>2 DEF InHistory, HeadId, Last
    <3>3. history' \in Seq(CommitRow) /\ history' # <<>>
      BY <3>1, <3>2, FrontBranch
    <3>4. work' \in SUBSET Edit
      BY <3>1, <3>3, HeadTyped
    <3>5. live' \in Served
      BY <3>1, <3>3, <3>4, SnapshotTyped
    <3>6. QED
      BY <3>1, <3>3, <3>4, <3>5 DEF Idle, Ceremony, How
  <2>2. CASE ~RollsBack
    BY <1>6, <2>2 DEF PushFails, StepTo, Ceremony, How
  <2>3. QED
    BY <2>1, <2>2
<1>7. CASE PushTimesOut
  BY <1>7 DEF PushTimesOut, Idle, Ceremony, How
<1>8. CASE AppendRow
  <2> DEFINE row == [commit |-> HeadId(history),
                     edit |-> IF op.direct THEN NoEdit ELSE op.edit,
                     base |-> IF op.direct THEN 0 ELSE token[op.edit].base,
                     how |-> op.how]
  <2>1. row \in ChangeRow
    <3>1. HeadId(history) \in Nat
      BY HeadTyped
    <3>2. op.edit \in Edit
      BY <1>8 DEF AppendRow
    <3>3. QED
      BY <3>1, <3>2 DEF ChangeRow, Ceremony
  <2>2. chain' \in Seq(ChangeRow) /\ chain' # <<>>
    BY <1>8, <2>1, AppendBranch DEF AppendRow
  <2>3. QED
    BY <1>8, <2>2 DEF AppendRow, StepTo, Ceremony, How
<1>9. CASE Reload
  <2>1. live' \in Served
    BY <1>9, SnapshotTyped DEF Reload
  <2>2. QED
    BY <1>9, <2>1 DEF Reload, Idle, Ceremony, How
<1>10. CASE MarkUsed
  BY <1>10 DEF MarkUsed, Idle, Ceremony, How
<1>11. CASE Restart
  <2>1. live' \in Served
    BY <1>11, SnapshotTyped DEF Restart
  <2>2. QED
    BY <1>11, <2>1 DEF Restart, Idle, NoReArm, Ceremony, How
<1>12. CASE ReArmNames \/ ReArmReads \/ ReArmChecks \/ ReArmServes \/ ReArmRaises
  <2> USE DEF ReArmStep
  <2>1. CASE ReArmNames
    BY <2>1, HeadTyped DEF ReArmNames
  <2>2. CASE ReArmReads
    BY <2>2 DEF ReArmReads
  <2>3. CASE ReArmChecks
    BY <2>3 DEF ReArmChecks, Integrity
  <2>4. CASE ReArmServes
    BY <2>4 DEF ReArmServes, NoReArm, Served, How
  <2>5. CASE ReArmRaises
    BY <2>5 DEF ReArmRaises, NoReArm
  <2>6. QED
    BY <1>12, <2>1, <2>2, <2>3, <2>4, <2>5
<1>13. CASE UNCHANGED vars
  BY <1>13 DEF vars
<1>14. QED
  BY <1>1, <1>2, <1>3, <1>4, <1>5, <1>6, <1>7, <1>8, <1>9, <1>10, <1>11, <1>12, <1>13
     DEF Next

-----------------------------------------------------------------------------
(* Rows are anchored.                                                      *)

(* At the genesis, which is logged and pushed.                             *)
LEMMA RowInit == Init => RowInv
<1> SUFFICES ASSUME Init PROVE RowInv
  OBVIOUS
<1>1. /\ history = <<Genesis>> /\ remote = <<Genesis>> /\ made = 0 /\ op.pc = "idle"
      /\ chain = <<[commit |-> 0, edit |-> NoEdit, base |-> 0, how |-> "alone"]>>
      /\ Genesis.id = 0
  BY DEF Init, Idle, Genesis, Commit
<1>2. InHistory(history, 0) /\ InHistory(remote, 0)
  BY <1>1 DEF InHistory
<1>3. QED
  BY <1>1, <1>2, PolicyAssumption DEF RowInv, RowsAreAnchored

(* Nothing is taken off the branch but a commit no row names, nothing off  *)
(* the remote, and a row is written past its push.                         *)
LEMMA RowStep == PolicyTypeOK /\ RowInv /\ [Next]_vars => RowInv'
<1> SUFFICES ASSUME PolicyTypeOK, RowInv, [Next]_vars PROVE RowInv'
  OBVIOUS
<1> USE DEF repoVars
<1>T. /\ made \in Nat
      /\ history \in Seq(CommitRow) /\ history # <<>>
      /\ remote \in Seq(CommitRow) /\ chain \in Seq(ChangeRow)
      /\ op \in Ceremony
  BY DEF PolicyTypeOK
<1>N. \A i \in DOMAIN history : history[i].id \in Nat /\ history[i].id <= made
  <2>1. \A i \in DOMAIN history : history[i] \in CommitRow
    BY <1>T, ElementOfSeq, LenProperties
  <2>2. QED
    BY <2>1 DEF CommitRow, RowInv
<1>H. InHistory(history, HeadId(history))
  BY <1>T, HeadInHistory
<1>0. ASSUME UNCHANGED <<history, made, remote, chain>>,
             op' = op \/ op'.pc \notin {"committed", "pushed"}
      PROVE  RowInv'
  BY <1>0 DEF RowInv, RowsAreAnchored, InHistory, HeadId, Last
<1>1. CASE CommitAll
  <2> DEFINE new == Commit(made + 1, work)
  <2>1. new \in CommitRow /\ new.id = made + 1
    BY DEF PolicyTypeOK, Commit, CommitRow
  <2>2. /\ history' = Append(history, new) /\ made' = made + 1
        /\ UNCHANGED <<remote, chain>>
    BY <1>1 DEF CommitAll
  <2>3. op'.pc = "committed"
    BY <1>1, <1>T DEF CommitAll, StepTo
  <2> HIDE DEF new
  <2>4. /\ DOMAIN history' = DOMAIN history \cup {Len(history) + 1}
        /\ \A i \in DOMAIN history : history'[i] = history[i]
        /\ history'[Len(history) + 1] = new /\ Last(history') = new
    BY <1>T, <2>1, <2>2, AppendBranch
  <2>5. \A i \in DOMAIN history' : history'[i].id <= made'
    BY <1>T, <1>N, <2>1, <2>2, <2>4
  <2>6. \A n : InHistory(history, n) => InHistory(history', n)
    BY <2>4 DEF InHistory
  <2>7. \A i \in DOMAIN chain : chain[i].commit # HeadId(history')
    <3>1. HeadId(history') = made + 1
      BY <2>1, <2>4 DEF HeadId
    <3>2. \A i \in DOMAIN chain : chain[i].commit \in Nat /\ chain[i].commit <= made
      BY <1>N DEF RowInv, RowsAreAnchored, InHistory
    <3>3. QED
      BY <1>T, <3>1, <3>2
  <2>8. QED
    BY <2>2, <2>3, <2>5, <2>6, <2>7 DEF RowInv, RowsAreAnchored
<1>P. ASSUME remote' = history, IsPrefix(remote, history)
      PROVE  \A n : InHistory(remote, n) => InHistory(remote', n)
  BY <1>P, <1>T, PrefixBranch DEF InHistory
<1>2. CASE PushDone
  <2>1. /\ remote' = history /\ IsPrefix(remote, history)
        /\ UNCHANGED <<history, made, chain>> /\ op'.pc = "pushed"
    BY <1>2, <1>T DEF PushDone, StepTo
  <2>2. QED
    BY <1>H, <1>P, <2>1 DEF RowInv, RowsAreAnchored
<1>3. CASE PushTimesOut
  <2>1. /\ remote' = remote \/ (remote' = history /\ IsPrefix(remote, history))
        /\ UNCHANGED <<history, made, chain>> /\ op'.pc = "idle"
    BY <1>3 DEF PushTimesOut, Idle
  <2>2. \A n : InHistory(remote, n) => InHistory(remote', n)
    BY <1>P, <2>1
  <2>3. QED
    BY <2>1, <2>2 DEF RowInv, RowsAreAnchored
<1>4. CASE PushFails
  <2>1. op.pc = "committed" /\ UNCHANGED <<made, remote, chain>>
    BY <1>4 DEF PushFails
  <2>2. CASE RollsBack
    <3>1. history' = Front(history) /\ op'.pc = "idle"
      BY <1>4, <2>2 DEF PushFails, Idle
    <3>2. /\ DOMAIN history' = DOMAIN history \ {Len(history)}
          /\ \A i \in DOMAIN history' : history'[i] = history[i]
      BY <1>T, <3>1, FrontBranch
    <3>3. \A i \in DOMAIN chain : InHistory(history', chain[i].commit)
      <4>1. \A i \in DOMAIN chain :
              /\ InHistory(history, chain[i].commit)
              /\ chain[i].commit # history[Len(history)].id
        BY <2>1 DEF RowInv, RowsAreAnchored, HeadId, Last
      <4>2. QED
        BY <3>2, <4>1 DEF InHistory
    <3>4. QED
      BY <2>1, <3>1, <3>2, <3>3 DEF RowInv, RowsAreAnchored
  <2>3. CASE ~RollsBack
    <3>1. op'.pc = "pushed" /\ op'.edit = op.edit /\ op.edit \notin Weak /\ UNCHANGED history
      BY <1>4, <1>T, <2>3 DEF PushFails, StepTo, RollsBack, Ceremony
    <3>2. QED
      BY <2>1, <3>1 DEF RowInv, RowsAreAnchored
  <2>4. QED
    BY <2>2, <2>3
<1>5. CASE AppendRow
  <2> DEFINE row == [commit |-> HeadId(history),
                     edit |-> IF op.direct THEN NoEdit ELSE op.edit,
                     base |-> IF op.direct THEN 0 ELSE token[op.edit].base,
                     how |-> op.how]
  <2>1. /\ op.pc = "pushed" /\ op'.pc = "logged" /\ chain' = Append(chain, row)
        /\ UNCHANGED <<history, made, remote>>
    BY <1>5, <1>T DEF AppendRow, StepTo, Ceremony
  <2>2. row \in ChangeRow
    <3>1. HeadId(history) \in Nat
      BY <1>T, HeadTyped
    <3>2. op.edit \in Edit
      BY <2>1 DEF PolicyTypeOK
    <3>3. QED
      BY <3>1, <3>2 DEF ChangeRow, PolicyTypeOK, Ceremony
  <2>3. row.commit = HeadId(history) /\ (row.edit \in Weak => op.edit \in Weak)
    BY PolicyAssumption
  <2> HIDE DEF row
  <2>4. /\ DOMAIN chain' = DOMAIN chain \cup {Len(chain) + 1}
        /\ \A i \in DOMAIN chain : chain'[i] = chain[i]
        /\ chain'[Len(chain) + 1] = row
    BY <1>T, <2>1, <2>2, AppendBranch
  <2>5. InHistory(history, row.commit) /\ (row.edit \in Weak => InHistory(remote, row.commit))
    BY <1>H, <2>1, <2>3 DEF RowInv
  <2>6. RowsAreAnchored'
    BY <2>1, <2>4, <2>5 DEF RowInv, RowsAreAnchored
  <2>7. QED
    BY <2>1, <2>6 DEF RowInv
<1>6. ASSUME NEW e \in Edit, Propose(e) \/ Confirm(e) \/ DirectTightening(e) PROVE RowInv'
  BY <1>0, <1>6 DEF Propose, Confirm, DirectTightening, Start
<1>7. CASE Raises \/ MarkUsed \/ Restart \/ UNCHANGED vars
  BY <1>0, <1>7 DEF Raises, MarkUsed, Restart, Idle, vars
<1>8. CASE Reload
  <2>1. op'.pc \in {"idle", "served"}
    BY <1>8, <1>T DEF Reload, Idle
  <2>2. QED
    BY <1>0, <1>8, <2>1 DEF Reload
<1>9. CASE ReArmNames \/ ReArmReads \/ ReArmChecks \/ ReArmServes \/ ReArmRaises
  BY <1>0, <1>9 DEF ReArmNames, ReArmReads, ReArmChecks, ReArmServes, ReArmRaises, ReArmStep
<1>10. QED
  BY <1>1, <1>2, <1>3, <1>4, <1>5, <1>6, <1>7, <1>8, <1>9 DEF Next

(* Types and rows, the inductive invariant of the change log.              *)
THEOREM PolicyInvariant == Spec => [](PolicyTypeOK /\ RowInv)
<1>1. QED
  BY PolicyTypeInit, RowInit, PolicyTypeStep, RowStep, PTL DEF Spec

(* What the change log says was accepted stays on the branch, and a        *)
(* weakening edit it names is on the remote, whatever fails, times out or  *)
(* dies in between, and whether re-arms overlap ceremonies or not.         *)
THEOREM RowsStayAnchored == Spec => []RowsAreAnchored
<1>1. RowInv => RowsAreAnchored
  BY DEF RowInv
<1>2. QED
  BY <1>1, PolicyInvariant, PTL

-----------------------------------------------------------------------------
(* What the gate serves.                                                   *)

(* Where the integrity holds, the commit HEAD is on is the last row, on    *)
(* the branch and on the remote.                                           *)
LEMMA FreshIsAnchored ==
  ASSUME PolicyTypeOK', live'.ok => live'.commit = HeadId(history') /\ Integrity(history)'
  PROVE  GateIsAnchored' /\ (live'.ok => live'.commit = Last(chain').commit)
<1>1. /\ history' \in Seq(CommitRow) /\ history' # <<>>
      /\ remote' \in Seq(CommitRow) /\ remote' # <<>>
      /\ chain' \in Seq(ChangeRow) /\ chain' # <<>>
  BY DEF PolicyTypeOK
<1>2. InHistory(history', HeadId(history')) /\ InHistory(remote', HeadId(remote'))
  BY <1>1, HeadInHistory
<1>3. Len(chain') \in DOMAIN chain' /\ Last(chain') = chain'[Len(chain')]
  BY <1>1, HeadInHistory
<1>4. QED
  BY <1>2, <1>3 DEF GateIsAnchored, Integrity

(* What is anchored stays so while its rows only grow: a row is never left *)
(* behind.                                                                 *)
LEMMA AnchorKept ==
  ASSUME GateIsAnchored, live'.ok = live.ok, live'.commit = live.commit,
         live'.how # "raced" => live.how # "raced", RowsAreAnchored',
         \A i \in DOMAIN chain : i \in DOMAIN chain' /\ chain'[i] = chain[i],
         \A n : InHistory(remote, n) => InHistory(remote', n)
  PROVE  GateIsAnchored'
<1> SUFFICES ASSUME live'.ok, live'.how # "raced"
             PROVE  /\ \E i \in DOMAIN chain' : chain'[i].commit = live'.commit
                    /\ InHistory(history', live'.commit) /\ InHistory(remote', live'.commit)
  BY DEF GateIsAnchored
<1>1. PICK i \in DOMAIN chain : chain[i].commit = live.commit
  BY DEF GateIsAnchored
<1>2. i \in DOMAIN chain' /\ chain'[i].commit = live'.commit
  BY <1>1
<1>3. InHistory(history', live'.commit)
  BY <1>2 DEF RowsAreAnchored
<1>4. InHistory(remote', live'.commit)
  BY DEF GateIsAnchored
<1>5. QED
  BY <1>2, <1>3, <1>4

(* At the genesis.                                                         *)
LEMMA ServeInit == Init => ServeInv
<1> SUFFICES ASSUME Init PROVE ServeInv
  OBVIOUS
<1>1. /\ history = <<Genesis>> /\ remote = <<Genesis>> /\ Genesis.id = 0
      /\ chain = <<[commit |-> 0, edit |-> NoEdit, base |-> 0, how |-> "alone"]>>
      /\ live.commit = 0 /\ op.pc = "idle" /\ rearm.pc = "idle"
  BY DEF Init, Idle, Genesis, Commit, NoReArm
<1>2. InHistory(history, 0) /\ InHistory(remote, 0)
  BY <1>1 DEF InHistory
<1>3. QED
  BY <1>1, <1>2 DEF ServeInv, GateIsAnchored, ConfirmedAsProposed, Last

(* One step per action: a ceremony keeps the gate on the last row, or says *)
(* that its reload failed, and marks the re-arm it overlaps.               *)
LEMMA ServeStep ==
  ASSUME PolicyTypeOK, PolicyTypeOK', RowInv, RowInv', ServeInv, [Next]_vars
  PROVE  ServeInv'
<1> USE DEF repoVars
<1>T. /\ history \in Seq(CommitRow) /\ history # <<>>
      /\ remote \in Seq(CommitRow) /\ chain \in Seq(ChangeRow) /\ chain # <<>>
      /\ op \in Ceremony /\ live \in Served
      /\ token \in [Edit -> [status : {"none", "new", "used"}, base : Nat]]
      /\ rearm \in [pc : {"idle", "named", "read", "checked"}, commit : Nat,
                    tree : SUBSET Edit, ok : BOOLEAN, raced : BOOLEAN]
  BY DEF PolicyTypeOK
<1>I. Idle.pc = "idle" /\ NoReArm.pc = "idle"
  BY DEF Idle, NoReArm
<1>A. /\ GateIsAnchored /\ ConfirmedAsProposed /\ chain[1].edit = NoEdit
      /\ RowsAreAnchored'
  BY DEF ServeInv, RowInv
<1>P. ASSUME remote' = history, IsPrefix(remote, history)
      PROVE  \A n : InHistory(remote, n) => InHistory(remote', n)
  BY <1>P, <1>T, PrefixBranch DEF InHistory
<1>B. op.pc # "idle" => rearm.pc = "idle" \/ rearm.raced
  BY DEF ServeInv
<1>1. ASSUME NEW e \in Edit, Propose(e) PROVE ServeInv'
  <2>1. token'[op.edit] = token[op.edit] \/ op.pc = "idle"
    BY <1>1, <1>T DEF Propose, PolicyTypeOK
  <2>2. UNCHANGED <<history, remote, chain, live, op, rearm>>
    BY <1>1 DEF Propose
  <2>3. QED
    BY <2>1, <2>2 DEF ServeInv, GateIsAnchored, ConfirmedAsProposed, InHistory, Integrity,
                      HeadId, Last
<1>2. ASSUME NEW e \in Edit, Confirm(e) \/ DirectTightening(e) PROVE ServeInv'
  <2>1. /\ op = Idle /\ live.ok /\ op'.pc = "written" /\ op'.how = live.how
        /\ UNCHANGED <<history, remote, chain, token, live>>
        /\ rearm' = [rearm EXCEPT !.raced = rearm.pc # "idle"]
    BY <1>2 DEF Confirm, DirectTightening, Start
  <2>2. ~op'.direct => op'.edit = e /\ token[e].base = live.commit
    BY <1>2 DEF Confirm, DirectTightening, Start, NoDrift
  <2>3. live.how = "alone" => live.commit = Last(chain).commit
    BY <1>I, <2>1 DEF ServeInv
  <2>4. rearm'.pc # "idle" => rearm'.raced
    BY <1>T, <2>1
  <2>5. GateIsAnchored' /\ ConfirmedAsProposed' /\ chain'[1].edit = NoEdit
    BY <1>A, <2>1 DEF GateIsAnchored, ConfirmedAsProposed, InHistory
  <2>6. QED
    BY <2>1, <2>2, <2>3, <2>4, <2>5 DEF ServeInv, Last
<1>3. CASE CommitAll
  <2>1. /\ op.pc = "written" /\ UNCHANGED <<remote, chain, token, live, rearm>>
        /\ op'.pc = "committed" /\ op'.edit = op.edit /\ op'.direct = op.direct
        /\ op'.how = op.how
    BY <1>3, <1>T DEF CommitAll, StepTo, Ceremony
  <2>2. GateIsAnchored'
    BY <1>A, <2>1, AnchorKept
  <2>3. QED
    BY <1>A, <1>B, <2>1, <2>2 DEF ServeInv, ConfirmedAsProposed
<1>4. CASE Raises
  <2>1. /\ op.pc # "idle" /\ op'.pc = "idle" /\ UNCHANGED <<history, remote, chain, token, rearm>>
        /\ live'.ok = live.ok /\ live'.commit = live.commit
        /\ live'.how # "raced" => live.how # "raced"
        /\ live'.how = "alone" => live.how = "alone" /\ op.pc # "logged"
    BY <1>4, <1>I, <1>T DEF Raises, Served
  <2>2. GateIsAnchored'
    BY <1>A, <2>1, AnchorKept
  <2>3. QED
    BY <1>A, <1>B, <2>1, <2>2 DEF ServeInv, ConfirmedAsProposed
<1>5. CASE PushDone \/ PushTimesOut
  <2>1. /\ remote' = remote \/ (remote' = history /\ IsPrefix(remote, history))
        /\ UNCHANGED <<history, chain, token, live, rearm>> /\ op.pc = "committed"
        /\ \/ op'.pc = "idle"
           \/ /\ op'.pc = "pushed" /\ op'.edit = op.edit /\ op'.direct = op.direct
              /\ op'.how = op.how
    BY <1>5, <1>I, <1>T DEF PushDone, PushTimesOut, StepTo, Ceremony
  <2>2. \A n : InHistory(remote, n) => InHistory(remote', n)
    BY <1>P, <2>1
  <2>3. GateIsAnchored'
    BY <1>A, <2>1, <2>2, AnchorKept
  <2>4. QED
    BY <1>A, <1>B, <2>1, <2>3 DEF ServeInv, ConfirmedAsProposed
<1>6. CASE PushFails
  <2>1. op.pc = "committed" /\ UNCHANGED <<remote, chain, token, rearm>>
    BY <1>6 DEF PushFails
  <2>2. CASE RollsBack
    <3>1. live' \in Snapshots(work', history') \cup {live} /\ op'.pc = "idle"
      BY <1>6, <2>2 DEF PushFails, Idle
    <3>2. CASE live' = live
      <4>1. GateIsAnchored'
        BY <1>A, <2>1, <3>2, AnchorKept
      <4>2. QED
        BY <1>A, <1>B, <2>1, <3>1, <3>2, <4>1 DEF ServeInv, ConfirmedAsProposed
    <3>3. CASE live' \in Snapshots(work', history')
      <4>1. live'.commit = HeadId(history') /\ (live'.ok => Integrity(history)')
        BY <2>1, <3>3 DEF Snapshots, Integrity
      <4>2. GateIsAnchored' /\ (live'.ok => live'.commit = Last(chain').commit)
        BY <4>1, FreshIsAnchored
      <4>3. QED
        BY <1>A, <1>B, <2>1, <3>1, <4>2 DEF ServeInv, ConfirmedAsProposed
    <3>4. QED
      BY <3>1, <3>2, <3>3
  <2>3. CASE ~RollsBack
    <3>1. /\ op'.pc = "pushed" /\ op'.edit = op.edit /\ op'.direct = op.direct
          /\ op'.how = op.how /\ UNCHANGED <<history, live>>
      BY <1>6, <1>T, <2>3 DEF PushFails, StepTo, Ceremony
    <3>2. GateIsAnchored'
      BY <1>A, <2>1, <3>1, AnchorKept
    <3>3. QED
      BY <1>A, <1>B, <2>1, <3>1, <3>2 DEF ServeInv, ConfirmedAsProposed
  <2>4. QED
    BY <2>2, <2>3
<1>7. CASE AppendRow
  <2> DEFINE row == [commit |-> HeadId(history),
                     edit |-> IF op.direct THEN NoEdit ELSE op.edit,
                     base |-> IF op.direct THEN 0 ELSE token[op.edit].base,
                     how |-> op.how]
  <2>1. /\ op.pc = "pushed" /\ op'.pc = "logged" /\ chain' = Append(chain, row)
        /\ UNCHANGED <<history, remote, token, live, rearm>>
    BY <1>7, <1>T DEF AppendRow, StepTo, Ceremony
  <2>2. row \in ChangeRow
    <3>1. HeadId(history) \in Nat /\ op.edit \in Edit /\ op.how \in How
      BY <1>T, <2>1, HeadTyped DEF PolicyTypeOK, Ceremony
    <3>2. op.direct \in BOOLEAN /\ token[op.edit].base \in Nat
      BY <1>T, <3>1 DEF Ceremony
    <3>3. QED
      BY <3>1, <3>2 DEF ChangeRow
  <2>3. row.edit # NoEdit /\ row.how = "alone" => row.base = Last(chain).commit
    BY <2>1 DEF ServeInv
  <2> HIDE DEF row
  <2>4. PICK n \in Nat \ {0} : n = Len(chain) /\ DOMAIN chain = 1 .. n
    BY <1>T, LenProperties, EmptySeq
  <2>5. /\ DOMAIN chain' = DOMAIN chain \cup {n + 1}
        /\ \A i \in DOMAIN chain : chain'[i] = chain[i]
        /\ chain'[n + 1] = row /\ chain'[n] = Last(chain)
    BY <1>T, <2>1, <2>2, <2>4, AppendBranch
  <2>6. GateIsAnchored'
    BY <1>A, <2>1, <2>5, AnchorKept
  <2>7. ConfirmedAsProposed' /\ chain'[1].edit = NoEdit
    <3>1. chain'[1].edit = NoEdit
      <4>1. 1 \in DOMAIN chain
        BY <2>4
      <4>2. QED
        BY <1>A, <2>5, <4>1
    <3>2. ASSUME NEW i \in DOMAIN chain, chain'[i].edit # NoEdit, chain'[i].how = "alone"
          PROVE  chain'[i].base = chain'[i - 1].commit
      <4>1. chain'[i] = chain[i] /\ i # 1
        BY <1>A, <2>5, <3>2
      <4>2. i - 1 \in DOMAIN chain
        BY <2>4, <4>1
      <4>3. QED
        BY <1>A, <2>5, <3>2, <4>1, <4>2 DEF ConfirmedAsProposed
    <3>3. chain'[n + 1].edit # NoEdit /\ chain'[n + 1].how = "alone" =>
            chain'[n + 1].base = chain'[n].commit
      BY <2>3, <2>5
    <3>4. n + 1 - 1 = n
      BY <2>4
    <3>5. QED
      BY <2>5, <3>1, <3>2, <3>3, <3>4 DEF ConfirmedAsProposed
  <2>8. QED
    BY <1>B, <2>1, <2>6, <2>7 DEF ServeInv
<1>8. CASE Reload \/ Restart
  <2>1. /\ live' \in Snapshots(work, history) /\ UNCHANGED <<history, remote, chain>>
        /\ op'.pc \in {"idle", "served"}
        /\ rearm'.pc = "idle" \/ (op.pc # "idle" /\ rearm' = rearm)
    BY <1>8, <1>T, <1>I DEF Reload, Restart, Ceremony
  <2>2. live'.commit = HeadId(history') /\ (live'.ok => Integrity(history)')
    BY <2>1 DEF Snapshots, Integrity
  <2>3. GateIsAnchored' /\ (live'.ok => live'.commit = Last(chain').commit)
    BY <2>2, FreshIsAnchored
  <2>4. QED
    BY <1>A, <1>B, <2>1, <2>3 DEF ServeInv, ConfirmedAsProposed
<1>9. CASE MarkUsed
  <2>1. /\ op.pc = "served" /\ op'.pc = "idle" /\ UNCHANGED <<history, remote, chain, live, rearm>>
    BY <1>9, <1>I DEF MarkUsed
  <2>2. QED
    BY <1>A, <1>B, <2>1 DEF ServeInv, GateIsAnchored, ConfirmedAsProposed, InHistory
<1>10. CASE ReArmNames \/ ReArmReads \/ ReArmChecks \/ ReArmRaises
  <2>1. UNCHANGED <<history, remote, chain, token, live, op>>
    BY <1>10 DEF ReArmNames, ReArmReads, ReArmChecks, ReArmRaises, ReArmStep
  <2>2. rearm'.pc # "idle" /\ ~rearm'.raced =>
          /\ op.pc = "idle" /\ rearm'.commit = HeadId(history)
          /\ rearm'.pc = "checked" /\ rearm'.ok => Integrity(history)
    <3>1. CASE ReArmNames
      BY <1>I, <1>T, <3>1 DEF ReArmNames, ReArmStep
    <3>2. CASE ReArmReads \/ ReArmChecks
      BY <1>T, <3>2 DEF ReArmReads, ReArmChecks, ReArmStep, ServeInv
    <3>3. CASE ReArmRaises
      BY <1>I, <3>3 DEF ReArmRaises
    <3>4. QED
      BY <1>10, <3>1, <3>2, <3>3
  <2>3. (Integrity(history)' <=> Integrity(history)) /\ HeadId(history') = HeadId(history)
    BY <2>1 DEF Integrity
  <2>4. GateIsAnchored' /\ ConfirmedAsProposed' /\ chain'[1].edit = NoEdit
    BY <1>A, <2>1 DEF GateIsAnchored, ConfirmedAsProposed, InHistory
  <2>5. QED
    BY <2>1, <2>2, <2>3, <2>4 DEF ServeInv
<1>11. CASE ReArmServes
  <2>1. /\ UNCHANGED <<history, remote, chain, token, op>> /\ rearm'.pc = "idle"
        /\ live'.commit = rearm.commit /\ live'.ok = rearm.ok /\ rearm.pc = "checked"
        /\ live'.how = IF rearm.raced THEN "raced" ELSE "alone"
    BY <1>11 DEF ReArmServes, ReArmStep, NoReArm
  <2>2. CASE rearm.raced
    <3>1. GateIsAnchored'
      BY <2>1, <2>2 DEF GateIsAnchored
    <3>2. QED
      BY <1>A, <2>1, <2>2, <3>1 DEF ServeInv, ConfirmedAsProposed
  <2>3. CASE ~rearm.raced
    <3>1. live'.commit = HeadId(history') /\ (live'.ok => Integrity(history)')
      BY <2>1, <2>3 DEF ServeInv, Integrity
    <3>2. GateIsAnchored' /\ (live'.ok => live'.commit = Last(chain').commit)
      BY <3>1, FreshIsAnchored
    <3>3. QED
      BY <1>A, <2>1, <2>3, <3>2 DEF ServeInv, ConfirmedAsProposed
  <2>4. QED
    BY <2>2, <2>3
<1>12. CASE UNCHANGED vars
  BY <1>12 DEF vars, ServeInv, GateIsAnchored, ConfirmedAsProposed, InHistory, Integrity
<1>13. QED
  BY <1>1, <1>2, <1>3, <1>4, <1>5, <1>6, <1>7, <1>8, <1>9, <1>10, <1>11, <1>12 DEF Next

(* Types, rows and what is served: the inductive invariant of the gate.    *)
LEMMA GateInvariant == Spec => []ServeInv
<1>1. /\ PolicyTypeOK /\ PolicyTypeOK' /\ RowInv /\ RowInv' /\ ServeInv /\ [Next]_vars
      => ServeInv'
  BY ServeStep
<1>2. QED
  BY <1>1, ServeInit, PolicyInvariant, PTL DEF Spec

(* The gate serves only what is in the change log, on the branch and on    *)
(* the remote, whatever raises, dies or is half done and however re-arms   *)
(* overlap ceremonies, unless what it serves is what such a re-arm loaded. *)
THEOREM GateServesAnchored == Spec => []GateIsAnchored
<1>1. ServeInv => GateIsAnchored
  BY DEF ServeInv
<1>2. QED
  BY <1>1, GateInvariant, PTL

(* And what a row says was confirmed was confirmed against the policy      *)
(* accepted last, unless a re-arm or a failed reload had put another one   *)
(* before the operator.                                                    *)
THEOREM RowsFollowTheirBase == Spec => []ConfirmedAsProposed
<1>1. ServeInv => ConfirmedAsProposed
  BY DEF ServeInv
<1>2. QED
  BY <1>1, GateInvariant, PTL
=============================================================================
