---------------------------- MODULE PolicyControl ----------------------------
(***************************************************************************)
(* The CMDB's policy and its change control                                *)
(* (apps/cmdb/backend/app: services/change_control.py, policy/store.py,    *)
(* policy/gitrepo.py, chainlog.py).                                        *)
(*                                                                         *)
(* A confirmed edit goes through the working tree, a commit, a push, a row *)
(* of the change log, the snapshot the gate reads and the token's used     *)
(* flag, under one lock.  Any of these fails with the process alive, or    *)
(* the process dies before it.  /re-arm boots the store in a thread of its *)
(* own, outside that lock.                                                 *)
(***************************************************************************)
EXTENDS Naturals, Sequences, SequencesExt

CONSTANTS
  Edit,        \* the edits operators propose, to files of their own
  Weak,        \* those the classifier finds gate-weakening
  NoEdit,
  MaxCommits   \* bound: commits made

ASSUME PolicyAssumption ==
  /\ Weak \subseteq Edit /\ NoEdit \notin Edit
  /\ MaxCommits \in Nat

VARIABLES
  work,      \* the working tree, as the edits its files show
  history,   \* the local branch: a sequence of commits; the last one is HEAD
  made,      \* commits made so far
  remote,    \* the branch on the remote
  chain,     \* the rows of policy_change_log
  token,     \* the last confirm token of each edit
  live,      \* in memory: snapshot and integrity state, what the gate serves,
             \* and, as history, how it came there (How)
  op,        \* the ceremony that holds the lock
  rearm      \* the /re-arm under way, what it has read and, as history,
             \* whether a ceremony overlapped it

repoVars == <<work, history, made, remote>>
vars == <<repoVars, chain, token, live, op, rearm>>

Commit(n, tree) == [id |-> n, tree |-> tree]
(* Loaded with HEAD to itself and nothing accepted since; loaded so, and a *)
(* reload after an accepted edit failed; by a re-arm a ceremony overlapped.*)
How == {"alone", "missed", "raced"}
Idle == [pc |-> "idle", edit |-> NoEdit, direct |-> FALSE, how |-> "alone"]
NoReArm == [pc |-> "idle", commit |-> 0, tree |-> {}, ok |-> FALSE, raced |-> FALSE]
NoToken == [status |-> "none", base |-> 0]

(* The genesis is committed, logged, and pushed by the operator.           *)
Genesis == Commit(0, {})
Init ==
  /\ work = {} /\ history = <<Genesis>> /\ made = 0
  /\ remote = <<Genesis>>
  /\ chain = <<[commit |-> 0, edit |-> NoEdit, base |-> 0, how |-> "alone"]>>
  /\ token = [e \in Edit |-> NoToken]
  /\ live = [commit |-> 0, tree |-> {}, ok |-> TRUE, how |-> "alone"]
  /\ op = Idle /\ rearm = NoReArm

-----------------------------------------------------------------------------
(* The store.                                                              *)

HeadId(h) == Last(h).id

(* check_integrity: HEAD is the tip of the change log, and a branch tip on *)
(* the remote.  Mutant: the log is not looked at.                          *)
Integrity_NoChain(h) == HeadId(h) = HeadId(remote)
Integrity(h) == HeadId(h) = Last(chain).commit /\ HeadId(h) = HeadId(remote)

(* build_snapshot names the tree it reads by the commit that is HEAD; the  *)
(* remote may not answer check_integrity, which then fails.                *)
Snapshots(tree, h) ==
  [commit : {HeadId(h)}, tree : {tree}, ok : {Integrity(h), FALSE}, how : {"alone"}]

(* The process dies anywhere, comes up and boots.                          *)
Restart ==
  /\ live' \in Snapshots(work, history)
  /\ op' = Idle /\ rearm' = NoReArm
  /\ UNCHANGED <<repoVars, chain, token>>

(* /re-arm: HEAD, then the files, then the integrity, then the swap.       *)
ReArmStep(from, to, new) ==
  /\ rearm.pc = from
  /\ rearm' = [new EXCEPT !.pc = to]
  /\ UNCHANGED <<repoVars, chain, token, op>>

ReArmNames ==
  /\ ReArmStep("idle", "named", [rearm EXCEPT !.commit = HeadId(history), !.raced = op # Idle])
  /\ UNCHANGED live

ReArmReads ==
  ReArmStep("named", "read", [rearm EXCEPT !.tree = work]) /\ UNCHANGED live

ReArmChecks ==
  \E ok \in {Integrity(history), FALSE} :
    ReArmStep("read", "checked", [rearm EXCEPT !.ok = ok]) /\ UNCHANGED live

ReArmServes ==
  /\ ReArmStep("checked", "idle", NoReArm)
  /\ live' = [commit |-> rearm.commit, tree |-> rearm.tree, ok |-> rearm.ok,
              how |-> IF rearm.raced THEN "raced" ELSE "alone"]

(* boot catches a bad file, not a git that fails or times out.             *)
ReArmRaises ==
  /\ rearm.pc # "idle" /\ rearm' = NoReArm
  /\ UNCHANGED <<repoVars, chain, token, live, op>>

-----------------------------------------------------------------------------
(* Change control.                                                         *)

StepTo(pc) == op' = [op EXCEPT !.pc = pc]

Propose(e) ==
  /\ token[e].status # "used" /\ op.edit # e
  /\ token' = [token EXCEPT ![e] = [status |-> "new", base |-> live.commit]]
  /\ UNCHANGED <<repoVars, chain, live, op, rearm>>

(* Mutant: the policy may have moved since the proposal.                   *)
NoDrift_Unchecked(e) == token[e].base <= live.commit
NoDrift(e) == token[e].base = live.commit

(* write_files, with nothing to keep a re-arm out.                         *)
Start(e, direct) ==
  /\ op = Idle /\ live.ok
  /\ work' = work \cup {e}
  /\ op' = [pc |-> "written", edit |-> e, direct |-> direct, how |-> live.how]
  /\ rearm' = [rearm EXCEPT !.raced = rearm.pc # "idle"]
  /\ UNCHANGED <<history, made, remote, chain, token, live>>

(* The checks of confirm.                                                  *)
Confirm(e) == token[e].status = "new" /\ NoDrift(e) /\ Start(e, FALSE)

(* apply_direct_tightening: no token, and refused when it weakens.         *)
DirectTightening(e) == e \notin Weak /\ Start(e, TRUE)

(* git add -A and commit take the whole of the working tree; there must be *)
(* something to commit.                                                    *)
CommitAll ==
  /\ op.pc = "written" /\ made < MaxCommits
  /\ work # Last(history).tree
  /\ made' = made + 1
  /\ history' = Append(history, Commit(made + 1, work))
  /\ StepTo("committed")
  /\ UNCHANGED <<work, remote, chain, token, live, rearm>>

(* Any step but the push may raise: git, the schema, the database.  The    *)
(* lock is released and what was done stays done: files written, or a      *)
(* commit no row names, or a row whose edit the gate does not serve and    *)
(* whose token is unused, or only the latter.                              *)
Raises ==
  /\ op.pc \in {"written", "pushed", "logged", "served"} /\ op' = Idle
  /\ live' = IF op.pc = "logged" /\ live.how = "alone"
             THEN [live EXCEPT !.how = "missed"] ELSE live
  /\ UNCHANGED <<repoVars, chain, token, rearm>>

(* A push is a fast-forward of the remote.                                 *)
PushDone ==
  /\ op.pc = "committed" /\ IsPrefix(remote, history)
  /\ remote' = history /\ StepTo("pushed")
  /\ UNCHANGED <<work, history, made, chain, token, live, rearm>>

(* Mutant: a weakening edit takes effect as a tightening one does.         *)
RollsBack_Never == op.edit = NoEdit
RollsBack == op.edit \in Weak

(* The push is refused: a weakening edit is rolled back (reset --hard) and *)
(* the snapshot reloaded, which may raise; another goes on.                *)
PushFails ==
  /\ op.pc = "committed"
  /\ IF RollsBack
     THEN /\ history' = Front(history)
          /\ work' = Last(history').tree
          /\ live' \in Snapshots(work', history') \cup {live}
          /\ op' = Idle
     ELSE StepTo("pushed") /\ UNCHANGED <<work, history, live>>
  /\ UNCHANGED <<made, remote, chain, token, rearm>>

(* A push that times out, or a rollback that fails, raises what nobody     *)
(* catches, whether the remote has taken the commit or not.                *)
PushTimesOut ==
  /\ op.pc = "committed" /\ op' = Idle
  /\ remote' \in IF IsPrefix(remote, history) THEN {remote, history} ELSE {remote}
  /\ UNCHANGED <<work, history, made, chain, token, live, rearm>>

AppendRow ==
  /\ op.pc = "pushed" /\ StepTo("logged")
  /\ chain' = Append(chain, [commit |-> HeadId(history),
                             edit |-> IF op.direct THEN NoEdit ELSE op.edit,
                             base |-> IF op.direct THEN 0 ELSE token[op.edit].base,
                             how |-> op.how])
  /\ UNCHANGED <<repoVars, token, live, rearm>>

Reload ==
  /\ op.pc = "logged"
  /\ live' \in Snapshots(work, history)
  /\ op' = IF op.direct THEN Idle ELSE [op EXCEPT !.pc = "served"]
  /\ UNCHANGED <<repoVars, chain, token, rearm>>

MarkUsed ==
  /\ op.pc = "served" /\ op' = Idle
  /\ token' = [token EXCEPT ![op.edit].status = "used"]
  /\ UNCHANGED <<repoVars, chain, live, rearm>>

-----------------------------------------------------------------------------
Next ==
  \/ \E e \in Edit : Propose(e) \/ Confirm(e) \/ DirectTightening(e)
  \/ CommitAll \/ Raises \/ PushDone \/ PushFails \/ PushTimesOut
  \/ AppendRow \/ Reload \/ MarkUsed
  \/ Restart \/ ReArmNames \/ ReArmReads \/ ReArmChecks \/ ReArmServes \/ ReArmRaises

Spec == Init /\ [][Next]_vars

-----------------------------------------------------------------------------
InHistory(h, n) == \E i \in DOMAIN h : h[i].id = n

(* The gate serves only what is anchored: the commit its snapshot is named *)
(* by is in the change log, on the local branch and on the remote, however *)
(* the process died, whatever raised and whatever was half done (store.py, *)
(* "A restore is therefore DETECTED, not assumed announced").  The         *)
(* exception is a snapshot a re-arm loaded while a ceremony was under way: *)
(* it may be named by a commit that was rolled back.                       *)
GateIsAnchored ==
  live.ok /\ live.how # "raced" =>
    /\ \E i \in DOMAIN chain : chain[i].commit = live.commit
    /\ InHistory(history, live.commit) /\ InHistory(remote, live.commit)

(* A row is never left behind: what the log says was accepted stays on the *)
(* branch, and a weakening edit it names is on the remote already          *)
(* (change_control.py, "push success to the remote is a PRECONDITION").    *)
RowsAreAnchored ==
  \A i \in DOMAIN chain :
    /\ InHistory(history, chain[i].commit)
    /\ chain[i].edit \in Weak => InHistory(remote, chain[i].commit)

(* What a row says was confirmed was confirmed against the policy that the *)
(* log had accepted last: no accepted edit lies between the proposal and   *)
(* the confirmation (change_control.py, "policy moved under you"), through *)
(* rollbacks, failures and deaths.  Two things break it, and a row says    *)
(* which: the reload after the last accepted edit raised, so that the gate *)
(* still served the policy before it, or a re-arm that a ceremony          *)
(* overlapped put an older snapshot back.                                  *)
ConfirmedAsProposed ==
  \A i \in DOMAIN chain :
    chain[i].edit # NoEdit /\ chain[i].how = "alone" => chain[i].base = chain[i - 1].commit
=============================================================================
