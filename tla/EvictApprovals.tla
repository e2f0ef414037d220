---------------------------- MODULE EvictApprovals ----------------------------
(***************************************************************************)
(* The operator's cron script (scripts/evict-approvals.sh) in front of the *)
(* janitor it calls, evictExpiredApprovals of src/backend/main.mo, while   *)
(* the gates of the canister go on reading and writing the approval cache. *)
(* Runs of the script may overlap.  A call of the CLI may fail before or   *)
(* after the canister has served it, also for want of a controller's       *)
(* identity, where the canister traps.                                     *)
(***************************************************************************)
EXTENDS ApprovalCache

CONSTANTS
  Runs,          \* runs of the script
  Batches,       \* values of HAVEN_AOL_BATCH; the script takes 0
  MaxIterations, \* HAVEN_AOL_MAX_ITERATIONS
  Holders,       \* the keys the gates look up and record
  MaxTime        \* bound on the clock

ASSUME ScriptConstants ==
  /\ Batches \subseteq Nat /\ MaxIterations \in Nat /\ MaxTime \in Nat
  /\ Holders \subseteq ApprovalKeys

VARIABLES
  now,             \* the canister's clock
  approvedHolders, \* the approval cache
  pc,              \* where each run is
  dryRun,          \* whether it was started with --dry-run
  batch,           \* HAVEN_AOL_BATCH in its environment
  iter, total,     \* ITER and TOTAL_DELETED
  count,           \* the canister's answer to the call in flight
  code,            \* the exit code
  removed,         \* history: how many rows the canister deleted for the run
  left             \* history: how many expired rows its last call left behind

options == <<dryRun, batch>>
script  == <<options, iter, total>>
vars == <<now, approvedHolders, pc, script, count, code, removed, left>>

Running == 9   \* no exit code yet

TypeOK ==
  /\ now \in 0..MaxTime
  /\ approvedHolders \in ApprovalRows
  /\ pc \in [Runs -> {"off", "calling", "served", "exited"}]
  /\ dryRun \in [Runs -> BOOLEAN] /\ batch \in [Runs -> Batches]
  /\ iter \in [Runs -> 0..MaxIterations]
  /\ \A r \in Runs :
       total[r] \in 0 .. MaxIterations * batch[r] /\ count[r] \in 0..batch[r]
  /\ code \in [Runs -> {0, 2, 3, Running}]
  /\ removed \in [Runs -> Nat] /\ left \in [Runs -> Nat]

Init ==
  /\ now = 0
  /\ approvedHolders = EmptyApprovals
  /\ pc = [r \in Runs |-> "off"]
  /\ dryRun \in [Runs -> BOOLEAN] /\ batch \in [Runs -> Batches]
  /\ iter = [r \in Runs |-> 0] /\ total = [r \in Runs |-> 0]
  /\ count = [r \in Runs |-> 0]
  /\ code = [r \in Runs |-> Running]
  /\ removed = [r \in Runs |-> 0] /\ left = [r \in Runs |-> 0]

-----------------------------------------------------------------------------
(* The script. *)

Exit(r, c) ==
  /\ pc' = [pc EXCEPT ![r] = "exited"]
  /\ code' = [code EXCEPT ![r] = c]
  /\ UNCHANGED iter

Call(r) ==
  /\ pc' = [pc EXCEPT ![r] = "calling"]
  /\ UNCHANGED code

(* Broken on purpose: the loop makes a pass too many. *)
PassesLeftByOne(i) == i <= MaxIterations

PassesLeft(i) == i < MaxIterations

(* Broken on purpose: the script falls out of its loop without an error. *)
CapUnnoticed == 0

(* The code it exits with when it hits the iteration cap. *)
CapHit == 3

(* The head of the loop, and what comes after it. *)
NextPass(r) ==
  \/ /\ PassesLeft(iter[r])
     /\ iter' = [iter EXCEPT ![r] = iter[r] + 1]
     /\ Call(r)
  \/ ~ PassesLeft(iter[r]) /\ Exit(r, CapHit)

Start(r) ==
  /\ pc[r] = "off"
  /\ \/ dryRun[r] /\ Call(r) /\ UNCHANGED iter
     \/ ~ dryRun[r] /\ NextPass(r)
  /\ UNCHANGED <<now, approvedHolders, options, total, count, removed, left>>

(* Broken on purpose: a call that failed is made again. *)
CallAgain(r) == Call(r) /\ UNCHANGED iter

ReportFailure(r) == Exit(r, 2)

CallFails(r) ==
  /\ pc[r] \in {"calling", "served"}
  /\ ReportFailure(r)
  /\ UNCHANGED <<now, approvedHolders, options, total, count, removed, left>>

(* Broken on purpose: only the last count is reported. *)
LastCount(r) == count[r]

NewTotal(r) == total[r] + count[r]

(* parse_count, and the rest of the loop's body or of the dry run. *)
ReplyArrives(r) ==
  /\ pc[r] = "served"
  /\ \/ /\ dryRun[r]
        /\ Exit(r, IF count[r] = 0 THEN 0 ELSE 2)
        /\ UNCHANGED total
     \/ /\ ~ dryRun[r]
        /\ total' = [total EXCEPT ![r] = NewTotal(r)]
        /\ \/ count[r] = 0 /\ Exit(r, 0)
           \/ count[r] # 0 /\ NextPass(r)
  /\ UNCHANGED <<now, approvedHolders, options, count, removed, left>>

-----------------------------------------------------------------------------
(* The canister, and its clock. *)

EvictExpiredApprovals(r) ==
  LET expired == ExpiredApprovals(approvedHolders, now) IN
  /\ pc[r] = "calling"
  /\ pc' = [pc EXCEPT ![r] = "served"]
  /\ \E D \in Sweeps(expired, IF dryRun[r] THEN 0 ELSE batch[r]) :
       /\ approvedHolders' = Without(approvedHolders, D)
       /\ count' = [count EXCEPT ![r] = Cardinality(D)]
       /\ removed' = [removed EXCEPT ![r] = @ + Cardinality(D)]
       /\ left' = [left EXCEPT ![r] = Cardinality(expired \ D)]
  /\ UNCHANGED <<now, script, code>>

(* A gate looks a holder up and, at a miss, may find the balance to record. *)
GateUsesCache ==
  /\ \E k \in Holders :
       \/ approvedHolders' = DropIfStale(approvedHolders, k, now)
       \/ /\ ~ IsApprovedHolder(approvedHolders, k, now)
          /\ approvedHolders' = RecordApproval(approvedHolders, k, now)
  /\ UNCHANGED <<now, pc, script, count, code, removed, left>>

Tick ==
  /\ now < MaxTime
  /\ now' = now + 1
  /\ UNCHANGED <<approvedHolders, pc, script, count, code, removed, left>>

Step(r) == CallFails(r) \/ ReplyArrives(r) \/ EvictExpiredApprovals(r)

Next ==
  \/ \E r \in Runs : Start(r) \/ Step(r)
  \/ GateUsesCache
  \/ Tick

(* The CLI comes back, with an answer or without. *)
Spec == Init /\ [][Next]_vars
FairSpec == Spec /\ \A r \in Runs : WF_vars(Step(r))

-----------------------------------------------------------------------------
(* Properties. *)

(* "Steady state reached -- cache fully drained or already empty" (exit    *)
(* code 0 in the script's header): the last call of a run that exits with  *)
(* 0 left no expired row behind, whatever other runs and the gates did.    *)
(* Not with a batch of 0, which the canister answers without looking.      *)
SteadyStateDrained ==
  \A r \in Runs : code[r] = 0 /\ ~ dryRun[r] /\ batch[r] # 0 => left[r] = 0

(* "Total work per run is bounded" (the script's design contract): also    *)
(* when replies are lost and rows are recorded while the script runs; and  *)
(* a dry run deletes nothing.                                              *)
WorkBounded ==
  \A r \in Runs : removed[r] <= IF dryRun[r] THEN 0 ELSE MaxIterations * batch[r]

(* The total a run reports, when it does not fail, is what was deleted for *)
(* it, the deletions of overlapping runs not counted; a run that fails has *)
(* reported too little by one batch at most.                               *)
TotalsHonest ==
  \A r \in Runs :
    /\ code[r] \in {0, 3} => total[r] = removed[r]
    /\ removed[r] - total[r] \in 0..batch[r]

(* Every run ends, however fast the gates record new rows, and with every  *)
(* batch, 0 too: a pass that can delete nothing is not made for ever.      *)
RunsEnd == \A r \in Runs : pc[r] = "calling" ~> pc[r] = "exited"

=============================================================================
