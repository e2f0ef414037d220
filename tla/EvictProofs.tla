------------------------------ MODULE EvictProofs ------------------------------
(***************************************************************************)
(* Proofs about the cron script and the janitor it calls, for every number *)
(* of overlapping runs, every batch, every cap on the iterations and every *)
(* set of rows the gates record meanwhile.                                 *)
(***************************************************************************)
EXTENDS EvictApprovals, FiniteSetTheorems, TLAPS

Rows == {k \in ApprovalKeys : approvedHolders[k] # NoRow}

(* The part of TypeOK without the bounds on the counts.                    *)
Typed ==
  /\ now \in 0..MaxTime
  /\ approvedHolders \in ApprovalRows
  /\ pc \in [Runs -> {"off", "calling", "served", "exited"}]
  /\ dryRun \in [Runs -> BOOLEAN] /\ batch \in [Runs -> Batches]
  /\ iter \in [Runs -> 0..MaxIterations]
  /\ total \in [Runs -> Nat] /\ count \in [Runs -> Nat]
  /\ code \in [Runs -> {0, 2, 3, Running}]
  /\ removed \in [Runs -> Nat] /\ left \in [Runs -> Nat]

(* What a run has had deleted is what it has counted, but for the answer   *)
(* that is on its way, and never more than its passes allow.  A pass that  *)
(* is under way has room for a whole batch.                                *)
Work(r) ==
  /\ count[r] <= IF dryRun[r] THEN 0 ELSE batch[r]
  /\ dryRun[r] => removed[r] = 0
  /\ removed[r] <= iter[r] * batch[r]
  /\ pc[r] = "calling" /\ ~ dryRun[r] => removed[r] + batch[r] <= iter[r] * batch[r]
  /\ pc[r] \in {"off", "calling"} => removed[r] = total[r]
  /\ pc[r] = "served" => removed[r] = total[r] + count[r]
  /\ pc[r] = "exited" => removed[r] - total[r] \in 0..batch[r]

(* What the exit code of a run says, and what a count of 0 will say.       *)
Verdict(r) ==
  /\ pc[r] # "exited" => code[r] = Running
  /\ code[r] \in {0, 3} => removed[r] = total[r]
  /\ ~ dryRun[r] /\ batch[r] # 0 =>
       /\ pc[r] = "served" /\ count[r] = 0 => left[r] = 0
       /\ code[r] = 0 => left[r] = 0

EvictInv ==
  /\ Typed
  /\ IsFiniteSet(Rows)
  /\ \A r \in Runs : Work(r) /\ Verdict(r)

-----------------------------------------------------------------------------
(* Facts about the helpers. *)

LEMMA OnePassMore ==
  ASSUME NEW i \in Nat, NEW b \in Nat
  PROVE  i * b \in Nat /\ (i + 1) * b = i * b + b
OBVIOUS

LEMMA PassesBounded ==
  ASSUME NEW i \in Nat, NEW m \in Nat, i <= m, NEW b \in Nat
  PROVE  i * b <= m * b
OBVIOUS

(* A sweep deletes no more than it may; what is expired and left behind is *)
(* nothing, if it deletes less.                                            *)
LEMMA SweepCounts ==
  ASSUME NEW E, IsFiniteSet(E), NEW m \in Nat, NEW D \in Sweeps(E, m)
  PROVE  /\ Cardinality(D) \in 0..m
         /\ Cardinality(E \ D) \in Nat
         /\ Cardinality(D) < m => Cardinality(E \ D) = 0
<1>1. D \subseteq E /\ IsFiniteSet(D) /\ Cardinality(D) \in Nat
  BY FS_Subset, FS_CardinalityType DEF Sweeps
<1>2. IsFiniteSet(E \ D) /\ Cardinality(E \ D) \in Nat
  BY FS_Subset, FS_CardinalityType
<1>3. ASSUME D = E PROVE Cardinality(E \ D) = 0
  <2>1. E \ D = {}
    BY <1>3
  <2> QED
    BY <2>1, FS_EmptySet
<1> QED
  BY <1>1, <1>2, <1>3 DEF Sweeps

LEMMA RowsShrink ==
  ASSUME EvictInv, \A k \in ApprovalKeys : approvedHolders'[k] # NoRow => approvedHolders[k] # NoRow
  PROVE  IsFiniteSet(Rows')
<1>1. Rows' \subseteq Rows
  BY DEF Rows
<1> QED
  BY <1>1, FS_Subset DEF EvictInv

LEMMA RunKept ==
  ASSUME NEW d \in Runs, Work(d), Verdict(d),
         pc'[d] = pc[d], dryRun'[d] = dryRun[d], batch'[d] = batch[d],
         iter'[d] = iter[d], total'[d] = total[d], count'[d] = count[d],
         code'[d] = code[d], removed'[d] = removed[d], left'[d] = left[d]
  PROVE  Work(d)' /\ Verdict(d)'
BY DEF Work, Verdict

LEMMA RunFields ==
  ASSUME Typed, NEW r \in Runs
  PROVE  /\ batch[r] \in Nat /\ iter[r] \in Nat /\ iter[r] <= MaxIterations
         /\ total[r] \in Nat /\ count[r] \in Nat
         /\ removed[r] \in Nat /\ left[r] \in Nat
         /\ iter[r] * batch[r] \in Nat
         /\ (iter[r] + 1) * batch[r] = iter[r] * batch[r] + batch[r]
<1>1. batch[r] \in Nat
  BY ScriptConstants DEF Typed
<1>2. iter[r] \in Nat /\ iter[r] <= MaxIterations
  BY ScriptConstants DEF Typed
<1>3. /\ total[r] \in Nat /\ count[r] \in Nat
      /\ removed[r] \in Nat /\ left[r] \in Nat
  BY DEF Typed
<1> QED
  BY <1>1, <1>2, <1>3, OnePassMore

-----------------------------------------------------------------------------
(* One run. *)

(* The head of the loop, with the passes so far accounted for. *)
LEMMA PassKeeps ==
  ASSUME Typed, NEW r \in Runs, NextPass(r), ~ dryRun[r],
         UNCHANGED <<options, count, removed, left>>,
         total'[r] = removed[r], count[r] <= batch[r],
         removed[r] <= iter[r] * batch[r], code[r] = Running
  PROVE  Work(r)' /\ Verdict(r)' /\ iter' \in [Runs -> 0..MaxIterations]
<1>1. CASE PassesLeft(iter[r]) /\ iter' = [iter EXCEPT ![r] = iter[r] + 1] /\ Call(r)
  <2>1. /\ pc'[r] = "calling" /\ code'[r] = Running
        /\ iter'[r] = iter[r] + 1
        /\ dryRun'[r] = dryRun[r] /\ batch'[r] = batch[r]
        /\ count'[r] = count[r] /\ removed'[r] = removed[r]
    BY <1>1 DEF Call, Typed, options
  <2>2. iter' \in [Runs -> 0..MaxIterations]
    BY <1>1, ScriptConstants DEF PassesLeft, Typed
  <2>3. iter'[r] * batch'[r] = iter[r] * batch[r] + batch[r]
    BY <2>1, RunFields
  <2>4. Work(r)'
    BY <2>1, <2>3, RunFields DEF Work
  <2> QED
    BY <2>1, <2>2, <2>4 DEF Verdict, Running
<1>2. CASE Exit(r, CapHit)
  <2>1. /\ pc'[r] = "exited" /\ code'[r] = 3
        /\ iter'[r] = iter[r]
        /\ dryRun'[r] = dryRun[r] /\ batch'[r] = batch[r]
        /\ count'[r] = count[r] /\ removed'[r] = removed[r]
    BY <1>2 DEF Exit, CapHit, Typed, options
  <2>2. Work(r)'
    BY <2>1, RunFields DEF Work
  <2> QED
    BY <1>2, <2>1, <2>2 DEF Verdict, Exit, Typed
<1> QED
  BY <1>1, <1>2 DEF NextPass

-----------------------------------------------------------------------------
(* The steps. *)

(* The other runs are left alone. *)
Alone(r) ==
  \A d \in Runs \ {r} :
    /\ pc'[d] = pc[d] /\ dryRun'[d] = dryRun[d] /\ batch'[d] = batch[d]
    /\ iter'[d] = iter[d] /\ total'[d] = total[d] /\ count'[d] = count[d]
    /\ code'[d] = code[d] /\ removed'[d] = removed[d] /\ left'[d] = left[d]

LEMMA StepKeeps ==
  ASSUME EvictInv, NEW r \in Runs, Typed', IsFiniteSet(Rows'), Alone(r),
         Work(r)', Verdict(r)'
  PROVE  EvictInv'
<1>1. \A d \in Runs \ {r} : Work(d)' /\ Verdict(d)'
  BY RunKept DEF EvictInv, Alone
<1> QED
  BY <1>1 DEF EvictInv

(* The part of a step that only the script takes. *)
LEMMA ScriptKeeps ==
  ASSUME EvictInv, NEW r \in Runs, NextPass(r) \/ Call(r) \/ \E x \in {0, 2, 3} : Exit(r, x),
         UNCHANGED <<now, approvedHolders, options, count, removed, left>>,
         iter' \in [Runs -> 0..MaxIterations], \A d \in Runs \ {r} : iter'[d] = iter[d],
         total' \in [Runs -> Nat], \A d \in Runs \ {r} : total'[d] = total[d],
         Work(r)', Verdict(r)'
  PROVE  EvictInv'
<1>1. Typed
  BY DEF EvictInv
<1>2. CASE Call(r)
  <2>1. /\ pc' \in [Runs -> {"off", "calling", "served", "exited"}]
        /\ \A d \in Runs \ {r} : pc'[d] = pc[d]
        /\ code' = code
    BY <1>1, <1>2 DEF Call, Typed
  <2>2. Typed' /\ Alone(r)
    BY <1>1, <2>1 DEF Typed, Alone, options
  <2> QED
    BY <2>2, RowsShrink, StepKeeps
<1>3. CASE \E x \in {0, 2, 3} : Exit(r, x)
  <2>1. /\ pc' \in [Runs -> {"off", "calling", "served", "exited"}]
        /\ code' \in [Runs -> {0, 2, 3, Running}]
        /\ \A d \in Runs \ {r} : pc'[d] = pc[d] /\ code'[d] = code[d]
    BY <1>1, <1>3 DEF Exit, Typed
  <2>2. Typed' /\ Alone(r)
    BY <1>1, <2>1 DEF Typed, Alone, options
  <2> QED
    BY <2>2, RowsShrink, StepKeeps
<1> QED
  BY <1>2, <1>3 DEF NextPass, CapHit

(* What the head of the loop does to the count of passes. *)
LEMMA PassCounts ==
  ASSUME Typed, NEW r \in Runs, NextPass(r)
  PROVE  /\ iter' \in [Runs -> 0..MaxIterations]
         /\ \A d \in Runs \ {r} : iter'[d] = iter[d]
BY ScriptConstants DEF NextPass, PassesLeft, Exit, Typed

LEMMA StartKeeps ==
  ASSUME EvictInv, NEW r \in Runs, Start(r)
  PROVE  EvictInv'
<1>1. /\ pc[r] = "off" /\ total' = total
      /\ UNCHANGED <<now, approvedHolders, options, total, count, removed, left>>
      /\ Typed /\ Work(r) /\ Verdict(r)
  BY DEF Start, EvictInv
<1>2. CASE dryRun[r] /\ Call(r) /\ UNCHANGED iter
  <2>1. /\ pc'[r] = "calling" /\ code'[r] = code[r]
        /\ iter'[r] = iter[r] /\ total'[r] = total[r]
        /\ dryRun'[r] = dryRun[r] /\ batch'[r] = batch[r]
        /\ count'[r] = count[r] /\ removed'[r] = removed[r]
    BY <1>1, <1>2 DEF Call, Typed, options
  <2>2. Work(r)'
    BY <1>1, <1>2, <2>1 DEF Work
  <2>3. code'[r] = Running
    BY <1>1, <2>1 DEF Verdict
  <2>4. Verdict(r)'
    BY <2>1, <2>3 DEF Verdict, Running
  <2> QED
    BY <1>1, <1>2, <2>2, <2>4, ScriptKeeps DEF Typed
<1>3. CASE ~ dryRun[r] /\ NextPass(r)
  <2>1. /\ total'[r] = removed[r] /\ count[r] <= batch[r]
        /\ removed[r] <= iter[r] * batch[r] /\ code[r] = Running
    BY <1>1, <1>3 DEF Work, Verdict
  <2>2. Work(r)' /\ Verdict(r)'
    BY <1>1, <1>3, <2>1, PassKeeps
  <2> QED
    BY <1>1, <1>3, <2>2, PassCounts, ScriptKeeps DEF Typed
<1> QED
  BY <1>2, <1>3 DEF Start

LEMMA FailKeeps ==
  ASSUME EvictInv, NEW r \in Runs, CallFails(r)
  PROVE  EvictInv'
<1>1. /\ pc[r] \in {"calling", "served"} /\ Exit(r, 2)
      /\ UNCHANGED <<now, approvedHolders, options, total, count, removed, left>>
      /\ Typed /\ Work(r) /\ Verdict(r)
  BY DEF CallFails, ReportFailure, EvictInv
<1>2. /\ pc'[r] = "exited" /\ code'[r] = 2
      /\ iter' = iter /\ total' = total /\ dryRun'[r] = dryRun[r]
      /\ batch'[r] = batch[r] /\ count'[r] = count[r] /\ removed'[r] = removed[r]
  BY <1>1 DEF Exit, Typed, options
<1>3. removed[r] - total[r] \in 0..batch[r]
  BY <1>1, RunFields DEF Work
<1>4. Work(r)'
  BY <1>1, <1>2, <1>3 DEF Work
<1>5. Verdict(r)'
  BY <1>2 DEF Verdict
<1> QED
  BY <1>1, <1>2, <1>4, <1>5, ScriptKeeps DEF Typed

LEMMA ReplyKeeps ==
  ASSUME EvictInv, NEW r \in Runs, ReplyArrives(r)
  PROVE  EvictInv'
<1>1. /\ pc[r] = "served"
      /\ UNCHANGED <<now, approvedHolders, options, count, removed, left>>
      /\ Typed /\ Work(r) /\ Verdict(r)
  BY DEF ReplyArrives, EvictInv
<1>2. /\ removed[r] = total[r] + count[r] /\ code[r] = Running
      /\ count[r] <= batch[r] /\ removed[r] <= iter[r] * batch[r]
      /\ dryRun[r] => count[r] = 0
  BY <1>1, RunFields DEF Work, Verdict
<1>3. CASE dryRun[r] /\ Exit(r, IF count[r] = 0 THEN 0 ELSE 2) /\ UNCHANGED total
  <2>1. /\ Exit(r, 0) /\ pc'[r] = "exited" /\ code'[r] = 0
        /\ iter' = iter /\ dryRun'[r] = dryRun[r] /\ batch'[r] = batch[r]
        /\ count'[r] = count[r] /\ removed'[r] = removed[r] /\ total'[r] = total[r]
    BY <1>1, <1>2, <1>3 DEF Exit, Typed, options
  <2>2. removed[r] = total[r] /\ removed[r] - total[r] \in 0..batch[r]
    BY <1>2, <1>3, <1>1, RunFields
  <2>3. Work(r)'
    BY <1>1, <2>1, <2>2 DEF Work
  <2>4. Verdict(r)'
    BY <1>3, <2>1, <2>2 DEF Verdict
  <2> QED
    BY <1>1, <1>3, <2>1, <2>3, <2>4, ScriptKeeps DEF Typed
<1>4. CASE ~ dryRun[r] /\ total' = [total EXCEPT ![r] = NewTotal(r)]
  <2>1. /\ total'[r] = removed[r] /\ total' \in [Runs -> Nat]
        /\ \A d \in Runs \ {r} : total'[d] = total[d]
    BY <1>1, <1>2, <1>4, RunFields DEF NewTotal, Typed
  <2>2. CASE NextPass(r)
    <3>1. Work(r)' /\ Verdict(r)'
      BY <1>1, <1>2, <1>4, <2>1, <2>2, PassKeeps
    <3> QED
      BY <1>1, <2>1, <2>2, <3>1, PassCounts, ScriptKeeps
  <2>3. CASE count[r] = 0 /\ Exit(r, 0)
    <3>1. /\ pc'[r] = "exited" /\ code'[r] = 0
          /\ iter' = iter /\ dryRun'[r] = dryRun[r] /\ batch'[r] = batch[r]
          /\ count'[r] = count[r] /\ removed'[r] = removed[r] /\ left'[r] = left[r]
      BY <1>1, <2>3 DEF Exit, Typed, options
    <3>2. removed'[r] - total'[r] \in 0..batch[r]
      BY <1>1, <2>1, <3>1, RunFields
    <3>3. Work(r)'
      BY <1>1, <1>4, <3>1, <3>2 DEF Work
    <3>4. Verdict(r)'
      BY <1>1, <2>1, <2>3, <3>1 DEF Verdict
    <3> QED
      BY <1>1, <2>1, <2>3, <3>1, <3>3, <3>4, ScriptKeeps DEF Typed
  <2> QED
    BY <1>4, <2>2, <2>3 DEF ReplyArrives
<1> QED
  BY <1>3, <1>4 DEF ReplyArrives

LEMMA JanitorKeeps ==
  ASSUME EvictInv, NEW r \in Runs, EvictExpiredApprovals(r)
  PROVE  EvictInv'
<1> DEFINE expired == ExpiredApprovals(approvedHolders, now)
           m == IF dryRun[r] THEN 0 ELSE batch[r]
<1>1. Typed /\ Work(r) /\ Verdict(r) /\ IsFiniteSet(Rows)
  BY DEF EvictInv
<1>2. PICK D \in Sweeps(expired, m) :
        /\ approvedHolders' = Without(approvedHolders, D)
        /\ count' = [count EXCEPT ![r] = Cardinality(D)]
        /\ removed' = [removed EXCEPT ![r] = removed[r] + Cardinality(D)]
        /\ left' = [left EXCEPT ![r] = Cardinality(expired \ D)]
  BY DEF EvictExpiredApprovals
<1>3. IsFiniteSet(expired)
  <2>1. expired \subseteq Rows
    BY DEF ExpiredApprovals, IsStale, Rows
  <2> QED
    BY <1>1, <2>1, FS_Subset
<1>4. m \in Nat /\ m <= batch[r]
  BY <1>1, RunFields
<1> HIDE DEF expired
<1>5. /\ Cardinality(D) \in 0..m /\ Cardinality(D) \in Nat
      /\ Cardinality(expired \ D) \in Nat
      /\ Cardinality(D) < m => Cardinality(expired \ D) = 0
  BY <1>3, <1>4, SweepCounts
<1>6. /\ UNCHANGED <<now, options, iter, total, code>>
      /\ pc[r] = "calling" /\ pc' = [pc EXCEPT ![r] = "served"]
  BY DEF EvictExpiredApprovals, script
<1>7. Typed' /\ Alone(r)
  <2>1. /\ count' \in [Runs -> Nat] /\ removed' \in [Runs -> Nat]
        /\ left' \in [Runs -> Nat]
    BY <1>1, <1>2, <1>5 DEF Typed
  <2>2. approvedHolders' \in ApprovalRows
    BY <1>1, <1>2 DEF Typed, ApprovalRows, Without
  <2>3. pc' \in [Runs -> {"off", "calling", "served", "exited"}]
    BY <1>1, <1>6 DEF Typed
  <2>4. Typed'
    BY <1>1, <1>6, <2>1, <2>2, <2>3 DEF Typed, options
  <2> QED
    BY <1>1, <1>2, <1>6, <2>4 DEF Typed, Alone, options
<1>8. IsFiniteSet(Rows')
  BY <1>2, RowsShrink DEF Without
<1>9. /\ pc'[r] = "served" /\ count'[r] = Cardinality(D)
      /\ removed'[r] = removed[r] + Cardinality(D)
      /\ left'[r] = Cardinality(expired \ D)
      /\ dryRun'[r] = dryRun[r] /\ batch'[r] = batch[r] /\ iter'[r] = iter[r]
      /\ total'[r] = total[r] /\ code'[r] = code[r]
  BY <1>1, <1>2, <1>6 DEF Typed, options
<1>10. Work(r)'
  <2>1. CASE dryRun[r]
    <3>1. Cardinality(D) = 0
      BY <1>5, <2>1
    <3> QED
      BY <1>1, <1>6, <1>9, <2>1, <3>1, RunFields DEF Work
  <2>2. CASE ~ dryRun[r]
    <3>1. Cardinality(D) <= batch[r]
      BY <1>5, <2>2, <1>4
    <3>2. removed[r] + Cardinality(D) <= iter[r] * batch[r]
      BY <1>1, <1>5, <1>6, <2>2, <3>1, RunFields DEF Work
    <3> QED
      BY <1>1, <1>6, <1>9, <2>2, <3>1, <3>2 DEF Work
  <2> QED
    BY <2>1, <2>2
<1>11. Verdict(r)'
  <2>1. code'[r] = Running
    BY <1>1, <1>6, <1>9 DEF Verdict
  <2>2. ~ dryRun[r] /\ batch[r] # 0 /\ Cardinality(D) = 0 =>
          Cardinality(expired \ D) = 0
    BY <1>1, <1>4, <1>5, RunFields
  <2> QED
    BY <1>9, <2>1, <2>2 DEF Verdict, Running
<1> QED
  BY <1>7, <1>8, <1>10, <1>11, StepKeeps

(* Rows the gates drop or record are of no consequence to the script. *)
LEMMA GateKeeps ==
  ASSUME EvictInv, GateUsesCache
  PROVE  EvictInv'
<1>1. UNCHANGED <<now, pc, script, count, code, removed, left>> /\ Typed
  BY DEF GateUsesCache, EvictInv
<1>2. PICK k \in ApprovalKeys :
        \/ approvedHolders' = DropIfStale(approvedHolders, k, now)
        \/ approvedHolders' = RecordApproval(approvedHolders, k, now)
  BY ScriptConstants DEF GateUsesCache
<1>3. now \in Nat
  BY <1>1, ScriptConstants DEF Typed
<1>4. approvedHolders' \in ApprovalRows /\ Rows' \subseteq Rows \union {k}
  BY <1>1, <1>2, <1>3 DEF Typed, DropIfStale, RecordApproval, ApprovalRows, Rows
<1>5. IsFiniteSet(Rows')
  <2>1. IsFiniteSet(Rows \union {k})
    BY FS_AddElement DEF EvictInv
  <2> QED
    BY <1>4, <2>1, FS_Subset
<1>6. Typed'
  BY <1>1, <1>4 DEF Typed, script, options
<1>7. \A r \in Runs : Work(r)' /\ Verdict(r)'
  BY <1>1, RunKept DEF EvictInv, script, options
<1> QED
  BY <1>5, <1>6, <1>7 DEF EvictInv

LEMMA TickKeeps ==
  ASSUME EvictInv, Tick
  PROVE  EvictInv'
<1>1. UNCHANGED <<approvedHolders, pc, script, count, code, removed, left>> /\ Typed
  BY DEF Tick, EvictInv
<1>2. now' \in 0..MaxTime
  BY <1>1, ScriptConstants DEF Tick, Typed
<1>3. Typed'
  BY <1>1, <1>2 DEF Typed, script, options
<1>4. \A r \in Runs : Work(r)' /\ Verdict(r)'
  BY <1>1, RunKept DEF EvictInv, script, options
<1> QED
  BY <1>1, <1>3, <1>4, RowsShrink DEF EvictInv

LEMMA EvictStep == EvictInv /\ [Next]_vars => EvictInv'
<1> SUFFICES ASSUME EvictInv, [Next]_vars PROVE EvictInv'
  OBVIOUS
<1>1. CASE UNCHANGED vars
  <2>1. Typed'
    BY <1>1 DEF EvictInv, Typed, vars, script, options
  <2>2. \A r \in Runs : Work(r)' /\ Verdict(r)'
    BY <1>1, RunKept DEF EvictInv, vars, script, options
  <2> QED
    BY <1>1, <2>1, <2>2, RowsShrink DEF EvictInv, vars
<1> QED
  BY <1>1, StartKeeps, FailKeeps, ReplyKeeps, JanitorKeeps, GateKeeps, TickKeeps
     DEF Next, Step

LEMMA EvictAlways == Spec => []EvictInv
<1>1. Init => EvictInv
  <2> SUFFICES ASSUME Init PROVE EvictInv
    OBVIOUS
  <2>1. Typed
    BY ScriptConstants DEF Init, Typed, EmptyApprovals, ApprovalRows, Running
  <2>2. Rows = {}
    BY DEF Init, EmptyApprovals, Rows
  <2>3. IsFiniteSet(Rows)
    BY <2>2, FS_EmptySet
  <2>4. ASSUME NEW r \in Runs PROVE Work(r) /\ Verdict(r)
    <3>1. /\ pc[r] = "off" /\ code[r] = Running /\ iter[r] = 0 /\ total[r] = 0
          /\ count[r] = 0 /\ removed[r] = 0
      BY DEF Init
    <3>2. 0 * batch[r] = 0
      BY <2>1, RunFields
    <3> QED
      BY <2>1, <3>1, <3>2, RunFields DEF Work, Verdict, Running
  <2> QED
    BY <2>1, <2>3, <2>4 DEF EvictInv
<1> QED
  BY <1>1, EvictStep, PTL DEF Spec

-----------------------------------------------------------------------------
(* TypeOK, the type invariant of the specification: the totals of a run    *)
(* stay below what its passes could delete, however its replies are lost.  *)
THEOREM EvictTypes == Spec => []TypeOK
<1>1. EvictInv => TypeOK
  <2> SUFFICES ASSUME EvictInv PROVE TypeOK
    OBVIOUS
  <2>1. Typed
    BY DEF EvictInv
  <2>2. ASSUME NEW r \in Runs
        PROVE  total[r] \in 0 .. MaxIterations * batch[r] /\ count[r] \in 0..batch[r]
    <3>1. Work(r)
      BY DEF EvictInv
    <3>2. total[r] <= removed[r] /\ count[r] <= batch[r]
      BY <2>1, <3>1, RunFields DEF Work, Typed
    <3>3. iter[r] * batch[r] <= MaxIterations * batch[r]
          /\ MaxIterations * batch[r] \in Nat
      BY <2>1, RunFields, PassesBounded, OnePassMore, ScriptConstants
    <3> QED
      BY <2>1, <3>1, <3>2, <3>3, RunFields DEF Work
  <2> QED
    BY <2>1, <2>2 DEF TypeOK, Typed
<1> QED
  BY <1>1, EvictAlways, PTL

(* A run never has more deleted than its passes times its batch, and a dry *)
(* run nothing, whatever replies are lost and rows recorded meanwhile.     *)
THEOREM WorkSafety == Spec => []WorkBounded
<1>1. EvictInv => WorkBounded
  <2> SUFFICES ASSUME EvictInv, NEW r \in Runs
               PROVE  removed[r] <= IF dryRun[r] THEN 0 ELSE MaxIterations * batch[r]
    BY DEF WorkBounded
  <2>1. Typed /\ Work(r)
    BY DEF EvictInv
  <2>2. iter[r] * batch[r] <= MaxIterations * batch[r]
        /\ MaxIterations * batch[r] \in Nat
    BY <2>1, RunFields, PassesBounded, OnePassMore, ScriptConstants
  <2> QED
    BY <2>1, <2>2, RunFields DEF Work
<1> QED
  BY <1>1, EvictAlways, PTL

(* The total a run reports is what was deleted for it, and is short by one *)
(* batch at most when a call failed.                                       *)
THEOREM TotalsSafety == Spec => []TotalsHonest
<1>1. EvictInv => TotalsHonest
  <2> SUFFICES ASSUME EvictInv, NEW r \in Runs
               PROVE  /\ code[r] \in {0, 3} => total[r] = removed[r]
                      /\ removed[r] - total[r] \in 0..batch[r]
    BY DEF TotalsHonest
  <2>1. Typed /\ Work(r) /\ Verdict(r)
    BY DEF EvictInv
  <2>2. pc[r] \in {"off", "calling", "served", "exited"}
    BY <2>1 DEF Typed
  <2>3. count[r] <= batch[r]
    BY <2>1, RunFields DEF Work
  <2>4. removed[r] - total[r] \in 0..batch[r]
    BY <2>1, <2>2, <2>3, RunFields DEF Work
  <2> QED
    BY <2>1, <2>4 DEF Verdict
<1> QED
  BY <1>1, EvictAlways, PTL

(* A run that says the steady state is reached had its last call leave no  *)
(* expired row behind, whatever other runs deleted and the gates recorded. *)
THEOREM DrainedSafety == Spec => []SteadyStateDrained
<1>1. EvictInv => SteadyStateDrained
  BY DEF EvictInv, Verdict, SteadyStateDrained
<1> QED
  BY <1>1, EvictAlways, PTL

=============================================================================
