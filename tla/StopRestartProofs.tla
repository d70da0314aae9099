-------------------------- MODULE StopRestartProofs --------------------------
(***************************************************************************)
(* A stop-and-restart job through any number of rescales, in any order and *)
(* for any job, workers, keys and records: what the runs check on one      *)
(* instance, from the plan (PlanProofs), the protocol (DrainProofs) and    *)
(* the data (MigrationProofs).                                             *)
(*                                                                         *)
(* The theorems about the protocol and the data assume that rescales are   *)
(* spaced, as StopRestart explains; those about the partition do not.      *)
(***************************************************************************)
EXTENDS PlanProofs, DrainProofs, MigrationProofs

-----------------------------------------------------------------------------
(* The job.                                                                *)

JobInv == PlanInv /\ ProtocolInv /\ MigrationInv /\ FatalInv

LEMMA JobInit ==
  ASSUME Init
  PROVE  JobInv /\ Ownership!Init
<1>1. PlanInv /\ PlanFacts
  BY PlanInit, PlanGives, SMTT(20)
<1>2. ProtocolInv /\ MigrationInv /\ Ownership!Init
  BY <1>1, ProtocolInit, MigrationInit, SMTT(20)
<1>3. FatalInv
  BY DEF Init, FatalInv, NoFatal
<1> QED BY <1>1, <1>2, <1>3, SMTT(20) DEF JobInv

LEMMA JobNext ==
  ASSUME Spaced, JobInv, [Next]_vars
  PROVE  JobInv' /\ OwnershipStep
<1>1. PlanInv /\ PlanFacts /\ ProtocolInv /\ MigrationInv /\ FatalInv
  BY PlanGives, SMTT(20) DEF JobInv
<1>2. PlanInv' /\ PlanFacts' /\ PlanStep
  BY <1>1, PlanNext, PlanGivesNext, PlanSteps, SMTT(20)
<1>3. ProtocolInv'
  BY <1>1, <1>2, ProtocolNext, SMTT(20)
<1>4. RangesFacts
  BY RangesExact, SMTT(20) DEF RangesFacts
<1>5. MigrationInv' /\ OwnershipStep
  BY <1>1, <1>2, <1>3, <1>4, MigrationNext, SMTT(20)
<1>6. FatalInv'
  BY <1>1, <1>2, <1>3, FatalNext, SMTT(20) DEF ProtocolInv
<1> QED BY <1>2, <1>3, <1>5, <1>6, SMTT(20) DEF JobInv

LEMMA JobInductive ==
  ASSUME Spaced
  PROVE  Spec => []JobInv
<1>1. Init => JobInv
  BY JobInit
<1>2. JobInv /\ [Next]_vars => JobInv'
  BY JobNext, SMTT(20)
<1> QED BY <1>1, <1>2, PTL DEF Spec

LEMMA JobTypes == JobInv => TypeOK
<1> SUFFICES ASSUME JobInv PROVE TypeOK
  OBVIOUS
<1>1. PlanInv /\ PlanFacts /\ ProtocolInv /\ StateTypes
  BY PlanGives, SMTT(20) DEF JobInv, MigrationInv, StateInv
<1>2. /\ job \in Jobs /\ step \in Steps
      /\ plan.table \in [Buckets -> Workers] /\ Range(plan.tasks) \subseteq Workers
  BY <1>1, SMTT(20) DEF PlanFacts, Tasks
<1>3. Range(plan.free) \subseteq Workers
  BY <1>1, SMTT(20) DEF PlanInv, IsFree, Range
<1>4. ASSUME NEW w \in Workers
      PROVE  sup[w].drains \in 0 .. Cardinality(Upstreams) /\ reported[w] \in 0 .. 1
  <2>1. Passed(w) \subseteq Upstreams
    BY <1>1, SMTT(20) DEF ProtocolInv, TypeInv, Passed
  <2>2. /\ Cardinality(Passed(w)) \in Nat /\ Cardinality(Upstreams) \in Nat
        /\ Cardinality(Passed(w)) <= Cardinality(Upstreams)
    BY <2>1, ConstantsAssumption, FS_Subset, FS_CardinalityType, SMTT(20)
  <2>3. BarrierInv(w)
    BY <1>1, SMTT(20) DEF ProtocolInv
  <2>4. sup[w].drains = 0 \/ sup[w].drains = Cardinality(Passed(w))
    BY <2>3, SMTT(20) DEF BarrierInv
  <2>5. reported[w] = 0 \/ reported[w] = 1
    BY <2>3, SMTT(20) DEF BarrierInv
  <2> QED BY <2>2, <2>4, <2>5, SMTT(20)
<1>5. reported \in [Workers -> 0 .. 1]
  BY <1>1, <1>4, SMTT(20) DEF ProtocolInv, TypeInv
<1> QED BY <1>1, <1>2, <1>3, <1>4, <1>5, SMTT(20) DEF TypeOK, ProtocolInv, TypeInv, TaskInv, StateTypes

-----------------------------------------------------------------------------
(* The theorems.                                                           *)

\* Every variable of a job keeps its type; no task counts more barriers than
\* there are upstream tasks or reports twice for one rescale
\* (handleDrainBarrier).
THEOREM StopRestartTypeCorrect ==
  ASSUME Spaced
  PROVE  Spec => []TypeOK
  BY JobInductive, JobTypes, PTL

\* From the last report that its data is drained until the upstream tasks
\* resume, no record, barrier or report is on its way (drainInflightData).
THEOREM StopRestartDrained ==
  ASSUME Spaced
  PROVE  Spec => []Drained
<1>1. JobInv => Drained
  BY PlanGives, NothingInFlight, SMTT(20) DEF JobInv
<1> QED BY <1>1, JobInductive, PTL

\* No process of the job stops in a log.Fatal.  With consistent hashing this
\* holds if the workers that come or go own some bucket: updateKeyPartition
\* ends the coordinator when a rescale moves none.
THEOREM StopRestartNoFatal ==
  ASSUME Spaced
  PROVE  Spec => [](job.policy # "consistent-hashing" \/ RingsDiffer => NoFatal)
<1>1. JobInv => (job.policy # "consistent-hashing" \/ RingsDiffer => NoFatal)
  BY SMTT(20) DEF JobInv, FatalInv
<1> QED BY <1>1, JobInductive, PTL

\* The owner of a key has the state of all its records, through all rescales
\* (MigrateTaskMetadata, PullStatePartition).
THEOREM StopRestartStateComplete ==
  ASSUME Spaced
  PROVE  Spec => []StateComplete
<1>1. JobInv => StateComplete
  BY OwnerComplete, SMTT(20) DEF JobInv, MigrationInv
<1> QED BY <1>1, JobInductive, PTL

\* A key with state has one index entry, with its owner: no window is lost in
\* a rescale or fires twice (MigrateTaskMetadata, HandleTaskAssignment).
THEOREM StopRestartIndexTracksState ==
  ASSUME Spaced
  PROVE  Spec => []IndexTracksState
<1>1. JobInv => IndexTracksState
  BY PlanGives, EntryAtOwner DEF JobInv, MigrationInv
<1> QED BY <1>1, JobInductive, PTL

\* A job with stop-and-restart rescales implements KeyOwnership: one owner at
\* a time for every key, and each record processed once, by the owner.
THEOREM StopRestartImplementsOwnership ==
  ASSUME Spaced
  PROVE  Spec => ImplementsOwnership
<1>1. Init => Ownership!Init
  BY JobInit
<1>2. JobInv /\ [Next]_vars => [Ownership!Next]_<<[k \in Keys |-> Home(k)], InFlight, done>>
  BY JobNext DEF OwnershipStep
<1> QED BY <1>1, <1>2, JobInductive, PTL DEF Spec, Ownership!Spec, Ownership!vars,
                                             ImplementsOwnership

=============================================================================
