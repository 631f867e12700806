---------------------------- MODULE PodKillProofs ----------------------------
(***************************************************************************)
(* Theorems about PodKill, for every set of pods, every count and every    *)
(* number of calls and disturbances.                                       *)
(***************************************************************************)
EXTENDS PodKill, FiniteSetTheorems, TLAPS

Limit == IF count > 0 THEN count ELSE 0

Out == {"terminating", "gone"}

\* A pod only goes on in its life, so an old list shows no pod as running that
\* has not started.
ListIsPast ==
  \A p \in Pods : cache[p] \in {"running"} \cup Out => pods[p] \in {"running"} \cup Out

\* The chosen pods have been running and are no more than asked for; until the
\* call is over, those not to be deleted any more are out of service.
Chosen ==
  /\ Cardinality(doomed) <= Limit
  /\ \A p \in todo : pods[p] \in {"running"} \cup Out
  /\ todo # {} => result = "none"
  /\ todo # {} \/ result = "ok" =>
       doomed # {} /\ \A p \in doomed \ todo : pods[p] \in Out

Inductive == TypeOK /\ ListIsPast /\ Chosen

-----------------------------------------------------------------------------
(* Lemmas.                                                                 *)

\* No more pods are taken than there are, nor than asked for.
LEMMA ClampedBound ==
  ASSUME count \in Int, count >= 1, NEW n \in Nat, n # 0
  PROVE  Clamped(n) \in Nat /\ Clamped(n) <= Limit /\ Clamped(n) # 0
BY DEF Clamped, Limit

\* The listed pods that run are finitely many.
LEMMA RunningFinite == IsFiniteSet(Running(cache)) /\ Running(cache) \subseteq Pods
BY PodAssumption, FS_Subset DEF Running

\* An API server that marks a pod as deleted leaves the others alone.
LEMMA MarkedType ==
  ASSUME Inductive, NEW p \in todo, Marked(p)
  PROVE  /\ pods' \in [Pods -> PodStates] /\ pods'[p] = "terminating"
         /\ \A q \in Pods \ {p} : pods'[q] = pods[q]
         /\ pods[p] \in {"running", "terminating"}
         /\ killed' \subseteq doomed
<1>1. p \in Pods /\ p \in doomed /\ killed \subseteq doomed /\ pods \in [Pods -> PodStates]
  BY DEF Inductive, TypeOK
<1>2. pods[p] \in {"running", "terminating"}
  BY DEF Inductive, Chosen, Marked, Out
<1>3. QED
  BY <1>1, <1>2 DEF Marked, Becomes, PodStates

\* The life of a pod: steps of the cluster keep every part.
LEMMA PodsGoOn ==
  ASSUME Inductive, pods' \in [Pods -> PodStates],
         UNCHANGED <<cache, count, doomed, todo, killed, result, calls>>,
         disturbances' \in 0..MaxDisturbances,
         \A p \in Pods : /\ pods[p] \in Out => pods'[p] \in Out
                         /\ pods[p] = "running" => pods'[p] \in {"running"} \cup Out
  PROVE  Inductive'
<1>1. TypeOK'
  BY DEF Inductive, TypeOK
<1>2. ListIsPast'
  BY DEF Inductive, ListIsPast
<1>3. Chosen'
  BY DEF Inductive, TypeOK, Chosen, Limit
<1>4. QED
  BY <1>1, <1>2, <1>3 DEF Inductive

-----------------------------------------------------------------------------
(* Preservation.                                                           *)

\* Every step of Inject keeps the invariant.
LEMMA InjectInductive == ASSUME Inductive, Inject PROVE Inductive'
<1>i. TypeOK /\ ListIsPast /\ Chosen
  BY DEF Inductive
<1>n. /\ calls \in 0..MaxCalls /\ disturbances \in 0..MaxDisturbances
      /\ MaxCalls \in Nat /\ MaxDisturbances \in Nat /\ count \in Counts /\ count \in Int
  BY <1>i, PodAssumption DEF TypeOK
<1>1. CASE Choose
  <2>1. PICK S \in SUBSET Running(cache) :
          /\ Cardinality(S) = Clamped(Cardinality(Running(cache)))
          /\ doomed' = S /\ todo' = S
    BY <1>1 DEF Choose
  <2>2. /\ UNCHANGED <<pods, cache, count, disturbances>> /\ count >= 1
        /\ Running(cache) # {} /\ killed' = {} /\ result' = "none" /\ calls' \in 0..MaxCalls
    BY <1>1, <1>n DEF Choose
  <2>3. /\ Cardinality(Running(cache)) \in Nat /\ Cardinality(Running(cache)) # 0
    BY <2>2, RunningFinite, FS_CardinalityType, FS_EmptySet
  <2>4. Cardinality(S) <= Limit /\ Cardinality(S) # 0
    BY <1>n, <2>1, <2>2, <2>3, ClampedBound
  <2>5. S # {} /\ S \subseteq Pods
    BY <2>4, FS_EmptySet, RunningFinite
  <2>6. TypeOK'
    BY <1>i, <2>1, <2>2, <2>5 DEF TypeOK
  <2>7. ListIsPast'
    BY <1>i, <2>2 DEF ListIsPast
  <2>8. Chosen'
    BY <1>i, <2>1, <2>2, <2>4, <2>5 DEF Chosen, Limit, ListIsPast, Running, Out
  <2>9. QED
    BY <2>6, <2>7, <2>8 DEF Inductive
<1>2. CASE Refuse
  <2>1. /\ UNCHANGED <<pods, cache, count, todo>> /\ todo = {} /\ doomed' = {}
        /\ killed' = {} /\ result' = "err" /\ calls' \in 0..MaxCalls
        /\ disturbances' \in 0..MaxDisturbances
    BY <1>2, <1>n DEF Refuse, Idle, Disturb
  <2>2. Cardinality(doomed') <= Limit'
    BY <1>n, <2>1, FS_EmptySet DEF Limit
  <2>3. TypeOK' /\ ListIsPast'
    BY <1>i, <2>1 DEF TypeOK, ListIsPast
  <2>4. QED
    BY <2>1, <2>2, <2>3 DEF Inductive, Chosen
<1>3. ASSUME NEW p \in Pods, Delete(p) PROVE Inductive'
  <2>1. /\ p \in todo /\ Marked(p) /\ todo' = todo \ {p}
        /\ result' = (IF todo' = {} THEN "ok" ELSE "none")
        /\ UNCHANGED <<cache, count, doomed, calls, disturbances>>
    BY <1>3 DEF Delete
  <2>2. /\ pods' \in [Pods -> PodStates] /\ pods'[p] = "terminating"
        /\ \A q \in Pods \ {p} : pods'[q] = pods[q]
        /\ pods[p] \in {"running", "terminating"} /\ killed' \subseteq doomed
    BY <2>1, MarkedType
  <2>3. TypeOK'
    BY <1>i, <2>1, <2>2 DEF TypeOK
  <2>4. ListIsPast'
    BY <1>i, <2>1, <2>2 DEF ListIsPast, Out
  <2>5. Chosen'
    <3>1. doomed \subseteq Pods /\ todo \subseteq doomed /\ todo # {}
      BY <1>i, <2>1 DEF TypeOK
    <3>2. \A q \in doomed \ todo' : pods'[q] \in Out
      BY <1>i, <2>1, <2>2, <3>1 DEF Chosen, Out
    <3>3. \A q \in todo' : pods'[q] \in {"running"} \cup Out
      BY <1>i, <2>1, <2>2, <3>1 DEF Chosen
    <3>4. QED
      BY <1>i, <2>1, <3>1, <3>2, <3>3 DEF Chosen, Limit
  <2>6. QED
    BY <2>3, <2>4, <2>5 DEF Inductive
<1>4. ASSUME NEW p \in Pods, DeleteFails(p) PROVE Inductive'
  <2>1. /\ p \in todo /\ todo' = {} /\ result' = "err"
        /\ Marked(p) \/ UNCHANGED <<pods, killed>>
        /\ UNCHANGED <<cache, count, doomed, calls>>
        /\ disturbances' \in 0..MaxDisturbances
    BY <1>4, <1>n DEF DeleteFails, Disturb
  <2>2. /\ pods' \in [Pods -> PodStates] /\ killed' \subseteq doomed
        /\ \A q \in Pods : pods[q] \in {"running"} \cup Out => pods'[q] \in {"running"} \cup Out
    BY <1>i, <2>1, MarkedType DEF TypeOK, Out
  <2>3. TypeOK'
    BY <1>i, <2>1, <2>2 DEF TypeOK
  <2>4. ListIsPast' /\ Chosen'
    BY <1>i, <2>1, <2>2 DEF ListIsPast, Chosen, Limit
  <2>5. QED
    BY <2>3, <2>4 DEF Inductive
<1>5. QED
  BY <1>1, <1>2, <1>3, <1>4 DEF Inject

\* Every step of the cluster, and a stop of the manager, keep it.
LEMMA ClusterInductive == ASSUME Inductive, Cluster \/ Crash PROVE Inductive'
<1>i. TypeOK /\ ListIsPast /\ Chosen
  BY DEF Inductive
<1>n. disturbances \in 0..MaxDisturbances /\ MaxDisturbances \in Nat
  BY <1>i, PodAssumption DEF TypeOK
<1>1. CASE Relist
  <2>1. TypeOK'
    BY <1>1, <1>i DEF Relist, TypeOK
  <2>2. ListIsPast' /\ Chosen'
    BY <1>1, <1>i DEF Relist, ListIsPast, Chosen, Limit
  <2>3. QED
    BY <2>1, <2>2 DEF Inductive
<1>2. ASSUME NEW p \in Pods, Replace(p) \/ Lose(p) PROVE Inductive'
  <2>1. PICK state \in PodStates : Becomes(p, state) /\ state # "unborn"
          /\ (pods[p] \in Out => state = "gone")
          /\ (pods[p] = "running" => state = "gone")
    BY <1>2 DEF Replace, Lose, PodStates, Out
  <2>2. pods' \in [Pods -> PodStates]
    BY <1>i, <2>1 DEF TypeOK, Becomes
  <2>3. \A q \in Pods : /\ pods[q] \in Out => pods'[q] \in Out
                        /\ pods[q] = "running" => pods'[q] \in {"running"} \cup Out
    BY <1>i, <2>1 DEF TypeOK, Becomes, Out
  <2>4. disturbances' \in 0..MaxDisturbances
    BY <1>2, <1>n DEF Replace, Lose, Disturb
  <2>5. QED
    BY <1>2, <2>2, <2>3, <2>4, PodsGoOn DEF Replace, Lose
<1>3. CASE Crash
  <2>1. disturbances' \in 0..MaxDisturbances
    BY <1>3, <1>n DEF Crash, Disturb
  <2>2. TypeOK'
    BY <1>3, <1>i, <2>1 DEF Crash, TypeOK, Idle
  <2>3. ListIsPast' /\ Chosen'
    BY <1>3, <1>i DEF Crash, ListIsPast, Chosen, Limit, Idle
  <2>4. QED
    BY <2>2, <2>3 DEF Inductive
<1>4. QED
  BY <1>1, <1>2, <1>3 DEF Cluster

\* The initial states satisfy the invariant.
LEMMA InitInductive == Init => Inductive
<1> SUFFICES ASSUME Init PROVE Inductive
  OBVIOUS
<1>1. TypeOK
  BY PodAssumption DEF Init, TypeOK, PodStates
<1>2. Cardinality(doomed) <= Limit
  BY <1>1, PodAssumption, FS_EmptySet DEF Init, Limit, TypeOK
<1>3. QED
  BY <1>1, <1>2 DEF Init, Inductive, ListIsPast, Chosen

\* Every step keeps it.
LEMMA NextInductive == Inductive /\ [Next]_vars => Inductive'
<1> SUFFICES ASSUME Inductive, [Next]_vars PROVE Inductive'
  OBVIOUS
<1>1. CASE Next
  BY <1>1, InjectInductive, ClusterInductive DEF Next
<1>2. CASE UNCHANGED vars
  BY <1>2 DEF vars, Inductive, TypeOK, ListIsPast, Chosen, Limit
<1>3. QED
  BY <1>1, <1>2

-----------------------------------------------------------------------------
(* Theorems.                                                               *)

\* The inductive invariant holds in every reachable state.
THEOREM InductiveInvariant == Spec => []Inductive
BY InitInductive, NextInductive, PTL DEF Spec

\* Every variable has its type in every reachable state.
THEOREM TypeCorrect == Spec => []TypeOK
<1>1. Inductive => TypeOK
  BY DEF Inductive
<1>2. QED
  BY <1>1, InductiveInvariant, PTL

\* One call never takes more pods out of service than the count asks for.
THEOREM AtMostCount == Spec => []BlastRadius
<1>1. Inductive => BlastRadius
  <2> SUFFICES ASSUME Inductive PROVE BlastRadius
    OBVIOUS
  <2>1. IsFiniteSet(doomed) /\ killed \subseteq doomed
    BY PodAssumption, FS_Subset DEF Inductive, TypeOK
  <2>2. /\ Cardinality(killed) <= Cardinality(doomed) /\ Cardinality(doomed) <= Limit
        /\ Cardinality(killed) \in Nat /\ Cardinality(doomed) \in Nat
    BY <2>1, FS_Subset, FS_CardinalityType DEF Inductive, Chosen
  <2>3. Limit \in Int
    BY PodAssumption DEF Limit, Inductive, TypeOK
  <2>4. QED
    BY <2>2, <2>3 DEF BlastRadius, Limit
<1>2. QED
  BY <1>1, InductiveInvariant, PTL

\* When Inject returns nil every chosen pod is out of service.
THEOREM InjectedIsGone == Spec => []SuccessMeansGone
<1>1. Inductive => SuccessMeansGone
  BY DEF Inductive, Chosen, SuccessMeansGone, Out
<1>2. QED
  BY <1>1, InductiveInvariant, PTL

\* No pod is deleted that never ran, however old the list of pods is.
THEOREM NewPodsAreSpared == Spec => NeverStartedIsSpared
<1> DEFINE Step == \A p \in Pods : pods[p] = "pending" => pods'[p] # "terminating"
<1>1. Inductive /\ [Next]_vars => [Step]_vars
  <2> SUFFICES ASSUME Inductive, Next, NEW p \in Pods, pods[p] = "pending"
               PROVE  pods'[p] # "terminating"
    OBVIOUS
  <2>i. pods \in [Pods -> PodStates] /\ \A q \in todo : pods[q] \in {"running"} \cup Out
    BY DEF Inductive, TypeOK, Chosen
  <2>1. ASSUME NEW q \in Pods, Delete(q) \/ DeleteFails(q) PROVE pods'[p] # "terminating"
    <3>1. q # p
      BY <2>1, <2>i DEF Delete, DeleteFails, Out
    <3>2. pods'[p] = pods[p]
      BY <2>1, <2>i, <3>1 DEF Delete, DeleteFails, Marked, Becomes
    <3>3. QED
      BY <3>2
  <2>2. ASSUME NEW q \in Pods, Replace(q) \/ Lose(q) PROVE pods'[p] # "terminating"
    BY <2>2, <2>i DEF Replace, Lose, Becomes
  <2>3. CASE Choose \/ Refuse \/ Relist \/ Crash
    BY <2>3 DEF Choose, Refuse, Relist, Crash
  <2>4. QED
    BY <2>1, <2>2, <2>3 DEF Next, Inject, Cluster
<1>2. QED
  BY <1>1, InductiveInvariant, PTL DEF Spec, NeverStartedIsSpared

=============================================================================
