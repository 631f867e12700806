------------------------------ MODULE PodKill ------------------------------
(***************************************************************************)
(* The pod-kill scenario: PodKill.Inject lists the pods of the target's    *)
(* Deployment from the informer, chooses some of those in phase Running    *)
(* and deletes them one by one, while the ReplicaSet replaces pods, pods   *)
(* go by themselves and the list grows old.                                *)
(*                                                                         *)
(* A pod is a name, and the ReplicaSet never uses a name twice.  A pod     *)
(* that is being deleted stays in phase Running until it is gone.          *)
(***************************************************************************)
EXTENDS Integers, FiniteSets

CONSTANTS Pods,           \* the names a pod of the Deployment may get
          First,          \* the pods that run in the beginning
          Counts,         \* the counts an experiment may ask for
          MaxCalls,       \* calls of Inject in one behaviour
          MaxDisturbances \* lost pods, failed calls and crashes in one behaviour

ASSUME PodAssumption ==
  /\ IsFiniteSet(Pods) /\ First \subseteq Pods
  /\ Counts \subseteq Int
  /\ {MaxCalls, MaxDisturbances} \subseteq Nat

VARIABLES
  pods,    \* the pods at the API server
  cache,   \* the list in the informer
  count,   \* spec.podKill.count
  doomed,  \* the pods this call chose, running[:count]
  todo,    \* those of them it has not deleted yet; a call is on until none are
  killed,  \* the pods this call has taken out of service
  result,  \* what the latest call returned
  calls, disturbances

vars == <<pods, cache, count, doomed, todo, killed, result, calls, disturbances>>

PodStates == {"unborn", "pending", "running", "terminating", "gone"}

TypeOK ==
  /\ {pods, cache} \subseteq [Pods -> PodStates]
  /\ count \in Counts
  /\ doomed \subseteq Pods /\ todo \subseteq doomed /\ killed \subseteq doomed
  /\ result \in {"none", "ok", "err"}
  /\ calls \in 0..MaxCalls /\ disturbances \in 0..MaxDisturbances

Init ==
  /\ pods = [p \in Pods |-> IF p \in First THEN "running" ELSE "unborn"]
  /\ cache = pods
  /\ count \in Counts
  /\ doomed = {} /\ todo = {} /\ killed = {} /\ result = "none"
  /\ calls = 0 /\ disturbances = 0

-----------------------------------------------------------------------------
(* The cluster (external).                                                 *)

Disturb == disturbances < MaxDisturbances /\ disturbances' = disturbances + 1

Becomes(p, state) == pods' = [pods EXCEPT ![p] = state]

\* The ReplicaSet creates a pod, it starts, and one that is deleted ends.
Replace(p) ==
  /\ \/ pods[p] = "unborn" /\ Becomes(p, "pending")
     \/ pods[p] = "pending" /\ Becomes(p, "running")
     \/ pods[p] = "terminating" /\ Becomes(p, "gone")
  /\ UNCHANGED <<cache, count, doomed, todo, killed, result, calls, disturbances>>

\* A pod is evicted or lost with its node.
Lose(p) ==
  /\ Disturb
  /\ pods[p] \in {"pending", "running"} /\ Becomes(p, "gone")
  /\ UNCHANGED <<cache, count, doomed, todo, killed, result, calls>>

\* The informer's list is renewed; the role grants no watch on pods.
Relist ==
  /\ cache # pods /\ cache' = pods
  /\ UNCHANGED <<pods, count, doomed, todo, killed, result, calls, disturbances>>

-----------------------------------------------------------------------------
(* Inject.                                                                 *)

\* Mutant: pods in every phase are candidates.
Running_AnyPhase(list) == {p \in Pods : list[p] \notin {"unborn", "gone"}}

\* The listed pods in phase Running, those being deleted included.
Running(list) == {p \in Pods : list[p] \in {"running", "terminating"}}

\* Mutant: the slice takes one pod more.
Clamped_OneMore(n) == IF count > n THEN n ELSE count + 1

\* The count, or as many as there are.
Clamped(n) == IF count > n THEN n ELSE count

Idle == todo = {}

\* Mutant: the count is not clamped, and slicing a shorter list panics.
Choose_NotClamped ==
  /\ Idle /\ calls < MaxCalls /\ calls' = calls + 1
  /\ count >= 1 /\ Running(cache) # {}
  /\ \/ /\ count > Cardinality(Running(cache))
        /\ doomed' = {} /\ todo' = {} /\ result' = "panic"
     \/ /\ \E S \in SUBSET Running(cache) :
             Cardinality(S) = count /\ doomed' = S /\ todo' = S
        /\ result' = "none"
  /\ killed' = {}
  /\ UNCHANGED <<pods, cache, count, disturbances>>

\* Inject chooses its pods at random.
Choose ==
  /\ Idle /\ calls < MaxCalls /\ calls' = calls + 1
  /\ count >= 1 /\ Running(cache) # {}
  /\ \E S \in SUBSET Running(cache) :
       /\ Cardinality(S) = Clamped(Cardinality(Running(cache)))
       /\ doomed' = S /\ todo' = S
  /\ killed' = {} /\ result' = "none"
  /\ UNCHANGED <<pods, cache, count, disturbances>>

\* It returns an error with nothing done: the target has no name, reading the
\* Deployment or the pods fails, no pod is running, or the count is no count.
Refuse ==
  /\ Idle /\ calls < MaxCalls /\ calls' = calls + 1
  /\ \/ Disturb
     \/ (Running(cache) = {} \/ count <= 0) /\ UNCHANGED disturbances
  /\ doomed' = {} /\ killed' = {} /\ result' = "err"
  /\ UNCHANGED <<pods, cache, count, todo>>

\* Delete reaches the API server: the pod is marked unless it is so already.
Marked(p) ==
  /\ pods[p] # "gone"
  /\ Becomes(p, "terminating")
  /\ killed' = IF pods[p] = "terminating" THEN killed ELSE killed \cup {p}

\* A pod is deleted, and after the last one Inject returns nil.
Delete(p) ==
  /\ p \in todo
  /\ Marked(p)
  /\ todo' = todo \ {p}
  /\ result' = IF todo' = {} THEN "ok" ELSE "none"
  /\ UNCHANGED <<cache, count, doomed, calls, disturbances>>

\* Mutant: an error is logged and the loop goes on.
DeleteFails_GoesOn(p) ==
  /\ p \in todo
  /\ \/ pods[p] = "gone" /\ UNCHANGED <<pods, killed, disturbances>>
     \/ Disturb /\ (Marked(p) \/ UNCHANGED <<pods, killed>>)
  /\ todo' = todo \ {p}
  /\ result' = IF todo' = {} THEN "ok" ELSE "none"
  /\ UNCHANGED <<cache, count, doomed, calls>>

\* Mutant: a pod that cannot be deleted is tried again.
DeleteFails_Retries(p) ==
  /\ p \in todo
  /\ \/ pods[p] = "gone" /\ UNCHANGED <<pods, killed, disturbances>>
     \/ Disturb /\ (Marked(p) \/ UNCHANGED <<pods, killed>>)
  /\ UNCHANGED <<cache, count, doomed, todo, result, calls>>

\* Delete fails, because the pod is not there any more or the request or its
\* answer is lost, and Inject returns the error with the rest not done.
DeleteFails(p) ==
  /\ p \in todo
  /\ \/ pods[p] = "gone" /\ UNCHANGED <<pods, killed, disturbances>>
     \/ Disturb /\ (Marked(p) \/ UNCHANGED <<pods, killed>>)
  /\ todo' = {} /\ result' = "err"
  /\ UNCHANGED <<cache, count, doomed, calls>>

\* The manager stops in the middle; the next one lists the pods anew.
Crash ==
  /\ Disturb
  /\ todo' = {} /\ result' = IF Idle THEN result ELSE "none"
  /\ cache' = pods
  /\ UNCHANGED <<pods, count, doomed, killed, calls>>

-----------------------------------------------------------------------------

Inject == Choose \/ Refuse \/ \E p \in Pods : Delete(p) \/ DeleteFails(p)

Cluster == Relist \/ \E p \in Pods : Replace(p) \/ Lose(p)

Next == Inject \/ Cluster \/ Crash

Spec == Init /\ [][Next]_vars

\* The goroutine runs: an error or an answer comes back from each Delete.
FairSpec == Spec /\ WF_vars(\E p \in Pods : Delete(p) \/ DeleteFails(p))

-----------------------------------------------------------------------------
(* Properties.                                                             *)

\* A call takes at most count pods out of service, whatever it lists, however
\* old the list is, and also if it is interrupted.
BlastRadius == Cardinality(killed) <= IF count > 0 THEN count ELSE 0

\* An injection reported as done has happened: no chosen pod is in service,
\* and none comes back, when Inject returns nil.
SuccessMeansGone ==
  result = "ok" => /\ doomed # {}
                   /\ \A p \in doomed : pods[p] \in {"terminating", "gone"}

\* A pod that never ran is not deleted, however old the list is: a stale list
\* shows a pod in an earlier phase than it is in, never in a later one.
NeverStartedIsSpared ==
  [][\A p \in Pods : pods[p] = "pending" => pods'[p] # "terminating"]_vars

\* A call that has chosen its pods returns.
CallReturns == todo # {} ~> Idle

=============================================================================
