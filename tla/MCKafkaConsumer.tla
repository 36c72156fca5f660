-------------------------- MODULE MCKafkaConsumer ---------------------------
(***************************************************************************)
(* The Kafka side of ws-server for TLC: the consume loop and the pool that *)
(* decides what is consumed.  They share no state in these models, so a    *)
(* behaviour is a behaviour of one of them, chosen at the start, with the  *)
(* other at rest: the reachable states are the union of theirs and not the *)
(* product.  The pool has two topics of one tenant.                        *)
(***************************************************************************)
EXTENDS KafkaConsumer, TLC

CONSTANTS t1, t2, a, Topic, Tenant, Owner, Shared, None, MaxChanges, MaxDeletes, MaxFails

VARIABLES which, pRegistry, pGone, pUpdates, pRefreshCh, pPc, pPlan, pSharedTopics, pBlocked,
          pDedicatedTopics, pTopicTenants, pPooled, pClient, pCallback, pStarted, pStop, pClean,
          pChanges, pDeletes, pFails

poolVars == <<pRegistry, pGone, pUpdates, pRefreshCh, pPc, pPlan, pSharedTopics, pBlocked,
    pDedicatedTopics, pTopicTenants, pPooled, pClient, pCallback, pStarted, pStop, pClean,
    pChanges, pDeletes, pFails>>

OneOwner == t1 :> a @@ t2 :> a

Part == {"consumer", "pool"}

Pool == INSTANCE ConsumerPool WITH registry <- pRegistry, gone <- pGone, updates <- pUpdates,
    refreshCh <- pRefreshCh, pc <- pPc, plan <- pPlan, sharedTopics <- pSharedTopics,
    blockedSharedTopics <- pBlocked, dedicatedTopics <- pDedicatedTopics,
    topicTenants <- pTopicTenants, pooled <- pPooled, client <- pClient, callback <- pCallback,
    started <- pStarted, stop <- pStop, clean <- pClean, changes <- pChanges,
    deletes <- pDeletes, fails <- pFails

ASSUME PoolAssumption == Pool!ConstantsAssumption

allVars == <<which, vars, poolVars>>

\* A component at rest has one initial state.
MCInit ==
    /\ which \in Part
    /\ Init /\ Pool!Init
    /\ which # "consumer" => log = [p \in Partition |-> [i \in 1 .. LogLen |-> "valid"]]
    /\ which # "pool" => pRegistry = [mode |-> [n \in Tenant |-> "off"], live |-> {}]

\* One component takes the steps and the other rests.
MCNext ==
    /\ which' = which
    /\ \/ which = "consumer" /\ Next /\ UNCHANGED poolVars
       \/ which = "pool" /\ Pool!Next /\ UNCHANGED vars

ConsumerStep(A) == which = "consumer" /\ A
PoolStep(A) == which = "pool" /\ A

\* The components' own fairness, each where it is the one that runs; of the pool's,
\* what Stop needs.
MCFairness ==
    /\ WF_vars(ConsumerStep(BusRecovers))
    /\ \A m \in Member :
         /\ WF_vars(ConsumerStep(Start(m))) /\ WF_vars(ConsumerStep(LoopStep(m)))
         /\ WF_vars(ConsumerStep(\E ok \in BOOLEAN : Close(m, ok)))
         /\ WF_vars(ConsumerStep(\E p \in Partition : \E n \in 1 .. LogLen : Poll(m, p, n)))
    /\ \A p \in Partition : WF_vars(ConsumerStep(\E m \in Member : Assign(m, p)))
    /\ WF_poolVars(PoolStep(Pool!Refresh))
    /\ \A c \in Pool!Consumer : WF_poolVars(PoolStep(Pool!handleBrokerDeletedTopic(c)))
    /\ SF_poolVars(PoolStep(Pool!LoopEnds)) /\ WF_poolVars(PoolStep(Pool!StopSteps))

MCSpec == MCInit /\ [][MCNext]_allVars /\ MCFairness

-----------------------------------------------------------------------------
\* Once faults cease every produced record is broadcast, dead-lettered, skipped or
\* overtaken by a marked drop, where the consumer is what runs (consumeLoop).
AllAccounted == which = "consumer" => EventuallyAccounted

\* After a refresh the pool's view is the registry's
\* (MultiTenantConsumerPool.refreshTopics).
FollowsRegistry == Pool!FollowsRegistry

\* Stop returns whatever the refresh and the pollers are doing when it is called
\* (MultiTenantConsumerPool.Stop).
StopReturned == Pool!StopReturned
=============================================================================
