---------------------------- MODULE MCCloudTasks ----------------------------
(* TLC instances of CloudTasks.                                              *)
EXTENDS CloudTasks

CONSTANTS q1, q2, t1, t2, t3

(* Half a token per tick, a burst of one: the fractional rate of a slow queue*)
SlowLimits == [maxTokens |-> 2, refillRate |-> 1, maxConcurrent |-> 1]
FastLimits == [maxTokens |-> 4, refillRate |-> 4, maxConcurrent |-> 2]

(* A burst of two, one at a time.                                           *)
NarrowLimits == [maxTokens |-> 4, refillRate |-> 4, maxConcurrent |-> 1]

SlowOnly == {SlowLimits}
BurstsOfTwo == {NarrowLimits, FastLimits}

OneQueue == [t \in {t1, t2} |-> q1]
OneQueueEach == [t \in {t1, t2} |-> IF t = t1 THEN q1 ELSE q2]
TwoQueues == [t \in {t1, t2, t3} |-> IF t = t3 THEN q2 ELSE q1]

TwoOrMalformed == {2, Malformed}

ClientCalls == {"bufferTask", "deleteTask", "runTask", "updateQueue", "purgeQueue",
                "deleteQueue", "crash"}
EngineCalls == {"deleteTask", "pauseQueue", "stop"}
DeleteCalls == {"deleteTask"}
LiveCalls == {"deleteTask", "pauseQueue", "deleteQueue"}

Once == [t \in Tasks |-> 1]
TwiceFirst == [t \in Tasks |-> IF t = t1 THEN 2 ELSE 1]
=============================================================================
