------------------------ MODULE CompiledThreads_proofs ------------------------
(* What thread.join guarantees in compiled code, for any number of threads  *)
(* and results, under either host.                                          *)
EXTENDS CompiledThreads, TLAPS

-----------------------------------------------------------------------------
\* A record's three stores come in order: result, then flag, then notify.
RecordInv(w) ==
  /\ returned[w] # None => /\ rec[w].result = returned[w]
                           /\ pc[w] \in {"flag", "notify", "ended"}
  /\ pc[w] \in {"flag", "notify"} => returned[w] # None
  /\ rec[w].done = 1 => returned[w] # None /\ pc[w] \in {"notify", "ended"}

\* A joiner joins a worker, and reads its result only once the flag is set.
JoinerInv(t) ==
  /\ Joining(t) => target[t] \in Workers
  /\ pc[t] = "read" => rec[target[t]].done = 1

IInv ==
  /\ TypeOK
  /\ \A w \in Workers : RecordInv(w)
  /\ \A t \in Threads : JoinerInv(t)
  /\ JoinReturnsResult
  /\ NoJoinerForgotten

\* Main is a thread that is not a worker.
LEMMA ThreadsAre == Workers \subseteq Threads /\ Main \in Threads /\ Main \notin Workers
BY HostAssumption DEF Workers, Threads, Main

\* The steps that store to a record, and those that end a wait, keep IInv.
LEMMA StoreSteps ==
  ASSUME IInv, NEW t \in Threads,
         \/ Spawn(t) \/ WorkerReturns(t) \/ SetDone(t) \/ NotifyJoiners(t)
  PROVE  IInv'
<1> USE DEF IInv, TypeOK, RecordInv, JoinerInv, JoinReturnsResult, NoJoinerForgotten,
            Joining, None
<1> USE HostAssumption, ThreadsAre
<1>1. CASE Spawn(t)
  <2>1. PICK w \in Workers, u \in Threads, place \in {"starting", "trapped", "unwinding"} :
          /\ u \in {t, w}
          /\ pc[w] = "unborn"
          /\ pc[t] = "running"
          /\ rec' = [rec EXCEPT ![w] = Fresh]
          /\ pc' = [pc EXCEPT ![u] = place]
          /\ UNCHANGED <<host, target, returned, joined, status>>
    BY <1>1 DEF Spawn, At, Goto
  <2>2. rec[w].done = 0 /\ returned[w] = None
    BY <2>1
  <2>3. \A v \in Workers \ {w} : rec'[v] = rec[v]
    BY <2>1
  <2>4. rec'[w] = [done |-> 0, result |-> Zero]
    BY <2>1 DEF Fresh
  <2> QED BY <2>1, <2>2, <2>3, <2>4
<1>2. CASE WorkerReturns(t)
  <2>1. t \in Workers
    BY <1>2 DEF WorkerReturns, Workers, Threads, Main
  <2>2. PICK r \in Results :
          /\ pc[t] = "running"
          /\ returned' = [returned EXCEPT ![t] = r]
          /\ rec' = [rec EXCEPT ![t].result = r]
          /\ pc' = [pc EXCEPT ![t] = "flag"]
          /\ UNCHANGED <<host, target, joined, status>>
    BY <1>2 DEF WorkerReturns, At, Goto
  <2>3. returned[t] = None /\ rec[t].done = 0
    BY <2>1, <2>2
  <2>4. rec'[t] = [done |-> 0, result |-> r] /\ \A v \in Workers \ {t} : rec'[v] = rec[v]
    BY <2>1, <2>2, <2>3
  <2> QED BY <2>1, <2>2, <2>3, <2>4
<1>3. CASE SetDone(t)
  <2>1. /\ pc[t] = "flag"
        /\ rec' = [rec EXCEPT ![t].done = 1]
        /\ pc' = [pc EXCEPT ![t] = "notify"]
        /\ UNCHANGED <<host, target, returned, joined, status>>
    BY <1>3 DEF SetDone, At, Goto
  <2>2. \A v \in Workers : /\ rec'[v].result = rec[v].result
                           /\ rec'[v].done = IF v = t THEN 1 ELSE rec[v].done
                           /\ rec'[v] \in [done : {0, 1}, result : Results]
    BY <2>1
  <2>3. TypeOK' /\ JoinReturnsResult'
    <3>1. rec' \in [Workers -> [done : {0, 1}, result : Results]]
      <4>1. rec' = [v \in Workers |-> rec'[v]]
        BY <2>1
      <4> QED BY <4>1, <2>2
    <3> QED BY <2>1, <3>1
  <2>4. ASSUME NEW w \in Workers PROVE RecordInv(w)'
    BY <2>1, <2>2
  <2>5. ASSUME NEW u \in Threads PROVE JoinerInv(u)'
    BY <2>1, <2>2
  <2>6. NoJoinerForgotten'
    BY <2>1, <2>2
  <2> QED BY <2>3, <2>4, <2>5, <2>6
<1>4. CASE NotifyJoiners(t)
  <2>1. /\ pc[t] = "notify"
        /\ pc' = [u \in Threads |-> IF u = t THEN "ended"
                                    ELSE IF pc[u] = "asleep" /\ target[u] = t THEN "test"
                                    ELSE pc[u]]
        /\ UNCHANGED <<host, rec, target, returned, joined, status>>
    BY <1>4 DEF NotifyJoiners, At
  <2> QED BY <2>1
<1> QED BY <1>1, <1>2, <1>3, <1>4

\* The other steps keep IInv.
LEMMA OtherSteps ==
  ASSUME IInv, NEW t \in Threads,
         \/ Start(t) \/ Trap(t) \/ Exit(t) \/ HostEnds(t) \/ Join(t)
         \/ TestDone(t) \/ WaitDone(t) \/ Interrupted(t) \/ ReadResult(t)
  PROVE  IInv'
<1> USE DEF IInv, TypeOK, RecordInv, JoinerInv, JoinReturnsResult, NoJoinerForgotten,
            Joining, None, At, Goto
<1> USE HostAssumption, ThreadsAre
<1>1. CASE Start(t)
  BY <1>1 DEF Start
<1>2. CASE Trap(t)
  BY <1>2 DEF Trap
<1>3. CASE Exit(t)
  BY <1>3 DEF Exit
<1>4. CASE HostEnds(t)
  BY <1>4 DEF HostEnds
<1>5. CASE Join(t)
  BY <1>5 DEF Join
<1>6. CASE TestDone(t)
  BY <1>6 DEF TestDone
<1>7. CASE WaitDone(t)
  BY <1>7 DEF WaitDone
<1>8. CASE Interrupted(t)
  BY <1>8 DEF Interrupted
<1>9. CASE ReadResult(t)
  <2>1. target[t] \in Workers /\ rec[target[t]].result = returned[target[t]]
    BY <1>9 DEF ReadResult
  <2>2. /\ joined' = [joined EXCEPT ![t] = @ \cup {<<target[t], rec[target[t]].result>>}]
        /\ pc' = [pc EXCEPT ![t] = "running"]
        /\ UNCHANGED <<host, rec, target, returned, status>>
    BY <1>9 DEF ReadResult
  <2>3. joined' \in [Threads -> SUBSET (Workers \X Results)]
    BY <2>1, <2>2
  <2>4. JoinReturnsResult'
    BY <2>1, <2>2
  <2>5. TypeOK'
    BY <2>2, <2>3
  <2>6. ASSUME NEW w \in Workers PROVE RecordInv(w)'
    BY <1>9, <2>2 DEF ReadResult
  <2>7. ASSUME NEW u \in Threads PROVE JoinerInv(u)'
    BY <2>2
  <2>8. NoJoinerForgotten'
    BY <1>9, <2>2 DEF ReadResult
  <2> QED BY <2>4, <2>5, <2>6, <2>7, <2>8
<1> QED BY <1>1, <1>2, <1>3, <1>4, <1>5, <1>6, <1>7, <1>8, <1>9

\* IInv is an invariant: initially no record is set and nobody joins.
LEMMA Invariant == Spec => []IInv
<1> USE DEF IInv
<1>1. Init => IInv
  BY HostAssumption, ThreadsAre
     DEF Init, TypeOK, RecordInv, JoinerInv, JoinReturnsResult, NoJoinerForgotten, Joining,
         Fresh, None
<1>2. IInv /\ [Next]_vars => IInv'
  <2> SUFFICES ASSUME IInv, [Next]_vars PROVE IInv'
    OBVIOUS
  <2>1. CASE MainReturns
    BY <2>1 DEF MainReturns, TypeOK, RecordInv, JoinerInv, JoinReturnsResult,
                NoJoinerForgotten, Joining
  <2>2. CASE UNCHANGED vars
    BY <2>2 DEF vars, TypeOK, RecordInv, JoinerInv, JoinReturnsResult,
                NoJoinerForgotten, Joining
  <2>3. ASSUME NEW t \in Threads,
               \/ Spawn(t) \/ WorkerReturns(t) \/ SetDone(t) \/ NotifyJoiners(t)
        PROVE  IInv'
    BY <2>3, StoreSteps
  <2>4. ASSUME NEW t \in Threads,
               \/ Start(t) \/ Trap(t) \/ Exit(t) \/ HostEnds(t) \/ Join(t)
               \/ TestDone(t) \/ WaitDone(t) \/ Interrupted(t) \/ ReadResult(t)
        PROVE  IInv'
    BY <2>4, OtherSteps
  <2> QED BY <2>1, <2>2, <2>3, <2>4 DEF Next
<1> QED BY <1>1, <1>2, PTL DEF Spec

-----------------------------------------------------------------------------
\* thread.join returns what the worker's function returned, to every thread
\* that joins it, and no join of a thread that failed returns.
THEOREM JoinsAreRight == Spec => []JoinReturnsResult
<1>1. IInv => JoinReturnsResult
  BY DEF IInv
<1> QED BY <1>1, Invariant, PTL

\* No joiner sleeps on a flag that is set and already notified.
THEOREM NoJoinerSleepsOn == Spec => []NoJoinerForgotten
<1>1. IInv => NoJoinerForgotten
  BY DEF IInv
<1> QED BY <1>1, Invariant, PTL

=============================================================================
