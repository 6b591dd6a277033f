------------------------------ MODULE VMThreads ------------------------------
(***************************************************************************)
(* thread.spawn, thread.join, atomic.lock and atomic.unlock in the         *)
(* interpreter (src/vm.rs).  A thread is a std::thread with a VM of its    *)
(* own; its handles are in that VM, so only the thread that spawned a      *)
(* worker can join it, once.  A failure is an Err that unwinds the worker  *)
(* and is kept for whoever joins it.  atomic.lock spins on the word.       *)
(***************************************************************************)
EXTENDS Naturals

CONSTANTS LastThread,   (* threads are 0 (the main one) .. LastThread        *)
          Results,      (* what workers return                               *)
          FailsAt       (* where a failed check may happen: "running", and   *)
                        (* "in", with the lock held                          *)

Main    == 0
Tids    == 0..LastThread
Workers == 1..LastThread
None    == "none"
Nobody  == LastThread + 1     \* for Mutex: a number, as the threads are

VARIABLES word,      \* the lock word: 0 free, 1 held
          handles,   \* thread_handles of each thread's VM
          pc,        \* where each thread is
          target,    \* the worker a thread is joining
          returned,  \* what each worker's function returned (history)
          joined,    \* what each thread's joins returned (history)
          status     \* the program: "running", "exited" or "failed" (or "absent")

vars == <<word, handles, pc, target, returned, joined, status>>

Start(state) ==
  /\ word = 0
  /\ handles = [t \in Tids |-> {}]
  /\ pc = [t \in Tids |-> IF t = Main THEN "running" ELSE "unborn"]
  /\ target = [t \in Tids |-> Main]
  /\ returned = [w \in Workers |-> None]
  /\ joined = [t \in Tids |-> {}]
  /\ status = state
Init   == Start("running")
Absent == Start("absent")     \* no program runs

At(t, place) == status = "running" /\ pc[t] = place
Goto(t, place) == pc' = [pc EXCEPT ![t] = place]
\* An Err unwinds the thread; the main thread's ends the program.
Err(t) == /\ Goto(t, "failed")
          /\ status' = IF t = Main THEN "failed" ELSE status

-----------------------------------------------------------------------------
\* Faulty variants of the operations below, for trying the properties on.

\* adds one to the word, whatever it holds
UncheckedAcquire(t) ==
  /\ At(t, "spin")
  /\ word' = word + 1
  /\ Goto(t, "in")
  /\ UNCHANGED <<handles, target, returned, joined, status>>
\* leaves the word held
ForgetfulUnlock(t) ==
  /\ At(t, "in")
  /\ Goto(t, "running")
  /\ UNCHANGED <<word, handles, target, returned, joined, status>>
\* keeps the handle it joins
KeepingJoin(t) ==
  /\ At(t, "running")
  /\ \E w \in handles[t] : target' = [target EXCEPT ![t] = w]
  /\ Goto(t, "joining")
  /\ UNCHANGED <<word, handles, returned, joined, status>>
\* waits for a result only
HopefulJoined(t) ==
  /\ At(t, "joining")
  /\ pc[target[t]] = "returned"
  /\ joined' = [joined EXCEPT ![t] = @ \cup {<<target[t], returned[target[t]]>>}]
  /\ Goto(t, "running")
  /\ UNCHANGED <<word, handles, target, returned, status>>

-----------------------------------------------------------------------------
Spawn(t) ==
  /\ At(t, "running")
  /\ \E w \in Workers :
       /\ pc[w] = "unborn"
       /\ \A v \in 1..w-1 : pc[v] # "unborn"
       /\ \/ /\ pc' = [pc EXCEPT ![w] = "running"]
             /\ handles' = [handles EXCEPT ![t] = @ \cup {w}]
             /\ UNCHANGED status
          \/ Err(t) /\ UNCHANGED handles     \* the system refuses a thread
  /\ UNCHANGED <<word, target, returned, joined>>

WorkerReturns(t) ==
  /\ At(t, "running")
  /\ t # Main
  /\ \E r \in Results : returned' = [returned EXCEPT ![t] = r]
  /\ Goto(t, "returned")
  /\ UNCHANGED <<word, handles, target, joined, status>>

\* A failed check.  The word of a lock the thread holds stays 1.
Fail(t) ==
  /\ \E place \in FailsAt : At(t, place)
  /\ Err(t)
  /\ UNCHANGED <<word, handles, target, returned, joined>>

\* thread.join: a handle this thread does not have (any more) is an error.
Join(t) ==
  /\ At(t, "running")
  /\ \E w \in Workers :
       /\ pc[w] # "unborn"
       /\ target' = [target EXCEPT ![t] = w]
       /\ handles' = [handles EXCEPT ![t] = @ \ {w}]
       /\ IF w \in handles[t]
            THEN Goto(t, "joining") /\ UNCHANGED status
            ELSE Err(t)
  /\ UNCHANGED <<word, returned, joined>>

\* handle.join() returns once the thread has ended, with what it ended with.
Joined(t) ==
  LET w == target[t] IN
  /\ At(t, "joining")
  /\ pc[w] \in {"returned", "failed"}
  /\ IF pc[w] = "failed"
       THEN Err(t) /\ UNCHANGED joined
       ELSE /\ joined' = [joined EXCEPT ![t] = @ \cup {<<w, returned[w]>>}]
            /\ Goto(t, "running")
            /\ UNCHANGED status
  /\ UNCHANGED <<word, handles, target, returned>>

\* atomic.lock: check and set under the VM's mutex, retried while it is 1.
Lock(t) ==
  /\ At(t, "running")
  /\ Goto(t, "spin")
  /\ UNCHANGED <<word, handles, target, returned, joined, status>>

Acquire(t) ==
  /\ At(t, "spin")
  /\ word = 0
  /\ word' = 1
  /\ Goto(t, "in")
  /\ UNCHANGED <<handles, target, returned, joined, status>>

Unlock(t) ==
  /\ At(t, "in")
  /\ IF word = 1
       THEN word' = 0 /\ Goto(t, "running") /\ UNCHANGED status
       ELSE Err(t) /\ UNCHANGED word
  /\ UNCHANGED <<handles, target, returned, joined>>

MainReturns ==
  /\ At(Main, "running")
  /\ status' = "exited"
  /\ UNCHANGED <<word, handles, pc, target, returned, joined>>

Next == \/ MainReturns
        \/ \E t \in Tids :
             \/ Spawn(t) \/ WorkerReturns(t) \/ Fail(t) \/ Join(t) \/ Joined(t)
             \/ Lock(t) \/ Acquire(t) \/ Unlock(t)

(* Threads that can run do run, and a thread with the lock unlocks it (or  *)
(* fails).  What the program decides is never owed.                        *)
Fairness == \A t \in Tids :
  WF_vars(Joined(t) \/ Acquire(t) \/ Unlock(t))

Spec == Init /\ [][Next]_vars /\ Fairness

-----------------------------------------------------------------------------
TypeOK ==
  /\ word \in {0, 1}
  /\ handles \in [Tids -> SUBSET Workers]
  /\ pc \in [Tids -> {"unborn", "running", "spin", "in", "joining", "returned", "failed"}]
  /\ target \in [Tids -> Tids]
  /\ returned \in [Workers -> Results \cup {None}]
  /\ joined \in [Tids -> SUBSET (Workers \X Results)]
  /\ status \in {"running", "exited", "failed", "absent"}

\* A worker is joined at most once, by the thread that spawned it, and only a
\* worker that has returned: each handle is in one place, its VM's table or
\* the join that took it.
JoinedOnce ==
  \A t, u \in Tids : t # u =>
    /\ handles[t] \cap handles[u] = {}
    /\ \A j \in joined[t] : /\ j[2] = returned[j[1]]
                            /\ j[1] \notin handles[t] \cup handles[u]
                            /\ \A i \in joined[u] : i[1] # j[1]
    /\ pc[t] = "joining" => \A i \in joined[u] : i[1] # target[t]

\* A worker's failure reaches the thread that joins it: a join of a failed
\* worker fails too, and never waits.
FailurePropagates ==
  \A t \in Tids, w \in Workers :
    (pc[t] = "joining" /\ target[t] = w /\ pc[w] = "failed")
       ~> (pc[t] = "failed" \/ status # "running")

\* The VM's lock keeps the promise of Mutex: exclusion, and a free lock that is
\* wanted is taken.  (While no thread fails inside.)
Owner == IF \E t \in Tids : pc[t] = "in" THEN CHOOSE t \in Tids : pc[t] = "in"
         ELSE Nobody
M == INSTANCE Mutex WITH owner <- Owner, None <- Nobody, Threads <- Tids,
                         wants <- {t \in Tids : pc[t] = "spin"}
LockIsTaken == (\E t \in Tids : pc[t] = "spin") ~>
                  ((\E t \in Tids : pc[t] = "in") \/ status # "running")
ImplementsMutex == M!Init /\ [][M!Next]_M!vars /\ LockIsTaken

\* "contract failures that stop the program" (heap.aipl:13): raw's check of a
\* reused block is made with the heap's lock held, so when a worker fails there
\* and the main thread waits for the lock, the program must still stop.
Orphaned == word = 1 /\ \A t \in Tids : pc[t] # "in"
FailureInLockStops == (Orphaned /\ pc[Main] = "spin") ~> status # "running"
=============================================================================
