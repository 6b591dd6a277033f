--------------------------- MODULE CompiledThreads ---------------------------
(***************************************************************************)
(* thread.spawn and thread.join in compiled code.  A handle is the address *)
(* of a record [done result fn arg] in shared memory (compiler/wasm.rs);   *)
(* the host starts a thread for it: the process itself in a native         *)
(* executable (native/native.aipl), or the runner (bin/aipl_run.rs).  The  *)
(* new thread stores its result, then the done flag, then notifies;        *)
(* thread.join tests the flag and waits on it.  Any thread may join any    *)
(* handle, any number of times.                                            *)
(***************************************************************************)
EXTENDS Naturals

CONSTANTS LastThread,   (* threads are 0 (the main one) .. LastThread        *)
          Results,      (* what workers return: i32s, Zero among them        *)
          Zero,         (* what a new record holds                           *)
          Hosts         (* the hosts considered: "native", "runner"          *)

ASSUME HostAssumption ==
  /\ LastThread \in Nat \ {0}
  /\ Zero \in Results
  /\ "none" \notin Results
  /\ Hosts \subseteq {"native", "runner"}

Main    == 0
Threads == 0..LastThread
Workers == 1..LastThread
None    == "none"

VARIABLES host,      \* what runs the program; it never changes
          rec,       \* the records: [done, result], by worker
          pc,        \* where each thread is
          target,    \* the worker a thread is joining
          returned,  \* what each worker's function returned (history)
          joined,    \* what each join returned (history)
          status     \* the program: "running", "exited" (status 0),
                     \* "failed" (another exit status)

vars == <<host, rec, pc, target, returned, joined, status>>

Fresh == [done |-> 0, result |-> Zero]

Init ==
  /\ host \in Hosts
  /\ rec = [w \in Workers |-> Fresh]
  /\ pc = [t \in Threads |-> IF t = Main THEN "running" ELSE "unborn"]
  /\ target = [t \in Threads |-> Main]
  /\ returned = [w \in Workers |-> None]
  /\ joined = [t \in Threads |-> {}]
  /\ status = "running"

At(t, place) == status = "running" /\ pc[t] = place
Goto(t, place) == pc' = [pc EXCEPT ![t] = place]

-----------------------------------------------------------------------------
\* Faulty variants of the operations below, for trying the properties on.

\* leaves the record as mem.alloc gave it
UninitialisedSpawn(t) ==
  /\ At(t, "running")
  /\ \E w \in t+1..LastThread :
       /\ pc[w] = "unborn"
       /\ rec' = [rec EXCEPT ![w] = [done |-> 0, result |-> None]]
       /\ Goto(w, "starting")
  /\ UNCHANGED <<host, target, returned, joined, status>>
\* takes an interrupted wait for the end of the worker
EagerInterrupted(t) ==
  /\ At(t, "asleep")
  /\ Goto(t, "read")
  /\ UNCHANGED <<host, rec, target, returned, joined, status>>
\* waits without comparing the flag
BlindWaitDone(t) ==
  /\ At(t, "wait")
  /\ Goto(t, "asleep")
  /\ UNCHANGED <<host, rec, target, returned, joined, status>>
\* wakes nobody
SilentNotify(t) ==
  /\ At(t, "notify")
  /\ Goto(t, "ended")
  /\ UNCHANGED <<host, rec, target, returned, joined, status>>
\* a thread that the host cannot start is just not there
QuietStart(t) ==
  /\ At(t, "starting")
  /\ \/ Goto(t, "running")
     \/ host = "runner" /\ Goto(t, "ended")
  /\ UNCHANGED <<host, rec, target, returned, joined, status>>

-----------------------------------------------------------------------------
\* thread.spawn: the record, then the host's thread.  If the system refuses one,
\* native code answers -1, on which thread.spawn traps; in the runner
\* std::thread::spawn panics, which unwinds the calling thread.
Spawn(t) ==
  /\ At(t, "running")
  /\ \E w \in Workers :
       /\ pc[w] = "unborn"
       /\ \A v \in 1..w-1 : pc[v] # "unborn"
       /\ w > t
       /\ rec' = [rec EXCEPT ![w] = Fresh]
       /\ \/ Goto(w, "starting")
          \/ Goto(t, IF host = "native" THEN "trapped" ELSE "unwinding")
  /\ UNCHANGED <<host, target, returned, joined, status>>

\* The new thread runs wasi_thread_start.  The runner instantiates the module
\* for it first, and a failure to do so counts as a failure of the thread.
Start(t) ==
  /\ At(t, "starting")
  /\ \/ Goto(t, "running")
     \/ host = "runner" /\ Goto(t, "trapped")
  /\ UNCHANGED <<host, rec, target, returned, joined, status>>

\* The worker returns r: wasi_thread_start stores it in the record.
WorkerReturns(t) ==
  /\ At(t, "running")
  /\ t # Main
  /\ \E r \in Results :
       /\ returned' = [returned EXCEPT ![t] = r]
       /\ rec' = [rec EXCEPT ![t].result = r]
  /\ Goto(t, "flag")
  /\ UNCHANGED <<host, target, joined, status>>

SetDone(t) ==
  /\ At(t, "flag")
  /\ rec' = [rec EXCEPT ![t].done = 1]
  /\ Goto(t, "notify")
  /\ UNCHANGED <<host, target, returned, joined, status>>

\* memory.atomic.notify(done, all)
NotifyJoiners(t) ==
  /\ At(t, "notify")
  /\ pc' = [u \in Threads |-> IF u = t THEN "ended"
                              ELSE IF pc[u] = "asleep" /\ target[u] = t THEN "test"
                              ELSE pc[u]]
  /\ UNCHANGED <<host, rec, target, returned, joined, status>>

\* A trap, a failed check, or sys.exit with a status that is not 0.
Trap(t) ==
  /\ At(t, "running")
  /\ Goto(t, "trapped")
  /\ UNCHANGED <<host, rec, target, returned, joined, status>>

\* sys.exit 0
Exit(t) ==
  /\ At(t, "running")
  /\ Goto(t, "exiting")
  /\ UNCHANGED <<host, rec, target, returned, joined, status>>

\* What the host does with a call that did not return.  Natively it ends the
\* process.  The runner's main thread passes its status on; its other threads
\* call process::exit if it is not 0, and otherwise, or unwound, they leave: the
\* thread is gone, its record is not set, and the program goes on.
HostEnds(t) ==
  /\ status = "running"
  /\ pc[t] \in {"trapped", "exiting", "unwinding"}
  /\ IF t = Main \/ host = "native" \/ pc[t] = "trapped"
       THEN /\ status' = IF pc[t] = "exiting" THEN "exited" ELSE "failed"
            /\ UNCHANGED pc
       ELSE Goto(t, "left") /\ UNCHANGED status
  /\ UNCHANGED <<host, rec, target, returned, joined>>

\* thread.join.  Its caller has the handle, so the worker has been spawned; a
\* program whose threads join in a cycle waits for itself and is left out:
\* here a thread joins later ones.
Join(t) ==
  /\ At(t, "running")
  /\ \E w \in Workers :
       /\ w > t
       /\ pc[w] # "unborn"
       /\ target' = [target EXCEPT ![t] = w]
  /\ Goto(t, "test")
  /\ UNCHANGED <<host, rec, returned, joined, status>>

\* i32.atomic.load of done: set, the result is read next.
TestDone(t) ==
  /\ At(t, "test")
  /\ Goto(t, IF rec[target[t]].done # 0 THEN "read" ELSE "wait")
  /\ UNCHANGED <<host, rec, target, returned, joined, status>>

\* memory.atomic.wait32(done, 0, forever)
WaitDone(t) ==
  /\ At(t, "wait")
  /\ Goto(t, IF rec[target[t]].done = 0 THEN "asleep" ELSE "test")
  /\ UNCHANGED <<host, rec, target, returned, joined, status>>

\* A wait that a signal cuts short counts as woken.
Interrupted(t) ==
  /\ At(t, "asleep")
  /\ Goto(t, "test")
  /\ UNCHANGED <<host, rec, target, returned, joined, status>>

ReadResult(t) ==
  /\ At(t, "read")
  /\ joined' = [joined EXCEPT ![t] = @ \cup {<<target[t], rec[target[t]].result>>}]
  /\ Goto(t, "running")
  /\ UNCHANGED <<host, rec, target, returned, status>>

\* _start returns: the process ends, whatever other threads are doing.
MainReturns ==
  /\ At(Main, "running")
  /\ status' = "exited"
  /\ UNCHANGED <<host, rec, pc, target, returned, joined>>

Next == \/ MainReturns
        \/ \E t \in Threads :
             \/ Spawn(t) \/ Start(t) \/ WorkerReturns(t) \/ SetDone(t)
             \/ NotifyJoiners(t) \/ Trap(t) \/ Exit(t) \/ HostEnds(t) \/ Join(t)
             \/ TestDone(t) \/ WaitDone(t) \/ Interrupted(t) \/ ReadResult(t)

(* The system runs every thread that can run.  What the program decides -  *)
(* to spawn, join, return or fail - is never owed.                         *)
Fairness == \A t \in Threads :
  WF_vars(Start(t) \/ SetDone(t) \/ NotifyJoiners(t) \/ HostEnds(t)
          \/ TestDone(t) \/ WaitDone(t) \/ ReadResult(t))

Spec == Init /\ [][Next]_vars /\ Fairness

-----------------------------------------------------------------------------
TypeOK ==
  /\ host \in Hosts
  /\ rec \in [Workers -> [done : {0, 1}, result : Results]]
  /\ pc \in [Threads -> {"unborn", "starting", "running", "flag", "notify", "ended",
                         "left", "trapped", "exiting", "unwinding", "test", "wait", "asleep", "read"}]
  /\ target \in [Threads -> Threads]
  /\ returned \in [Workers -> Results \cup {None}]
  /\ joined \in [Threads -> SUBSET (Workers \X Results)]
  /\ status \in {"running", "exited", "failed"}

\* "waits for the thread to finish and returns worker's result" (AIPL_SPEC.md
\* 4.D): for every joiner, however its test, wait and read interleave with the
\* worker's three stores; and no join of a thread that failed ever returns.
JoinReturnsResult ==
  \A t \in Threads : \A j \in joined[t] : j[2] = returned[j[1]]

\* No lost wakeup: a joiner asleep on a set flag is about to be notified.
NoJoinerForgotten ==
  \A t \in Threads :
    pc[t] = "asleep" /\ rec[target[t]].done = 1 => pc[target[t]] = "notify"

\* Everyone who joins a thread that returns gets on, unless the program ends.
Joining(t) == pc[t] \in {"test", "wait", "asleep", "read"}
JoinReturns ==
  \A t \in Threads, w \in Workers :
    (Joining(t) /\ target[t] = w /\ returned[w] # None)
       ~> (pc[t] = "running" \/ status # "running")

\* The failures that end the program: a trap of any thread, among them a spawn
\* the system refuses natively and a thread the runner cannot start, and whatever
\* ends the main thread; not a worker of the runner whose spawn is refused.
EndsAll(t) == pc[t] = "trapped" \/ (pc[t] = "unwinding" /\ t = Main)

\* What a join may wait for without end: a worker that goes on by itself or waits
\* in a join of its own, or one that has left the runner.
GoesOn(w) == pc[w] = "running" \/ Joining(w) \/ pc[w] = "left"

\* A failure that ends the program ends it though others wait for the thread or for
\* a lock it held; and a join waits for ever only for a worker that goes on for
\* ever or has left the runner: no other end of a worker (not started, trapped, in
\* the middle of its three stores) leaves a joiner behind.
FailuresAreSeen ==
  /\ \A t \in Threads : EndsAll(t) ~> status # "running"
  /\ \A t \in Threads, w \in Workers :
       (Joining(t) /\ target[t] = w)
         ~> (pc[t] = "running" \/ status # "running" \/ []GoesOn(w))

\* "a negative thread id traps" (compiler/wasm.rs:2458), and a trap ends the
\* program: so does a spawn that the system refuses, in any thread of either host.
RefusedSpawnEndsProgram ==
  \A t \in Threads : pc[t] = "unwinding" ~> status # "running"

\* "a thread that exits or traps ends the whole program, as in wasi-threads"
\* (bin/aipl_run.rs:731; native.aipl:27-29; AIPL_SPEC.md:1067, "from anywhere").
ExitEndsProgram ==
  \A t \in Threads : pc[t] = "exiting" ~> status # "running"

\* The same of native executables alone, where proc_exit is exit_group.
NativeExitEndsProgram ==
  \A t \in Threads : host = "native" /\ pc[t] = "exiting" ~> status # "running"
=============================================================================
