------------------------------ MODULE FutexLock ------------------------------
(***************************************************************************)
(* atomic.lock and atomic.unlock as src/compiler/wasm.rs compiles them:    *)
(* a word that is 0 (free) or 1 (held), taken with a compare-and-swap;     *)
(* a thread that finds it 1 waits on the word (memory.atomic.wait32, a     *)
(* futex in native executables), and unlocking swaps 0 in and then, in a   *)
(* second step, notifies every waiter.                                     *)
(***************************************************************************)
EXTENDS Naturals, FiniteSets

CONSTANTS Threads,         (* the threads that share the lock word           *)
          Undisciplined,   (* those that may turn out to be rogues           *)
          None

ASSUME ThreadsAssumption ==
  /\ Undisciplined \subseteq Threads
  /\ None \notin Threads

Free == 0
Held == 1
Data == 2      \* stands for every value that is not a lock state

VARIABLES word,      \* the i32 at the lock's address
          pc,        \* where each thread is in atomic.lock / atomic.unlock
          stopped,   \* a thread trapped, which ends the program
          rogues     \* the threads that unlock or overwrite the word without
                     \* holding the lock: {} in a correct program

vars == <<word, pc, stopped, rogues>>

(* "out": holds nothing;  "try": about to compare-and-swap;                *)
(* "wait": saw 1, about to call wait32;  "asleep": inside wait32;          *)
(* "in": holds the lock;  "notify": swapped 0 in, has not notified yet.    *)
Places == {"out", "try", "wait", "asleep", "in", "notify"}

Init ==
  /\ word = Free
  /\ pc = [t \in Threads |-> "out"]
  /\ stopped = FALSE
  /\ rogues \in SUBSET Undisciplined

Goto(t, place) == pc' = [pc EXCEPT ![t] = place]

-----------------------------------------------------------------------------
\* Faulty variants of the operations below, for trying the properties on.

\* adds one to the word instead of comparing and swapping
AddingTry(t) ==
  /\ ~stopped /\ pc[t] = "try"
  /\ word' = word + 1
  /\ Goto(t, IF word = Free THEN "in" ELSE "wait")
  /\ UNCHANGED <<stopped, rogues>>
\* swaps without comparing
SwappingTry(t) ==
  /\ ~stopped /\ pc[t] = "try"
  /\ word' = Held
  /\ Goto(t, "in")
  /\ UNCHANGED <<stopped, rogues>>
\* sleeps whatever the word has become
BlindWait(t) ==
  /\ ~stopped /\ pc[t] = "wait"
  /\ Goto(t, "asleep")
  /\ UNCHANGED <<word, stopped, rogues>>
\* wakes nobody
SilentNotify(t) ==
  /\ ~stopped /\ pc[t] = "notify"
  /\ Goto(t, "out")
  /\ UNCHANGED <<word, stopped, rogues>>

-----------------------------------------------------------------------------
Lock(t) ==
  /\ ~stopped
  /\ pc[t] = "out"
  /\ Goto(t, "try")
  /\ UNCHANGED <<word, stopped, rogues>>

\* cmpxchg 0 -> 1; an old value that is neither 0 nor 1 is not a lock: trap.
Try(t) ==
  /\ ~stopped
  /\ pc[t] = "try"
  /\ \/ /\ word = Free
        /\ word' = Held
        /\ Goto(t, "in")
        /\ UNCHANGED <<stopped, rogues>>
     \/ /\ word = Held
        /\ Goto(t, "wait")
        /\ UNCHANGED <<word, stopped>>
     \/ /\ word \notin {Free, Held}
        /\ stopped' = TRUE
        /\ UNCHANGED <<word, pc>>
  /\ UNCHANGED rogues

\* wait32(word, 1, forever): sleeps only if the word still holds 1.
Wait(t) ==
  /\ ~stopped
  /\ pc[t] = "wait"
  /\ Goto(t, IF word = Held THEN "asleep" ELSE "try")
  /\ UNCHANGED <<word, stopped, rogues>>

\* A wait that a signal cuts short counts as woken; the loop tries again.
Interrupted(t) ==
  /\ ~stopped
  /\ pc[t] = "asleep"
  /\ Goto(t, "try")
  /\ UNCHANGED <<word, stopped, rogues>>

\* xchg 0: the word must have been 1, or the program traps (having stored 0).
Unlock(t) ==
  /\ ~stopped
  /\ pc[t] = "in" \/ (pc[t] = "out" /\ t \in rogues)
  /\ word' = Free
  /\ IF word = Held
       THEN Goto(t, "notify") /\ UNCHANGED stopped
       ELSE stopped' = TRUE /\ UNCHANGED pc
  /\ UNCHANGED rogues

\* notify(word, all): every sleeper goes back to its compare-and-swap.
Notify(t) ==
  /\ ~stopped
  /\ pc[t] = "notify"
  /\ pc' = [u \in Threads |-> IF u = t THEN "out"
                              ELSE IF pc[u] = "asleep" THEN "try"
                              ELSE pc[u]]
  /\ UNCHANGED <<word, stopped, rogues>>

\* A store of data into the lock word by code that does not own it.
Scribble(t) ==
  /\ ~stopped
  /\ pc[t] = "out"
  /\ t \in rogues
  /\ word' = Data
  /\ UNCHANGED <<pc, stopped, rogues>>

Next == \E t \in Threads :
          \/ Lock(t) \/ Try(t) \/ Wait(t) \/ Interrupted(t)
          \/ Unlock(t) \/ Notify(t) \/ Scribble(t)

(* The scheduler lets every thread that can run go on, and a thread inside *)
(* a critical section reaches its unlock.  Calling lock, and being         *)
(* interrupted, are never owed.                                            *)
Fairness == \A t \in Threads :
              WF_vars(Try(t) \/ Wait(t) \/ Notify(t) \/ (pc[t] = "in" /\ Unlock(t)))

Spec == Init /\ [][Next]_vars /\ Fairness

-----------------------------------------------------------------------------
TypeOK ==
  /\ word \in {Free, Held, Data}
  /\ pc \in [Threads -> Places]
  /\ stopped \in BOOLEAN
  /\ rogues \subseteq Undisciplined

\* Between lock and unlock a thread is alone: what std/heap and every other
\* user of a lock word relies on.
MutualExclusion ==
  rogues = {} =>
    \A t, u \in Threads : pc[t] = "in" /\ pc[u] = "in" => t = u

\* No lost wakeup: while a thread sleeps and the word is free, somebody is on
\* the way to notify it.  The gap between atomic.unlock's swap and its notify,
\* and the one between atomic.lock's swap and its wait, are where it could go
\* wrong; it holds even when undisciplined threads unlock what others hold.
NoLostWakeup ==
  (\E t \in Threads : pc[t] = "asleep") /\ word = Free /\ ~stopped
     => \E u \in Threads : pc[u] = "notify"

\* Threads that pair lock and unlock never meet the trap that atomic.unlock
\* takes on a word that is not 1, nor atomic.lock's on a word that is data.
DisciplineNeverTraps == rogues = {} => ~stopped

\* Without rogues the compiled lock implements Mutex, its liveness included: a
\* lock that is wanted and free is taken, by one of the waiters.
Owner == IF \E t \in Threads : pc[t] = "in"
           THEN CHOOSE t \in Threads : pc[t] = "in"
           ELSE None
Wants == {t \in Threads : pc[t] \in {"try", "wait", "asleep"}}

M == INSTANCE Mutex WITH owner <- Owner, wants <- Wants

ImplementsMutex == /\ M!Init
                   /\ [][rogues = {} => M!Next]_(M!vars)
                   /\ rogues = {} => M!Fairness

=============================================================================
