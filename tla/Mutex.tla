-------------------------------- MODULE Mutex --------------------------------
(***************************************************************************)
(* What a lock word promises its users (AIPL_SPEC.md 4.D): a thread asks   *)
(* for the lock, is given it when nobody holds it, and gives it back.      *)
(* FutexLock (compiled code) and VMThreads (the VM) implement it.          *)
(***************************************************************************)
CONSTANTS Threads,   (* the threads that share the lock   *)
          None       (* "no thread": nobody owns the lock *)

VARIABLES owner,   \* the thread between atomic.lock and atomic.unlock, or None
          wants    \* the threads inside atomic.lock

vars == <<owner, wants>>

Init ==
  /\ owner = None
  /\ wants = {}

\* A thread calls atomic.lock.
Ask(t) ==
  /\ t \notin wants
  /\ owner # t
  /\ wants' = wants \cup {t}
  /\ UNCHANGED owner

\* Its call returns: nobody owned the lock.
Take(t) ==
  /\ t \in wants
  /\ owner = None
  /\ owner' = t
  /\ wants' = wants \ {t}

\* The owner calls atomic.unlock.
Give(t) ==
  /\ owner = t
  /\ owner' = None
  /\ UNCHANGED wants

Next == \E t \in Threads : Ask(t) \/ Take(t) \/ Give(t)

(* A free lock that is wanted is taken by somebody; which of the waiters   *)
(* it is, is not promised (both implementations race for the word).        *)
Fairness ==
  /\ WF_vars(\E t \in Threads : Take(t))
  /\ \A t \in Threads : WF_vars(Give(t))

Spec == Init /\ [][Next]_vars /\ Fairness

=============================================================================
