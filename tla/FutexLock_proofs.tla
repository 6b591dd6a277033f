--------------------------- MODULE FutexLock_proofs ---------------------------
(* Proofs about FutexLock for every set of threads.                         *)
EXTENDS FutexLock, TLAPS

\* Every variable of the compiled lock keeps its type.
THEOREM TypeCorrect == Spec => []TypeOK
<1> USE DEF TypeOK, Places, Free, Held, Data
<1>1. Init => TypeOK
  BY DEF Init
<1>2. TypeOK /\ [Next]_vars => TypeOK'
  <2> SUFFICES ASSUME TypeOK, [Next]_vars
               PROVE  TypeOK'
    OBVIOUS
  <2>1. ASSUME NEW t \in Threads, Lock(t) PROVE TypeOK'
    BY <2>1 DEF Lock, Goto
  <2>2. ASSUME NEW t \in Threads, Try(t) PROVE TypeOK'
    BY <2>2 DEF Try, Goto
  <2>3. ASSUME NEW t \in Threads, Wait(t) PROVE TypeOK'
    BY <2>3 DEF Wait, Goto
  <2>4. ASSUME NEW t \in Threads, Interrupted(t) PROVE TypeOK'
    BY <2>4 DEF Interrupted, Goto
  <2>5. ASSUME NEW t \in Threads, Unlock(t) PROVE TypeOK'
    BY <2>5 DEF Unlock, Goto
  <2>6. ASSUME NEW t \in Threads, Notify(t) PROVE TypeOK'
    BY <2>6 DEF Notify
  <2>7. ASSUME NEW t \in Threads, Scribble(t) PROVE TypeOK'
    BY <2>7 DEF Scribble
  <2>8. CASE UNCHANGED vars
    BY <2>8 DEF vars
  <2> QED
    BY <2>1, <2>2, <2>3, <2>4, <2>5, <2>6, <2>7, <2>8 DEF Next
<1> QED
  BY <1>1, <1>2, PTL DEF Spec

-----------------------------------------------------------------------------
\* No wakeup is lost between a thread's last look at the word and its sleep,
\* nor between the swap that frees the word and its notify, whatever
\* undisciplined threads do to the word.
THEOREM NoWakeupLost == Spec => []NoLostWakeup
<1> USE DEF TypeOK, Places, Free, Held, Data, NoLostWakeup
<1>1. Init => NoLostWakeup
  BY DEF Init
<1>2. TypeOK /\ NoLostWakeup /\ [Next]_vars => NoLostWakeup'
  <2> SUFFICES ASSUME TypeOK, NoLostWakeup, [Next]_vars
               PROVE  NoLostWakeup'
    OBVIOUS
  <2>1. ASSUME NEW t \in Threads, Lock(t) PROVE NoLostWakeup'
    BY <2>1 DEF Lock, Goto
  <2>2. ASSUME NEW t \in Threads, Try(t) PROVE NoLostWakeup'
    BY <2>2 DEF Try, Goto
  <2>3. ASSUME NEW t \in Threads, Wait(t) PROVE NoLostWakeup'
    <3>1. CASE word = Held
      BY <2>3, <3>1 DEF Wait, Goto
    <3>2. CASE word # Held
      BY <2>3, <3>2 DEF Wait, Goto
    <3> QED BY <3>1, <3>2
  <2>4. ASSUME NEW t \in Threads, Interrupted(t) PROVE NoLostWakeup'
    BY <2>4 DEF Interrupted, Goto
  <2>5. ASSUME NEW t \in Threads, Unlock(t) PROVE NoLostWakeup'
    <3>1. CASE word = Held
      <4>1. pc'[t] = "notify"
        BY <2>5, <3>1 DEF Unlock, Goto
      <4> QED BY <4>1
    <3>2. CASE word # Held
      BY <2>5, <3>2 DEF Unlock
    <3> QED BY <3>1, <3>2
  <2>6. ASSUME NEW t \in Threads, Notify(t) PROVE NoLostWakeup'
    <3>1. \A u \in Threads : pc'[u] # "asleep"
      BY <2>6 DEF Notify
    <3> QED BY <3>1
  <2>7. ASSUME NEW t \in Threads, Scribble(t) PROVE NoLostWakeup'
    BY <2>7 DEF Scribble
  <2>8. CASE UNCHANGED vars
    BY <2>8 DEF vars
  <2> QED
    BY <2>1, <2>2, <2>3, <2>4, <2>5, <2>6, <2>7, <2>8 DEF Next
<1> QED
  BY <1>1, <1>2, TypeCorrect, PTL DEF Spec

-----------------------------------------------------------------------------
\* The inductive strengthening of mutual exclusion: the word is 1 exactly
\* while some thread is inside, and only one ever is.
LockInv ==
  /\ ~stopped
  /\ word \in {Free, Held}
  /\ word = Held <=> \E t \in Threads : pc[t] = "in"
  /\ \A t, u \in Threads : pc[t] = "in" /\ pc[u] = "in" => t = u

\* LockInv is preserved by every step of a program without rogues.
LEMMA LockInvStep ==
  ASSUME rogues = {}, TypeOK, LockInv, [Next]_vars
  PROVE  LockInv'
<1> USE DEF TypeOK, Places, Free, Held, Data, LockInv
<1>1. ASSUME NEW t \in Threads, Lock(t) PROVE LockInv'
  BY <1>1 DEF Lock, Goto
<1>2. ASSUME NEW t \in Threads, Try(t) PROVE LockInv'
  <2>1. CASE word = Free
    <3>1. word' = Held /\ pc' = [pc EXCEPT ![t] = "in"] /\ UNCHANGED stopped
      BY <1>2, <2>1 DEF Try, Goto
    <3>2. \A u \in Threads : pc[u] # "in"
      BY <2>1
    <3> QED BY <3>1, <3>2
  <2>2. CASE word = Held
    BY <1>2, <2>2 DEF Try, Goto
  <2> QED BY <2>1, <2>2
<1>3. ASSUME NEW t \in Threads, Wait(t) PROVE LockInv'
  BY <1>3 DEF Wait, Goto
<1>4. ASSUME NEW t \in Threads, Interrupted(t) PROVE LockInv'
  BY <1>4 DEF Interrupted, Goto
<1>5. ASSUME NEW t \in Threads, Unlock(t) PROVE LockInv'
  <2>1. pc[t] = "in" /\ word = Held
    BY <1>5 DEF Unlock
  <2>2. word' = Free /\ pc' = [pc EXCEPT ![t] = "notify"] /\ UNCHANGED stopped
    BY <1>5, <2>1 DEF Unlock, Goto
  <2>3. \A u \in Threads : pc'[u] # "in"
    BY <2>1, <2>2
  <2> QED BY <2>2, <2>3
<1>6. ASSUME NEW t \in Threads, Notify(t) PROVE LockInv'
  <2>1. \A u \in Threads : pc'[u] = "in" <=> pc[u] = "in"
    BY <1>6 DEF Notify
  <2>2. UNCHANGED <<word, stopped>>
    BY <1>6 DEF Notify
  <2> QED BY <2>1, <2>2
<1>7. ASSUME NEW t \in Threads, Scribble(t) PROVE LockInv'
  BY <1>7 DEF Scribble
<1>8. CASE UNCHANGED vars
  BY <1>8 DEF vars
<1> QED
  BY <1>1, <1>2, <1>3, <1>4, <1>5, <1>6, <1>7, <1>8 DEF Next

\* Nobody turns rogue: who is undisciplined is settled from the start.
LEMMA RoguesFixed == Next => UNCHANGED rogues
BY DEF Next, Lock, Try, Wait, Interrupted, Unlock, Notify, Scribble

\* What a program owes to have LockInv: to be without rogues.
DisciplinedInv == rogues = {} => LockInv

\* LockInv is an invariant of programs without rogues.
LEMMA LockInvariant == Spec => []DisciplinedInv
<1>1. Init => DisciplinedInv
  BY DEF Init, DisciplinedInv, LockInv, Free, Held
<1>2. TypeOK /\ DisciplinedInv /\ [Next]_vars => DisciplinedInv'
  <2> SUFFICES ASSUME TypeOK, DisciplinedInv, [Next]_vars, rogues' = {}
               PROVE  LockInv'
    BY DEF DisciplinedInv
  <2>1. rogues = {}
    BY RoguesFixed DEF vars
  <2> QED
    BY <2>1, LockInvStep DEF DisciplinedInv
<1> QED
  BY <1>1, <1>2, TypeCorrect, PTL DEF Spec

\* Two threads are never between atomic.lock and atomic.unlock of one word.
THEOREM MutualExclusionHolds == Spec => []MutualExclusion
<1>1. DisciplinedInv => MutualExclusion
  BY DEF DisciplinedInv, LockInv, MutualExclusion
<1> QED BY <1>1, LockInvariant, PTL

\* Paired locks and unlocks never trap.
THEOREM DisciplineSuffices == Spec => []DisciplineNeverTraps
<1>1. DisciplinedInv => DisciplineNeverTraps
  BY DEF DisciplinedInv, LockInv, DisciplineNeverTraps
<1> QED BY <1>1, LockInvariant, PTL

-----------------------------------------------------------------------------
\* Under the inductive invariant, the thread inside is the abstract owner.
LEMMA OwnerIs ==
  ASSUME NEW t \in Threads, TypeOK, LockInv, pc[t] = "in"
  PROVE  Owner = t
BY DEF LockInv, Owner

\* While nobody is between atomic.lock and atomic.unlock, the lock has no owner.
LEMMA NoOwner ==
  ASSUME \A t \in Threads : pc[t] # "in"
  PROVE  Owner = None
BY DEF Owner

\* Every step of the compiled lock is a step of the abstract lock: a
\* compare-and-swap that succeeds takes it, the swap of 0 gives it back, and
\* failing, sleeping, waking and notifying are invisible.
THEOREM ImplementsMutexSafety ==
  Spec => M!Init /\ [][rogues = {} => M!Next]_(M!vars)
<1> USE DEF Free, Held, Data
<1>1. Init => M!Init
  BY NoOwner DEF Init, M!Init, Wants, Owner
<1>2. TypeOK /\ DisciplinedInv /\ [Next]_vars => [rogues = {} => M!Next]_(M!vars)
  <2> SUFFICES ASSUME TypeOK, LockInv, rogues = {}, [Next]_vars
               PROVE  M!Next \/ UNCHANGED M!vars
    BY DEF DisciplinedInv
  <2> USE DEF TypeOK, Places
  <2>0. ASSUME NEW t \in Threads, NEW p \in Places, Goto(t, p), p # "in", pc[t] # "in"
        PROVE  UNCHANGED Owner
    <3>1. \A u \in Threads : pc'[u] = "in" <=> pc[u] = "in"
      BY <2>0 DEF Goto
    <3> QED BY <3>1, OwnerIs, NoOwner DEF Owner
  <2>1. ASSUME NEW t \in Threads, Lock(t) PROVE M!Ask(t)
    <3>1. Wants' = Wants \cup {t} /\ t \notin Wants
      BY <2>1 DEF Lock, Goto, Wants
    <3>2. UNCHANGED Owner
      BY <2>0, <2>1 DEF Lock
    <3>3. Owner # t
      BY <2>1, ThreadsAssumption DEF Lock, Owner
    <3> QED BY <3>1, <3>2, <3>3 DEF M!Ask
  <2>2. ASSUME NEW t \in Threads, Try(t) PROVE M!Take(t) \/ UNCHANGED M!vars
    <3>1. CASE word = Free
      <4>1. \A u \in Threads : pc[u] # "in"
        BY <3>1 DEF LockInv
      <4>2. pc[t] = "try" /\ pc' = [pc EXCEPT ![t] = "in"]
        BY <2>2, <3>1 DEF Try, Goto
      <4>3. Owner = None
        BY <4>1, NoOwner
      <4>4. Owner' = t
        <5>1. pc'[t] = "in"
          BY <4>2
        <5>2. \A u \in Threads : pc'[u] = "in" => u = t
          BY <4>1, <4>2
        <5> QED BY <5>1, <5>2 DEF Owner
      <4>5. t \in Wants /\ Wants' = Wants \ {t}
        BY <4>2 DEF Wants
      <4> QED BY <4>3, <4>4, <4>5 DEF M!Take
    <3>2. CASE word = Held
      <4>1. pc[t] = "try" /\ pc' = [pc EXCEPT ![t] = "wait"]
        BY <2>2, <3>2 DEF Try, Goto
      <4>2. UNCHANGED Owner
        BY <2>0, <4>1 DEF Goto
      <4>3. UNCHANGED Wants
        BY <4>1 DEF Wants
      <4> QED BY <4>2, <4>3 DEF M!vars
    <3> QED BY <3>1, <3>2 DEF LockInv
  <2>3. ASSUME NEW t \in Threads, Wait(t) PROVE UNCHANGED M!vars
    <3>1. UNCHANGED Owner
      BY <2>0, <2>3 DEF Wait
    <3>2. UNCHANGED Wants
      BY <2>3 DEF Wait, Goto, Wants
    <3> QED BY <3>1, <3>2 DEF M!vars
  <2>4. ASSUME NEW t \in Threads, Interrupted(t) PROVE UNCHANGED M!vars
    <3>1. UNCHANGED Owner
      BY <2>0, <2>4 DEF Interrupted
    <3>2. UNCHANGED Wants
      BY <2>4 DEF Interrupted, Goto, Wants
    <3> QED BY <3>1, <3>2 DEF M!vars
  <2>5. ASSUME NEW t \in Threads, Unlock(t) PROVE M!Give(t)
    <3>1. pc[t] = "in" /\ word = Held
      BY <2>5 DEF Unlock, LockInv
    <3>2. pc' = [pc EXCEPT ![t] = "notify"]
      BY <2>5, <3>1 DEF Unlock, Goto
    <3>3. Owner = t
      BY <3>1, OwnerIs
    <3>4. Owner' = None
      <4>1. \A u \in Threads : pc'[u] # "in"
        BY <3>1, <3>2 DEF LockInv
      <4> QED BY <4>1 DEF Owner
    <3>5. UNCHANGED Wants
      BY <3>1, <3>2 DEF Wants
    <3> QED BY <3>3, <3>4, <3>5 DEF M!Give
  <2>6. ASSUME NEW t \in Threads, Notify(t) PROVE UNCHANGED M!vars
    <3>1. \A u \in Threads : pc'[u] = "in" <=> pc[u] = "in"
      BY <2>6 DEF Notify
    <3>2. UNCHANGED Owner
      BY <3>1 DEF Owner
    <3>3. UNCHANGED Wants
      BY <2>6 DEF Notify, Wants
    <3> QED BY <3>2, <3>3 DEF M!vars
  <2>7. ASSUME NEW t \in Threads, Scribble(t) PROVE FALSE
    BY <2>7 DEF Scribble
  <2>8. CASE UNCHANGED vars
    BY <2>8 DEF vars, M!vars, Owner, Wants
  <2> QED
    BY <2>1, <2>2, <2>3, <2>4, <2>5, <2>6, <2>7, <2>8 DEF Next, M!Next
<1> QED
  BY <1>1, <1>2, LockInvariant, TypeCorrect, PTL DEF Spec

=============================================================================
