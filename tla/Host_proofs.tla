------------------------------ MODULE Host_proofs ------------------------------
(* What the hosts keep of their promises in every behaviour of Host, for any *)
(* threads, children, clients, pipes and sizes: of each part in turn, absent *)
(* or running, and then of their composition.                                *)
EXTENDS Host, FiniteSetTheorems, TLAPS

-----------------------------------------------------------------------------
(***************************************************************************)
(* The process table of sys_procs.rs.                                      *)
(***************************************************************************)
\* What the proofs use of the constants: a thread is never NoThread, a child's
\* number is one, and no exit code is NoStatus.
ProcsConstants ==
  /\ Procs!NoThread \notin Threads
  /\ MaxChildren \in Nat \ {0}
  /\ ExitCodes \subseteq 0..255
  /\ Signals \subseteq Nat
  /\ Stdio \subseteq SUBSET Procs!Streams

-----------------------------------------------------------------------------
\* The parts of the inductive invariant.

\* What the arguments below need of TypeOK.
CallType == [at : Procs!Places, on : Procs!Children \X (Procs!Streams \cup {"process"}), sig : Nat, late : BOOLEAN]
ProcsTyped ==
  /\ procs \in [DOMAIN procs -> Procs!Children]
  /\ pipes \in [DOMAIN pipes -> Procs!Pipes]
  /\ piped \in [Procs!Children -> SUBSET Procs!Streams]
  /\ status \in [Procs!Children -> Nat]
  /\ holder \in [Procs!Children -> Threads \cup {Procs!NoThread}]
  /\ reaped \in [Procs!Children -> BOOLEAN]
  /\ started \in Nat
  /\ os \in [Procs!Children -> {"none", "running", "ended", "reaped"}]
  /\ exit \in [Procs!Children -> Nat]
  /\ call \in [Threads -> CallType]
  /\ answers \in [Procs!Children -> SUBSET Nat]

\* Children get their numbers in order.
Unborn == \A c \in Procs!Children : c > started => os[c] = "none"

\* A call past the status's lock holds it; past the system's wait the system
\* has handed the status over; and before it stores the status it has noted so.
InWait == {"waiting", "trying", "waited", "tried", "noted"}
HoldsRight(t) ==
  /\ call[t].at \in InWait => holder[Procs!Child(t)] = t
  /\ call[t].at \in {"waited", "tried", "noted"} => os[Procs!Child(t)] = "reaped"
  /\ call[t].at = "noted" => reaped[Procs!Child(t)]

\* A signal is one kill accepts; a kill that begins after an answer was given
\* finds the process noted as waited for.
KillsRight(t) ==
  /\ call[t].at \in {"kill", "signal"} => call[t].sig \in 1..64
  /\ call[t].at = "kill" /\ call[t].late => reaped[Procs!Child(t)]
  /\ call[t].at = "signal" => ~call[t].late

\* The status kept, and each answer, is the one the child ended with, and was
\* given after the process was noted.
KeptRight(c) ==
  /\ os[c] \in {"ended", "reaped"} => exit[c] # Procs!NoStatus
  /\ status[c] # Procs!NoStatus => status[c] = exit[c] /\ os[c] = "reaped" /\ reaped[c]
  /\ answers[c] # {} => os[c] = "reaped" /\ reaped[c]
  /\ answers[c] \subseteq {exit[c]}

ProcsInv ==
  /\ ProcsTyped
  /\ Unborn
  /\ \A t \in Threads : HoldsRight(t) /\ KillsRight(t)
  /\ \A c \in Procs!Children : KeptRight(c)

-----------------------------------------------------------------------------
\* What a thread's place in a call is after each way a step can move it.
LEMMA GoesTo ==
  ASSUME ProcsTyped, NEW t \in Threads, NEW place \in Procs!Places, Procs!Goto(t, place)
  PROVE  /\ call' \in [Threads -> CallType]
         /\ call'[t] = [call[t] EXCEPT !.at = place]
         /\ call'[t].at = place /\ call'[t].on = call[t].on
         /\ call'[t].sig = call[t].sig /\ call'[t].late = call[t].late
         /\ \A u \in Threads : u # t => call'[u] = call[u]
BY DEF ProcsTyped, Procs!Goto, CallType

LEMMA Returns ==
  ASSUME ProcsConstants, ProcsTyped, NEW t \in Threads, Procs!Return(t)
  PROVE  /\ call' \in [Threads -> CallType]
         /\ call'[t] = Procs!Idle /\ call'[t].at = "idle"
         /\ \A u \in Threads : u # t => call'[u] = call[u]
<1>1. 1 \in Procs!Children
  BY DEF Procs!Children, ProcsConstants
<1>2. Procs!Idle \in CallType /\ Procs!Idle.at = "idle"
  BY <1>1 DEF Procs!Idle, CallType, Procs!Places
<1> QED BY <1>2 DEF ProcsTyped, Procs!Return

-----------------------------------------------------------------------------
\* Each step keeps the invariant.

\* A status that is there is the answer; else the status is held, by one call.
LEMMA TakeStatusStep ==
  ASSUME ProcsConstants, ProcsInv, NEW t \in Threads, Procs!TakeStatus(t)
  PROVE  ProcsInv'
<1> DEFINE c == Procs!Child(t)
<1> USE DEF ProcsConstants
<1>a. c \in Procs!Children /\ ProcsTyped
  BY DEF ProcsInv, ProcsTyped, CallType, Procs!Child
<1>b. /\ call' \in [Threads -> CallType]
      /\ call'[t].at \in InWait => holder'[c] = t /\ call'[t].at \in {"waiting", "trying"} /\ call'[t].on = call[t].on
      /\ call'[t].at \in {"idle", "waiting", "trying"}
      /\ \A u \in Threads : u # t => call'[u] = call[u]
  <2>1. CASE Procs!Return(t)
    BY <1>a, <2>1, Returns DEF InWait
  <2>2. CASE Procs!Goto(t, IF Procs!At(t, "wait") THEN "waiting" ELSE "trying") /\ holder' = [holder EXCEPT ![c] = t]
    BY <1>a, <2>2, GoesTo DEF ProcsTyped, InWait, Procs!Places
  <2> QED BY <2>1, <2>2 DEF Procs!TakeStatus
<1>1. ProcsTyped'
  BY <1>a, <1>b DEF Procs!TakeStatus, ProcsTyped, Procs!Answer, Procs!Release, Procs!table,
      Procs!shared, Procs!system
<1>2. Unborn'
  BY DEF ProcsInv, Unborn, Procs!TakeStatus, Procs!system
<1>3. \A u \in Threads : HoldsRight(u)'
  <2>1. \A u \in Threads : u # t /\ call[u].at \in InWait => Procs!Child(u) # c
    BY DEF ProcsInv, HoldsRight, Procs!TakeStatus
  <2>2. \A d \in Procs!Children : d # c => holder'[d] = holder[d]
    BY <1>a DEF ProcsTyped, Procs!TakeStatus, Procs!Release
  <2> QED BY <1>a, <1>b, <2>1, <2>2 DEF ProcsInv, ProcsTyped, CallType, HoldsRight, InWait,
      Procs!TakeStatus, Procs!Child,
      Procs!shared, Procs!system
<1>4. \A u \in Threads : KillsRight(u)'
  BY <1>a, <1>b DEF ProcsInv, KillsRight, Procs!TakeStatus, Procs!Child, Procs!shared
<1>5. \A k \in Procs!Children : KeptRight(k)'
  BY <1>a, <1>b DEF ProcsInv, ProcsTyped, KeptRight, Procs!TakeStatus, Procs!Answer, Procs!shared,
      Procs!system
<1> QED BY <1>1, <1>2, <1>3, <1>4, <1>5 DEF ProcsInv

\* The system hands over the status of a process that has ended.
LEMMA ReapStep ==
  ASSUME ProcsConstants, ProcsInv, NEW t \in Threads, Procs!Reap(t)
  PROVE  ProcsInv'
<1> DEFINE c == Procs!Child(t)
<1> USE DEF ProcsConstants
<1>a. c \in Procs!Children /\ ProcsTyped
  BY DEF ProcsInv, ProcsTyped, CallType, Procs!Child
<1>b. /\ call' \in [Threads -> CallType]
      /\ call'[t].at \in {"waited", "tried"} /\ call'[t].on = call[t].on
      /\ \A u \in Threads : u # t => call'[u] = call[u]
  BY <1>a, GoesTo DEF Procs!Reap, Procs!Places
<1>1. ProcsTyped'
  BY <1>a, <1>b DEF Procs!Reap, ProcsTyped, Procs!table, Procs!shared
<1>2. Unborn'
  BY DEF ProcsInv, ProcsTyped, Unborn, Procs!Reap, Procs!Child
<1>3. \A u \in Threads : HoldsRight(u)'
  BY <1>a, <1>b DEF ProcsInv, ProcsTyped, HoldsRight, InWait, Procs!Reap, Procs!At, Procs!Child,
      Procs!shared
<1>4. \A u \in Threads : KillsRight(u)'
  BY <1>a, <1>b DEF ProcsInv, KillsRight, Procs!Reap, Procs!Child, Procs!shared
<1>5. \A k \in Procs!Children : KeptRight(k)'
  BY <1>a DEF ProcsInv, ProcsTyped, KeptRight, Procs!Reap, Procs!shared
<1> QED BY <1>1, <1>2, <1>3, <1>4, <1>5 DEF ProcsInv

\* It is noted as waited for.
LEMMA StoreReapedStep ==
  ASSUME ProcsConstants, ProcsInv, NEW t \in Threads, Procs!StoreReaped(t)
  PROVE  ProcsInv'
<1> DEFINE c == Procs!Child(t)
<1> USE DEF ProcsConstants
<1>a. c \in Procs!Children /\ ProcsTyped
  BY DEF ProcsInv, ProcsTyped, CallType, Procs!Child
<1>b. /\ call' \in [Threads -> CallType]
      /\ call'[t].at = "noted" /\ call'[t].on = call[t].on
      /\ \A u \in Threads : u # t => call'[u] = call[u]
  BY <1>a, GoesTo DEF Procs!StoreReaped, Procs!Places
<1>c. reaped' = [reaped EXCEPT ![c] = TRUE]
  BY DEF Procs!StoreReaped, Procs!NoteReaped, Procs!NoteTried
<1>1. ProcsTyped'
  BY <1>a, <1>b, <1>c DEF ProcsTyped, Procs!StoreReaped, Procs!table, Procs!system
<1>2. Unborn'
  BY DEF ProcsInv, Unborn, Procs!StoreReaped, Procs!system
<1>3. \A u \in Threads : HoldsRight(u)'
  BY <1>a, <1>b, <1>c DEF ProcsInv, ProcsTyped, HoldsRight, InWait, Procs!Child, Procs!StoreReaped,
      Procs!At, Procs!system
<1>4. \A u \in Threads : KillsRight(u)'
  BY <1>a, <1>b, <1>c DEF ProcsInv, ProcsTyped, KillsRight, Procs!Child
<1>5. \A k \in Procs!Children : KeptRight(k)'
  BY <1>a, <1>c DEF ProcsInv, ProcsTyped, KeptRight, Procs!StoreReaped, Procs!system
<1> QED BY <1>1, <1>2, <1>3, <1>4, <1>5 DEF ProcsInv

\* The status is stored, answered, and let go of.
LEMMA StoreStatusStep ==
  ASSUME ProcsConstants, ProcsInv, NEW t \in Threads, Procs!StoreStatus(t)
  PROVE  ProcsInv'
<1> DEFINE c == Procs!Child(t)
<1> USE DEF ProcsConstants
<1>a. c \in Procs!Children /\ ProcsTyped
  BY DEF ProcsInv, ProcsTyped, CallType, Procs!Child
<1>b. /\ call' \in [Threads -> CallType]
      /\ call'[t].at = "idle"
      /\ \A u \in Threads : u # t => call'[u] = call[u]
  BY <1>a, Returns DEF Procs!StoreStatus
<1>1. ProcsTyped'
  BY <1>a, <1>b DEF ProcsTyped, Procs!StoreStatus, Procs!Answer, Procs!table, Procs!system
<1>2. Unborn'
  BY DEF ProcsInv, Unborn, Procs!StoreStatus, Procs!system
<1>3. \A u \in Threads : HoldsRight(u)'
  BY <1>a, <1>b DEF ProcsInv, ProcsTyped, HoldsRight, InWait, Procs!Child, Procs!StoreStatus, Procs!At,
      Procs!system
<1>4. \A u \in Threads : KillsRight(u)'
  BY <1>a, <1>b DEF ProcsInv, KillsRight, Procs!Child, Procs!StoreStatus
<1>5. \A k \in Procs!Children : KeptRight(k)'
  BY <1>a DEF ProcsInv, ProcsTyped, HoldsRight, KeptRight, Procs!StoreStatus, Procs!At, Procs!Answer,
      Procs!system
<1> QED BY <1>1, <1>2, <1>3, <1>4, <1>5 DEF ProcsInv

\* try_wait lets go of the status of a process that runs.
LEMMA StillRunningStep ==
  ASSUME ProcsConstants, ProcsInv, NEW t \in Threads, Procs!StillRunning(t)
  PROVE  ProcsInv'
<1> DEFINE c == Procs!Child(t)
<1> USE DEF ProcsConstants
<1>a. c \in Procs!Children /\ ProcsTyped
  BY DEF ProcsInv, ProcsTyped, CallType, Procs!Child
<1>b. /\ call' \in [Threads -> CallType]
      /\ call'[t].at = "idle"
      /\ \A u \in Threads : u # t => call'[u] = call[u]
  BY <1>a, Returns DEF Procs!StillRunning
<1>1. ProcsTyped'
  BY <1>a, <1>b DEF ProcsTyped, Procs!StillRunning, Procs!table, Procs!system
<1>2. Unborn'
  BY DEF ProcsInv, Unborn, Procs!StillRunning, Procs!system
<1>3. \A u \in Threads : HoldsRight(u)'
  BY <1>a, <1>b DEF ProcsInv, ProcsTyped, HoldsRight, InWait, Procs!Child, Procs!StillRunning,
      Procs!At, Procs!system
<1>4. \A u \in Threads : KillsRight(u)'
  BY <1>a, <1>b DEF ProcsInv, KillsRight, Procs!Child, Procs!StillRunning
<1>5. \A k \in Procs!Children : KeptRight(k)'
  BY <1>a DEF ProcsInv, KeptRight, Procs!StillRunning, Procs!system
<1> QED BY <1>1, <1>2, <1>3, <1>4, <1>5 DEF ProcsInv

\* A kill notes whether an answer was given before it.
LEMMA CallKillStep ==
  ASSUME ProcsConstants, ProcsInv, NEW t \in Threads, Procs!CallKill(t)
  PROVE  ProcsInv'
<1> USE DEF ProcsConstants
<1>a. ProcsTyped
  BY DEF ProcsInv
<1>b. PICK h \in DOMAIN procs, s \in 1..64, isLate \in BOOLEAN :
        /\ isLate <=> answers[procs[h]] # {}
        /\ call' \in [Threads -> CallType]
        /\ call'[t] = [at |-> "kill", on |-> Procs!Process(procs[h]), sig |-> s, late |-> isLate]
        /\ \A u \in Threads : u # t => call'[u] = call[u]
  <2>1. PICK h \in DOMAIN procs, s \in Signals :
          s \in 1..64 /\ Procs!Enter(t, "kill", Procs!Process(procs[h]), s, answers[procs[h]] # {})
    BY DEF Procs!CallKill
  <2>2. Procs!Process(procs[h]) \in Procs!Children \X (Procs!Streams \cup {"process"})
    BY <1>a DEF ProcsTyped, Procs!Process
  <2>3. PICK isLate \in BOOLEAN : isLate = (answers[procs[h]] # {})
    OBVIOUS
  <2>4. call' = [call EXCEPT ![t] = [at |-> "kill", on |-> Procs!Process(procs[h]), sig |-> s, late |-> isLate]]
    BY <2>1, <2>3, Zenon DEF Procs!Enter
  <2>5. "kill" \in Procs!Places /\ s \in Nat
    BY <2>1 DEF Procs!Places
  <2>6. /\ call' \in [Threads -> CallType]
        /\ call'[t] = [at |-> "kill", on |-> Procs!Process(procs[h]), sig |-> s, late |-> isLate]
        /\ \A u \in Threads : u # t => call'[u] = call[u]
    BY <1>a, <2>2, <2>4, <2>5 DEF ProcsTyped, CallType
  <2> QED BY <2>1, <2>3, <2>6, Zenon
<1>1. ProcsTyped'
  BY <1>a, <1>b DEF ProcsTyped, Procs!CallKill, Procs!table, Procs!shared, Procs!system
<1>2. Unborn'
  BY DEF ProcsInv, Unborn, Procs!CallKill, Procs!system
<1>3. \A u \in Threads : HoldsRight(u)'
  BY <1>b DEF ProcsInv, HoldsRight, InWait, Procs!Child, Procs!CallKill, Procs!shared, Procs!system
<1>4. \A u \in Threads : KillsRight(u)'
  BY <1>b DEF ProcsInv, ProcsTyped, KillsRight, KeptRight, Procs!Child, Procs!Process, Procs!CallKill,
      Procs!shared
<1>5. \A k \in Procs!Children : KeptRight(k)'
  BY DEF ProcsInv, KeptRight, Procs!CallKill, Procs!shared, Procs!system
<1> QED BY <1>1, <1>2, <1>3, <1>4, <1>5 DEF ProcsInv

\* It goes on only if the process is not noted as waited for.
LEMMA TestKillStep ==
  ASSUME ProcsConstants, ProcsInv, NEW t \in Threads, Procs!TestKill(t)
  PROVE  ProcsInv'
<1> DEFINE c == Procs!Child(t)
<1> USE DEF ProcsConstants
<1>a. c \in Procs!Children /\ ProcsTyped
  BY DEF ProcsInv, ProcsTyped, CallType, Procs!Child
<1>b. /\ call' \in [Threads -> CallType]
      /\ call'[t].at = IF reaped[c] THEN "idle" ELSE "signal"
      /\ call'[t].on = call[t].on /\ call'[t].sig = call[t].sig /\ call'[t].late = call[t].late
      /\ \A u \in Threads : u # t => call'[u] = call[u]
  BY <1>a, GoesTo DEF Procs!TestKill, Procs!CheckReaped, Procs!Places
<1>1. ProcsTyped'
  BY <1>a, <1>b DEF ProcsTyped, Procs!TestKill, Procs!table, Procs!shared, Procs!system
<1>2. Unborn'
  BY DEF ProcsInv, Unborn, Procs!TestKill, Procs!system
<1>3. \A u \in Threads : HoldsRight(u)'
  BY <1>b DEF ProcsInv, HoldsRight, InWait, Procs!Child, Procs!TestKill, Procs!shared, Procs!system
<1>4. \A u \in Threads : KillsRight(u)'
  BY <1>b DEF ProcsInv, KillsRight, Procs!Child, Procs!TestKill, Procs!At, Procs!shared
<1>5. \A k \in Procs!Children : KeptRight(k)'
  BY DEF ProcsInv, KeptRight, Procs!TestKill, Procs!shared, Procs!system
<1> QED BY <1>1, <1>2, <1>3, <1>4, <1>5 DEF ProcsInv

\* Only a process that runs is ended by a signal.
LEMMA SendSignalStep ==
  ASSUME ProcsConstants, ProcsInv, NEW t \in Threads, Procs!SendSignal(t)
  PROVE  ProcsInv'
<1> DEFINE c == Procs!Child(t)
<1> USE DEF ProcsConstants
<1>a. c \in Procs!Children /\ ProcsTyped
  BY DEF ProcsInv, ProcsTyped, CallType, Procs!Child
<1>b. /\ call' \in [Threads -> CallType]
      /\ call'[t].at = "idle"
      /\ \A u \in Threads : u # t => call'[u] = call[u]
  BY <1>a, Returns DEF Procs!SendSignal
<1>c. /\ os' \in [Procs!Children -> {"none", "running", "ended", "reaped"}] /\ exit' \in [Procs!Children -> Nat]
      /\ \A d \in Procs!Children : \/ os'[d] = os[d] /\ exit'[d] = exit[d]
                                   \/ os[d] = "running" /\ os'[d] = "ended" /\ exit'[d] # Procs!NoStatus
  <2>1. Procs!Signalled(call[t].sig) \in Nat /\ Procs!Signalled(call[t].sig) # Procs!NoStatus
    BY DEF ProcsInv, KillsRight, Procs!SendSignal, Procs!At, Procs!Signalled, Procs!NoStatus
  <2> QED BY <1>a, <2>1 DEF ProcsTyped, Procs!SendSignal
<1>1. ProcsTyped'
  BY <1>a, <1>b, <1>c DEF ProcsTyped, Procs!SendSignal, Procs!table, Procs!shared
<1>2. Unborn'
  BY <1>c DEF ProcsInv, Unborn, Procs!SendSignal
<1>3. \A u \in Threads : HoldsRight(u)'
  BY <1>a, <1>b, <1>c DEF ProcsInv, ProcsTyped, CallType, HoldsRight, InWait, Procs!Child,
      Procs!SendSignal, Procs!shared
<1>4. \A u \in Threads : KillsRight(u)'
  BY <1>b DEF ProcsInv, KillsRight, Procs!Child, Procs!SendSignal, Procs!shared
<1>5. \A k \in Procs!Children : KeptRight(k)'
  BY <1>a, <1>c DEF ProcsInv, ProcsTyped, KeptRight, Procs!SendSignal, Procs!shared
<1> QED BY <1>1, <1>2, <1>3, <1>4, <1>5 DEF ProcsInv

\* A new child is one nothing was ever said of.
LEMMA SpawnStep ==
  ASSUME ProcsConstants, ProcsInv, NEW t \in Threads, Procs!Spawn(t)
  PROVE  ProcsInv'
<1> USE DEF ProcsConstants
<1>a. ProcsTyped
  BY DEF ProcsInv
<1> DEFINE c == started + 1
<1>d. /\ c \in Procs!Children /\ os[c] = "none" /\ started' = c
      /\ os' = [os EXCEPT ![c] = "running"]
      /\ UNCHANGED <<exit, answers>>
      /\ piped' \in [Procs!Children -> SUBSET Procs!Streams]
  BY <1>a DEF ProcsInv, ProcsTyped, Unborn, Procs!Spawn, Procs!Children
<1>b. /\ call' \in [Threads -> CallType]
      /\ call'[t].at = "spawned"
      /\ \A u \in Threads : u # t => call'[u] = call[u]
  <2>1. Procs!Enter(t, "spawned", Procs!Process(c), 0, FALSE)
    BY DEF Procs!Spawn
  <2>2. "spawned" \in Procs!Places /\ Procs!Process(c) \in Procs!Children \X (Procs!Streams \cup {"process"}) /\ 0 \in Nat
    BY <1>d DEF Procs!Places, Procs!Process
  <2> QED BY <1>a, <2>1, <2>2 DEF Procs!Enter, ProcsTyped, CallType
<1>1. ProcsTyped'
  BY <1>a, <1>b, <1>d DEF ProcsTyped, Procs!Spawn, Procs!table, Procs!shared
<1>2. Unborn'
  <2>1. \A d \in Procs!Children : d > c => os'[d] = os[d] /\ d > started
    BY <1>a, <1>d DEF ProcsTyped, Procs!Children
  <2> QED BY <1>d, <2>1 DEF ProcsInv, Unborn
<1>3. \A u \in Threads : HoldsRight(u)'
  BY <1>b, <1>d DEF ProcsInv, HoldsRight, InWait, Procs!Child, Procs!Process, Procs!Spawn, Procs!shared
<1>4. \A u \in Threads : KillsRight(u)'
  BY <1>b DEF ProcsInv, KillsRight, Procs!Child, Procs!Spawn, Procs!shared
<1>5. \A k \in Procs!Children : KeptRight(k)'
  BY <1>a, <1>d DEF ProcsInv, ProcsTyped, KeptRight, Procs!Spawn, Procs!shared
<1> QED BY <1>1, <1>2, <1>3, <1>4, <1>5 DEF ProcsInv

\* The table gets the child and its pipes.
LEMMA InsertStep ==
  ASSUME ProcsConstants, ProcsInv, NEW t \in Threads, Procs!Insert(t)
  PROVE  ProcsInv'
<1> DEFINE c == Procs!Child(t)
<1> USE DEF ProcsConstants
<1>a. c \in Procs!Children /\ ProcsTyped
  BY DEF ProcsInv, ProcsTyped, CallType, Procs!Child
<1>b. /\ call' \in [Threads -> CallType]
      /\ call'[t].at = "idle"
      /\ \A u \in Threads : u # t => call'[u] = call[u]
  BY <1>a, Returns DEF Procs!Insert
<1>1. ProcsTyped'
  <2>1. procs' \in [DOMAIN procs' -> Procs!Children]
    BY <1>a DEF ProcsTyped, Procs!Insert
  <2>2. pipes' \in [DOMAIN pipes' -> Procs!Pipes]
    <3>1. ASSUME NEW h \in Procs!Range(Procs!Numbered(c))
          PROVE  <<c, CHOOSE k \in piped[c] : Procs!Numbered(c)[k] = h>> \in Procs!Pipes
      <4>1. \E k \in piped[c] : Procs!Numbered(c)[k] = h
        BY DEF Procs!Range, Procs!Numbered
      <4> QED BY <1>a, <4>1 DEF ProcsTyped, Procs!Pipes
    <3> QED BY <1>a, <3>1 DEF ProcsTyped, Procs!Insert
  <2> QED BY <1>a, <1>b, <2>1, <2>2 DEF ProcsTyped, Procs!Insert, Procs!shared
<1>2. Unborn'
  BY DEF ProcsInv, Unborn, Procs!Insert
<1>3. \A u \in Threads : HoldsRight(u)'
  BY <1>b DEF ProcsInv, HoldsRight, InWait, Procs!Child, Procs!Insert, Procs!shared
<1>4. \A u \in Threads : KillsRight(u)'
  BY <1>b DEF ProcsInv, KillsRight, Procs!Child, Procs!Insert, Procs!shared
<1>5. \A k \in Procs!Children : KeptRight(k)'
  BY DEF ProcsInv, KeptRight, Procs!Insert, Procs!shared
<1> QED BY <1>1, <1>2, <1>3, <1>4, <1>5 DEF ProcsInv

\* A step that leaves the statuses and the processes alone, and moves one
\* thread to a place outside the status's lock and kill, or none.
Elsewhere(t) ==
  /\ UNCHANGED <<status, holder, reaped, os, exit, answers, started, piped>>
  /\ procs' \in [DOMAIN procs' -> Procs!Children] /\ pipes' \in [DOMAIN pipes' -> Procs!Pipes]
  /\ call' \in [Threads -> CallType]
  /\ call'[t].at \notin InWait \cup {"kill", "signal"}
  /\ \A u \in Threads : u # t => call'[u] = call[u]

LEMMA ElsewhereKeeps ==
  ASSUME ProcsInv, NEW t \in Threads, Elsewhere(t)
  PROVE  ProcsInv'
<1>1. ProcsTyped'
  BY DEF ProcsInv, ProcsTyped, Elsewhere
<1>2. Unborn'
  BY DEF ProcsInv, Unborn, Elsewhere
<1>3. \A u \in Threads : HoldsRight(u)' /\ KillsRight(u)'
  BY DEF ProcsInv, HoldsRight, InWait, KillsRight, Procs!Child, Elsewhere
<1>4. \A k \in Procs!Children : KeptRight(k)'
  BY DEF ProcsInv, KeptRight, Elsewhere
<1> QED BY <1>1, <1>2, <1>3, <1>4 DEF ProcsInv

LEMMA OtherSteps ==
  ASSUME ProcsConstants, ProcsInv, NEW t \in Threads,
         Procs!CallWait(t) \/ Procs!TryRefused(t) \/ Procs!CallPipe(t) \/ Procs!Read(t) \/ Procs!Write(t) \/ Procs!Poll(t) \/ Procs!Close(t)
  PROVE  Elsewhere(t)
<1> USE DEF ProcsConstants
<1>a. ProcsTyped
  BY DEF ProcsInv
<1>1. ASSUME Procs!Return(t), UNCHANGED <<Procs!table, Procs!shared, started, os, exit, piped, answers>>
      PROVE  Elsewhere(t)
  BY <1>a, <1>1, Returns DEF Elsewhere, InWait, ProcsTyped, Procs!table, Procs!shared
<1>2. CASE Procs!CallWait(t)
  <2>1. PICK h \in DOMAIN procs, how \in {"wait", "try"} : Procs!Enter(t, how, Procs!Process(procs[h]), 0, FALSE)
    BY <1>2 DEF Procs!CallWait
  <2>2. Procs!Process(procs[h]) \in Procs!Children \X (Procs!Streams \cup {"process"}) /\ how \in Procs!Places
    BY <1>a DEF ProcsTyped, Procs!Process, Procs!Places
  <2>3. /\ call' \in [Threads -> CallType]
        /\ call'[t].at \notin InWait \cup {"kill", "signal"}
        /\ \A u \in Threads : u # t => call'[u] = call[u]
    BY <1>a, <2>1, <2>2 DEF Procs!Enter, ProcsTyped, CallType, InWait
  <2> QED BY <1>2, <1>a, <2>3 DEF Procs!CallWait, Elsewhere, ProcsTyped, Procs!table, Procs!shared,
      Procs!system
<1>3. CASE Procs!TryRefused(t)
  BY <1>1, <1>3 DEF Procs!TryRefused, Procs!system
<1>4. CASE Procs!CallPipe(t)
  <2>1. PICK h \in DOMAIN pipes, place \in {"reading", "writing", "polling"} : Procs!Enter(t, place, pipes[h], 0, FALSE)
    BY <1>4 DEF Procs!CallPipe
  <2>2. pipes[h] \in Procs!Children \X (Procs!Streams \cup {"process"}) /\ place \in Procs!Places
    BY <1>a DEF ProcsTyped, Procs!Pipes, Procs!Places
  <2>3. /\ call' \in [Threads -> CallType]
        /\ call'[t].at \notin InWait \cup {"kill", "signal"}
        /\ \A u \in Threads : u # t => call'[u] = call[u]
    BY <1>a, <2>1, <2>2 DEF Procs!Enter, ProcsTyped, CallType, InWait
  <2> QED BY <1>4, <1>a, <2>3 DEF Procs!CallPipe, Elsewhere, ProcsTyped, Procs!table, Procs!shared,
      Procs!system
<1>5. CASE Procs!Read(t) \/ Procs!Write(t) \/ Procs!Poll(t)
  BY <1>1, <1>5 DEF Procs!Read, Procs!Write, Procs!Poll, Procs!system
<1>6. CASE Procs!Close(t)
  BY <1>a, <1>6 DEF Procs!Close, Procs!At, Procs!Without, Elsewhere, InWait, ProcsTyped, Procs!shared,
      Procs!system, Procs!calls
<1> QED BY <1>2, <1>3, <1>4, <1>5, <1>6

\* The program is replaced, or the system does something: a child that runs
\* ends, with a status of its own or killed by a write nobody reads.
LEMMA SystemSteps ==
  ASSUME ProcsConstants, ProcsInv,
         \/ \E t \in Threads : Procs!Exec(t)
         \/ \E c \in Procs!Children : Procs!Exit(c) \/ Procs!ChildWrites(c) \/ Procs!ChildReads(c)
         \/ UNCHANGED Procs!vars
  PROVE  ProcsInv'
<1> USE DEF ProcsConstants
<1>1. CASE UNCHANGED <<Procs!table, Procs!shared, started, os, pid, exit, piped, call, answers>>
  <2>1. ProcsTyped' /\ Unborn'
    BY <1>1 DEF ProcsInv, ProcsTyped, Unborn, Procs!table, Procs!shared
  <2>2. \A t \in Threads : HoldsRight(t)' /\ KillsRight(t)'
    BY <1>1 DEF ProcsInv, HoldsRight, KillsRight, Procs!Child, Procs!shared
  <2>3. \A c \in Procs!Children : KeptRight(c)'
    BY <1>1 DEF ProcsInv, KeptRight, Procs!shared
  <2> QED BY <2>1, <2>2, <2>3 DEF ProcsInv
<1>2. ASSUME NEW c \in Procs!Children, Procs!Exit(c)
      PROVE  ProcsInv'
  <2>1. /\ os[c] = "running" /\ os' = [os EXCEPT ![c] = "ended"]
        /\ exit' \in [Procs!Children -> Nat] /\ exit'[c] # Procs!NoStatus
        /\ \A d \in Procs!Children \ {c} : exit'[d] = exit[d]
    <3>1. 269 = Procs!Signalled(13)
      BY DEF Procs!Signalled
    <3>2. PICK s \in ExitCodes \cup {269} : exit' = [exit EXCEPT ![c] = s]
      BY <1>2, <3>1, Zenon DEF Procs!Exit
    <3>3. s \in 0..269
      BY <3>2
    <3> QED BY <1>2, <3>2, <3>3 DEF ProcsInv, ProcsTyped, Procs!Exit, Procs!NoStatus
  <2>2. ProcsTyped' /\ Unborn'
    BY <1>2, <2>1 DEF ProcsInv, ProcsTyped, Unborn, Procs!Exit, Procs!table, Procs!shared, Procs!calls
  <2>3. \A t \in Threads : HoldsRight(t)' /\ KillsRight(t)'
    BY <1>2, <2>1 DEF ProcsInv, ProcsTyped, HoldsRight, KillsRight, Procs!Child, Procs!Exit,
        Procs!shared, Procs!calls
  <2>4. \A d \in Procs!Children : KeptRight(d)'
    BY <1>2, <2>1 DEF ProcsInv, ProcsTyped, KeptRight, Procs!Exit, Procs!shared
  <2> QED BY <2>2, <2>3, <2>4 DEF ProcsInv
<1> QED BY <1>1, <1>2 DEF Procs!Exec, Procs!ChildWrites, Procs!ChildReads, Procs!vars, Procs!system,
    Procs!calls

LEMMA ProcsStart ==
  ASSUME ProcsConstants, Procs!Init \/ Procs!Absent
  PROVE  ProcsInv
<1> USE DEF ProcsConstants
<1>1. PICK state : Procs!Start(state)
  BY DEF Procs!Init, Procs!Absent
<1>2. Procs!Idle \in CallType /\ Procs!Idle.at = "idle"
  BY DEF Procs!Idle, CallType, Procs!Places, Procs!Children
<1>3. ProcsTyped
  BY <1>1, <1>2 DEF Procs!Start, ProcsTyped, Procs!Empty, Procs!NoStatus
<1>4. Unborn /\ \A c \in Procs!Children : KeptRight(c)
  BY <1>1 DEF Procs!Start, Unborn, KeptRight
<1>5. \A t \in Threads : HoldsRight(t) /\ KillsRight(t)
  BY <1>1, <1>2 DEF Procs!Start, HoldsRight, KillsRight, InWait
<1> QED BY <1>3, <1>4, <1>5 DEF ProcsInv

LEMMA ProcsSteps ==
  ASSUME ProcsConstants, ProcsInv, [Procs!Next]_(Procs!vars)
  PROVE  ProcsInv'
<1>1. ASSUME NEW t \in Threads, Procs!Call(t) \/ Procs!TakeStatus(t) \/ Procs!Step(t)
      PROVE  ProcsInv'
  BY <1>1, SpawnStep, CallKillStep, TakeStatusStep, InsertStep, ReapStep, StillRunningStep, StoreReapedStep,
     StoreStatusStep, TestKillStep, SendSignalStep, OtherSteps, ElsewhereKeeps, SystemSteps DEF Procs!Call, Procs!Step
<1> QED BY <1>1, SystemSteps DEF Procs!Next

-----------------------------------------------------------------------------
\* What it gives: the invariant of any behaviour of the table, and the two
\* promises it makes (AnswersAgree, LateKillSendsNothing).
LEMMA ProcsPromises ==
  ASSUME ProcsInv
  PROVE  Procs!AnswersAgree /\ Procs!LateKillSendsNothing
<1>1. Procs!AnswersAgree
  BY DEF ProcsInv, KeptRight, Procs!AnswersAgree
<1>2. Procs!LateKillSendsNothing
  BY DEF ProcsInv, KillsRight, Procs!LateKillSendsNothing
<1> QED BY <1>1, <1>2

\* Whatever the threads and the system do, every wait and try_wait gives the
\* status the program ended with, and no kill that begins after one sends a signal.
THEOREM OneStatusNoLateSignal ==
  ASSUME ProcsConstants
  PROVE  Procs!Spec => [](Procs!AnswersAgree /\ Procs!LateKillSendsNothing)
<1>1. Procs!Init => ProcsInv
  BY ProcsStart
<1>2. ProcsInv /\ [Procs!Next]_(Procs!vars) => ProcsInv'
  BY ProcsSteps
<1>3. ProcsInv => Procs!AnswersAgree /\ Procs!LateKillSendsNothing
  BY ProcsPromises
<1> QED BY <1>1, <1>2, <1>3, PTL DEF Procs!Spec

-----------------------------------------------------------------------------
(***************************************************************************)
(* aipl-net's relay.                                                       *)
(***************************************************************************)
RelayTyped ==
  /\ prog \in {"absent", "status", "idle", "receiving", "closing", "closed", "gone"}
  /\ relay \in {"connecting", "drain", "recv", "give", "input", "send", "ended"}
  /\ farHost \in {"open", "closed"} /\ refused \in BOOLEAN /\ lost \in BOOLEAN
  /\ wrote \in Nat /\ down \in Nat /\ taking \in Nat /\ up \in Nat /\ heard \in Nat
  /\ answered \in Nat /\ back \in Nat /\ giving \in Nat /\ out \in Nat
  /\ dropped \in Nat

\* Until it has connected nothing has moved, and only then is the program absent.
NothingMoved ==
  /\ relay = "connecting" =>
       /\ prog \in {"absent", "status"} /\ farHost = "open" /\ ~lost
       /\ wrote = 0 /\ down = 0 /\ taking = 0 /\ up = 0 /\ heard = 0
       /\ answered = 0 /\ back = 0 /\ giving = 0 /\ out = 0 /\ dropped = 0
  /\ prog = "absent" => relay = "connecting"

\* The relay's buffer holds bytes only where it hands them on; one that ends with
\* bytes for the host in it has lost them.
OneBuffer ==
  /\ relay \notin {"send", "ended"} \/ (relay = "ended" /\ ~lost) => taking = 0
  /\ relay # "give" => giving = 0

\* Bytes are lost only to a host that has closed; close waits for the relay to end.
Ends == /\ lost => farHost = "closed"
        /\ prog = "closed" => relay = "ended"

RelayInv == RelayTyped /\ NothingMoved /\ OneBuffer /\ Ends /\ BytesKept

LEMMA RelayStarts ==
  ASSUME Relay!Init \/ Relay!Absent
  PROVE  RelayInv
<1>1. PICK p \in {"status", "absent"} : Relay!Start(p)
  BY DEF Relay!Init, Relay!Absent
<1>2. RelayTyped /\ NothingMoved /\ OneBuffer /\ Ends
  BY <1>1 DEF Relay!Start, RelayTyped, NothingMoved, OneBuffer, Ends
<1>3. BytesKept
  BY <1>1 DEF Relay!Start, BytesKept, Relay!SentOnce, Relay!AnswersKept, Relay!Ended, Relay!Waiting
<1> QED BY <1>2, <1>3 DEF RelayInv

LEMMA RelayConnect ==
  ASSUME RelayInv, Relay!Connect
  PROVE  RelayInv'
<1> USE HostAssumption DEF RelayInv, Relay!Connect, Relay!Running, Relay!sending, Relay!answering
<1>1. RelayTyped' /\ NothingMoved'
  BY DEF RelayTyped, NothingMoved
<1>2. OneBuffer' /\ Ends'
  BY DEF RelayTyped, NothingMoved, OneBuffer, Ends
<1>3. Relay!SentOnce'
  BY DEF RelayTyped, NothingMoved, OneBuffer, Ends, BytesKept, Relay!SentOnce, Relay!Ended
<1>4. Relay!AnswersKept'
  BY DEF RelayTyped, NothingMoved, OneBuffer, Ends, BytesKept, Relay!AnswersKept, Relay!Waiting
<1> QED BY <1>1, <1>2, <1>3, <1>4 DEF BytesKept

LEMMA RelayDrain ==
  ASSUME RelayInv, Relay!Drain
  PROVE  RelayInv'
<1> USE HostAssumption DEF RelayInv, Relay!Drain, Relay!Running, Relay!sending, Relay!answering
<1>1. RelayTyped' /\ NothingMoved'
  BY DEF RelayTyped, NothingMoved
<1>2. OneBuffer' /\ Ends'
  BY DEF RelayTyped, NothingMoved, OneBuffer, Ends
<1>3. Relay!SentOnce'
  BY DEF RelayTyped, NothingMoved, OneBuffer, Ends, BytesKept, Relay!SentOnce, Relay!Ended
<1>4. Relay!AnswersKept'
  BY DEF RelayTyped, NothingMoved, OneBuffer, Ends, BytesKept, Relay!AnswersKept, Relay!Waiting
<1> QED BY <1>1, <1>2, <1>3, <1>4 DEF BytesKept

LEMMA RelayRecv ==
  ASSUME RelayInv, Relay!Recv
  PROVE  RelayInv'
<1> USE HostAssumption DEF RelayInv, Relay!Recv, Relay!Running, Relay!sending, Relay!answering,
    Relay!CloseConnection, Relay!Finished
<1>1. RelayTyped' /\ NothingMoved'
  BY DEF RelayTyped, NothingMoved
<1>2. OneBuffer' /\ Ends'
  BY DEF RelayTyped, NothingMoved, OneBuffer, Ends
<1>3. Relay!SentOnce'
  BY DEF RelayTyped, NothingMoved, OneBuffer, Ends, BytesKept, Relay!SentOnce, Relay!Ended
<1>4. Relay!AnswersKept'
  BY DEF RelayTyped, NothingMoved, OneBuffer, Ends, BytesKept, Relay!AnswersKept, Relay!Waiting
<1> QED BY <1>1, <1>2, <1>3, <1>4 DEF BytesKept

LEMMA RelayGive ==
  ASSUME RelayInv, Relay!Give
  PROVE  RelayInv'
<1> USE HostAssumption DEF RelayInv, Relay!Give, Relay!Running, Relay!sending, Relay!answering,
    Relay!CloseConnection, Relay!ReadsOutput, Relay!Least
<1>1. RelayTyped' /\ NothingMoved'
  BY DEF RelayTyped, NothingMoved
<1>2. OneBuffer' /\ Ends'
  BY DEF RelayTyped, NothingMoved, OneBuffer, Ends
<1>3. Relay!SentOnce'
  BY DEF RelayTyped, NothingMoved, OneBuffer, Ends, BytesKept, Relay!SentOnce, Relay!Ended
<1>4. Relay!AnswersKept'
  BY DEF RelayTyped, NothingMoved, OneBuffer, Ends, BytesKept, Relay!AnswersKept, Relay!Waiting
<1> QED BY <1>1, <1>2, <1>3, <1>4 DEF BytesKept

LEMMA RelayInput ==
  ASSUME RelayInv, Relay!Input
  PROVE  RelayInv'
<1> USE HostAssumption DEF RelayInv, Relay!Input, Relay!Running, Relay!sending, Relay!answering,
    Relay!CloseConnection, Relay!EndOfInput, Relay!WritesInput
<1>1. RelayTyped' /\ NothingMoved'
  BY DEF RelayTyped, NothingMoved
<1>2. OneBuffer' /\ Ends'
  BY DEF RelayTyped, NothingMoved, OneBuffer, Ends
<1>3. Relay!SentOnce'
  BY DEF RelayTyped, NothingMoved, OneBuffer, Ends, BytesKept, Relay!SentOnce, Relay!Ended
<1>4. Relay!AnswersKept'
  BY DEF RelayTyped, NothingMoved, OneBuffer, Ends, BytesKept, Relay!AnswersKept, Relay!Waiting
<1> QED BY <1>1, <1>2, <1>3, <1>4 DEF BytesKept

LEMMA RelaySend ==
  ASSUME RelayInv, Relay!Send
  PROVE  RelayInv'
<1> USE HostAssumption DEF RelayInv, Relay!Send, Relay!Running, Relay!sending, Relay!answering,
    Relay!CloseConnection, Relay!Sent, Relay!Least
<1>1. RelayTyped' /\ NothingMoved'
  <2>1. CASE /\ farHost = "open"
             /\ \E k \in 1..Relay!Least(taking, WireSize - up) : up' = up + k /\ taking' = taking - k
             /\ relay' \in {"drain", "send"} /\ UNCHANGED <<lost, back, giving, dropped>>
    BY <2>1 DEF RelayTyped, NothingMoved
  <2>2. CASE /\ farHost = "closed" /\ lost' = TRUE /\ UNCHANGED up /\ taking' \in {0, taking}
             /\ \/ relay' = "drain" /\ UNCHANGED <<back, giving, dropped>>
                \/ Relay!CloseConnection
    BY <2>2 DEF RelayTyped, NothingMoved
  <2> QED BY <2>1, <2>2
<1>2. OneBuffer' /\ Ends'
  BY DEF RelayTyped, NothingMoved, OneBuffer, Ends
<1>3. Relay!SentOnce'
  BY DEF RelayTyped, NothingMoved, OneBuffer, Ends, BytesKept, Relay!SentOnce, Relay!Ended
<1>4. Relay!AnswersKept'
  BY DEF RelayTyped, NothingMoved, OneBuffer, Ends, BytesKept, Relay!AnswersKept, Relay!Waiting
<1> QED BY <1>1, <1>2, <1>3, <1>4 DEF BytesKept

\* What the program and the host do.
LEMMA RelayOthers ==
  ASSUME RelayInv,
         \/ Relay!CallStep \/ Relay!Write \/ Relay!CallRecv \/ Relay!Close \/ Relay!Leave
         \/ Relay!Hear \/ Relay!AnswerBack \/ Relay!HostCloses
  PROVE  RelayInv'
<1> USE HostAssumption DEF RelayInv, Relay!Running, Relay!Ended, Relay!sending, Relay!answering
<1>1. CASE Relay!ReadStatus
  <2>1. RelayTyped' /\ NothingMoved'
    BY <1>1 DEF Relay!ReadStatus, RelayTyped, NothingMoved
  <2>2. OneBuffer' /\ Ends'
    BY <1>1 DEF Relay!ReadStatus, RelayTyped, NothingMoved, OneBuffer, Ends
  <2>3. BytesKept'
    BY <1>1 DEF Relay!ReadStatus, RelayTyped, NothingMoved, OneBuffer, Ends, BytesKept, Relay!SentOnce,
        Relay!AnswersKept,
                 Relay!Waiting
  <2> QED BY <2>1, <2>2, <2>3
<1>2. CASE Relay!Receive
  <2>0. answered - out \in Nat /\ relay # "connecting"
    BY <1>2 DEF Relay!Receive, RelayTyped, NothingMoved, BytesKept, Relay!AnswersKept, Relay!Waiting
  <2>1. RelayTyped' /\ NothingMoved'
    BY <1>2, <2>0 DEF Relay!Receive, RelayTyped, NothingMoved
  <2>2. OneBuffer' /\ Ends'
    BY <1>2 DEF Relay!Receive, RelayTyped, NothingMoved, OneBuffer, Ends
  <2>3. BytesKept'
    BY <1>2 DEF Relay!Receive, RelayTyped, NothingMoved, OneBuffer, Ends, BytesKept, Relay!SentOnce,
        Relay!AnswersKept,
                 Relay!Waiting
  <2> QED BY <2>1, <2>2, <2>3
<1>3. CASE Relay!Closed
  <2>1. RelayTyped' /\ NothingMoved'
    BY <1>3 DEF Relay!Closed, RelayTyped, NothingMoved
  <2>2. OneBuffer' /\ Ends'
    BY <1>3 DEF Relay!Closed, RelayTyped, NothingMoved, OneBuffer, Ends
  <2>3. BytesKept'
    BY <1>3 DEF Relay!Closed, RelayTyped, NothingMoved, OneBuffer, Ends, BytesKept, Relay!SentOnce,
        Relay!AnswersKept,
                 Relay!Waiting
  <2> QED BY <2>1, <2>2, <2>3
<1>4. CASE Relay!Write
  <2>1. RelayTyped' /\ NothingMoved'
    BY <1>4 DEF Relay!Write, RelayTyped, NothingMoved
  <2>2. OneBuffer' /\ Ends'
    BY <1>4 DEF Relay!Write, RelayTyped, NothingMoved, OneBuffer, Ends
  <2>3. BytesKept'
    BY <1>4 DEF Relay!Write, RelayTyped, NothingMoved, OneBuffer, Ends, BytesKept, Relay!SentOnce,
        Relay!AnswersKept,
                 Relay!Waiting
  <2> QED BY <2>1, <2>2, <2>3
<1>5. CASE Relay!CallRecv
  <2>1. RelayTyped' /\ NothingMoved'
    BY <1>5 DEF Relay!CallRecv, RelayTyped, NothingMoved
  <2>2. OneBuffer' /\ Ends'
    BY <1>5 DEF Relay!CallRecv, RelayTyped, NothingMoved, OneBuffer, Ends
  <2>3. BytesKept'
    BY <1>5 DEF Relay!CallRecv, RelayTyped, NothingMoved, OneBuffer, Ends, BytesKept, Relay!SentOnce,
        Relay!AnswersKept,
                 Relay!Waiting
  <2> QED BY <2>1, <2>2, <2>3
<1>6. CASE Relay!Close
  <2>1. RelayTyped' /\ NothingMoved'
    BY <1>6 DEF Relay!Close, RelayTyped, NothingMoved
  <2>2. OneBuffer' /\ Ends'
    BY <1>6 DEF Relay!Close, RelayTyped, NothingMoved, OneBuffer, Ends
  <2>3. BytesKept'
    BY <1>6 DEF Relay!Close, RelayTyped, NothingMoved, OneBuffer, Ends, BytesKept, Relay!SentOnce,
        Relay!AnswersKept,
                 Relay!Waiting
  <2> QED BY <2>1, <2>2, <2>3
<1>7. CASE Relay!Leave
  <2>1. RelayTyped' /\ NothingMoved'
    BY <1>7 DEF Relay!Leave, RelayTyped, NothingMoved
  <2>2. OneBuffer' /\ Ends'
    BY <1>7 DEF Relay!Leave, RelayTyped, NothingMoved, OneBuffer, Ends
  <2>3. BytesKept'
    BY <1>7 DEF Relay!Leave, RelayTyped, NothingMoved, OneBuffer, Ends, BytesKept, Relay!SentOnce,
        Relay!AnswersKept,
                 Relay!Waiting
  <2> QED BY <2>1, <2>2, <2>3
<1>8. CASE Relay!Hear
  <2>1. RelayTyped' /\ NothingMoved'
    BY <1>8 DEF Relay!Hear, RelayTyped, NothingMoved
  <2>2. OneBuffer' /\ Ends'
    BY <1>8 DEF Relay!Hear, RelayTyped, NothingMoved, OneBuffer, Ends
  <2>3. BytesKept'
    BY <1>8 DEF Relay!Hear, RelayTyped, NothingMoved, OneBuffer, Ends, BytesKept, Relay!SentOnce,
        Relay!AnswersKept,
                 Relay!Waiting
  <2> QED BY <2>1, <2>2, <2>3
<1>9. CASE Relay!AnswerBack
  <2>1. RelayTyped' /\ NothingMoved'
    BY <1>9 DEF Relay!AnswerBack, RelayTyped, NothingMoved
  <2>2. OneBuffer' /\ Ends'
    BY <1>9 DEF Relay!AnswerBack, RelayTyped, NothingMoved, OneBuffer, Ends
  <2>3. BytesKept'
    BY <1>9 DEF Relay!AnswerBack, RelayTyped, NothingMoved, OneBuffer, Ends, BytesKept, Relay!SentOnce,
        Relay!AnswersKept,
                 Relay!Waiting
  <2> QED BY <2>1, <2>2, <2>3
<1>10. CASE Relay!HostCloses
  <2>1. RelayTyped' /\ NothingMoved'
    BY <1>10 DEF Relay!HostCloses, RelayTyped, NothingMoved
  <2>2. OneBuffer' /\ Ends'
    BY <1>10 DEF Relay!HostCloses, RelayTyped, NothingMoved, OneBuffer, Ends
  <2>3. BytesKept'
    BY <1>10 DEF Relay!HostCloses, RelayTyped, NothingMoved, OneBuffer, Ends, BytesKept,
        Relay!SentOnce, Relay!AnswersKept,
                 Relay!Waiting
  <2> QED BY <2>1, <2>2, <2>3
<1> QED BY <1>1, <1>2, <1>3, <1>4, <1>5, <1>6, <1>7, <1>8, <1>9, <1>10 DEF Relay!CallStep

LEMMA RelaySteps ==
  ASSUME RelayInv, Relay!Next \/ UNCHANGED relayVars
  PROVE  RelayInv'
<1>1. CASE UNCHANGED relayVars
  BY <1>1 DEF relayVars, RelayInv, RelayTyped, NothingMoved, OneBuffer, Ends, BytesKept, Relay!SentOnce,
              Relay!AnswersKept, Relay!Ended, Relay!Waiting
<1>2. CASE Relay!Next
  BY <1>2, RelayConnect, RelayDrain, RelayRecv, RelayGive, RelayInput, RelaySend, RelayOthers
     DEF Relay!Next, Relay!RelayStep
<1> QED BY <1>1, <1>2

-----------------------------------------------------------------------------
(***************************************************************************)
(* The interpreter's threads.                                              *)
(***************************************************************************)
Places == {"unborn", "running", "spin", "in", "joining", "returned", "failed"}
ThreadsTyped ==
  /\ word \in {0, 1}
  /\ handles \in [Interp!Tids -> SUBSET Interp!Workers]
  /\ pc \in [Interp!Tids -> Places]
  /\ target \in [Interp!Tids -> Interp!Tids]
  /\ returned \in [Interp!Workers -> Results \cup {Interp!None}]
  /\ joined \in [Interp!Tids -> SUBSET (Interp!Workers \X Results)]
  /\ \A w \in Interp!Workers : pc[w] = "returned" => returned[w] # Interp!None

\* Who is inside has set the word, and nobody else is inside.
OneInside ==
  \A t \in Interp!Tids : pc[t] = "in" =>
    /\ word = 1
    /\ \A u \in Interp!Tids : pc[u] = "in" => u = t

\* The handle of a worker is in one thread's table, in the one join that took it,
\* or was joined, once, with what the worker returned.
HasHandle(t, w) == w \in handles[t]
Joining(t, w)   == pc[t] = "joining" /\ target[t] = w
HasJoined(t, w) == \E j \in joined[t] : j[1] = w
Holds(t, w)     == HasHandle(t, w) \/ Joining(t, w) \/ HasJoined(t, w)
Held(t, w) ==
  /\ Holds(t, w) => /\ pc[w] # "unborn"
                    /\ \A u \in Interp!Tids \ {t} : ~Holds(u, w)
  /\ HasHandle(t, w) => ~Joining(t, w) /\ ~HasJoined(t, w)
  /\ Joining(t, w) => ~HasJoined(t, w)
HandleOnce ==
  /\ \A t \in Interp!Tids : pc[t] = "joining" => target[t] \in Interp!Workers
  /\ \A t \in Interp!Tids, w \in Interp!Workers : Held(t, w)
  /\ \A t \in Interp!Tids : \A j \in joined[t] : pc[j[1]] = "returned" /\ j[2] = returned[j[1]]

ThreadsInv == ThreadsTyped /\ OneInside /\ HandleOnce

LEMMA ThreadNumbers ==
  /\ Interp!Workers \subseteq Interp!Tids
  /\ Interp!Main \in Interp!Tids /\ Interp!Main \notin Interp!Workers
  /\ Interp!None \notin Results
  /\ \A t \in Interp!Tids : t # Interp!Main => t \in Interp!Workers
BY HostAssumption DEF Interp!Workers, Interp!Tids, Interp!Main, Interp!None

\* What sending a thread somewhere does, and failing.
LEMMA Goes ==
  ASSUME ThreadsTyped, NEW t \in Interp!Tids, NEW place \in Places, Interp!Goto(t, place)
  PROVE  /\ pc' \in [Interp!Tids -> Places] /\ pc'[t] = place
         /\ \A u \in Interp!Tids \ {t} : pc'[u] = pc[u]
BY DEF Interp!Goto, ThreadsTyped

LEMMA ThreadsStart ==
  ASSUME Interp!Init \/ Interp!Absent
  PROVE  ThreadsInv
<1>1. PICK state : Interp!Start(state)
  BY DEF Interp!Init, Interp!Absent
<1>2. ThreadsTyped
  BY <1>1, ThreadNumbers DEF Interp!Start, ThreadsTyped, Places
<1>3. OneInside /\ HandleOnce
  BY <1>1 DEF Interp!Start, OneInside, HandleOnce, Held, Holds, HasHandle, Joining, HasJoined
<1> QED BY <1>2, <1>3 DEF ThreadsInv

LEMMA ThreadsWorkerReturns ==
  ASSUME ThreadsInv, NEW t \in Interp!Tids, Interp!WorkerReturns(t)
  PROVE  ThreadsInv'
<1> USE ThreadNumbers DEF ThreadsInv
<1>1. /\ pc' \in [Interp!Tids -> Places] /\ pc'[t] = "returned"
      /\ \A u \in Interp!Tids \ {t} : pc'[u] = pc[u]
  BY Goes DEF Interp!WorkerReturns, Interp!At, Interp!Err, Places
<1>2. ThreadsTyped'
  BY <1>1 DEF Interp!WorkerReturns, ThreadsTyped, Places
<1>3. OneInside'
  BY <1>1 DEF Interp!WorkerReturns, Interp!At, ThreadsTyped, OneInside
<1>4. HandleOnce'
  BY <1>1 DEF Interp!WorkerReturns, Interp!At, ThreadsTyped, HandleOnce, Held, Holds, HasHandle,
      Joining, HasJoined
<1> QED BY <1>2, <1>3, <1>4

LEMMA ThreadsFail ==
  ASSUME ThreadsInv, NEW t \in Interp!Tids, Interp!Fail(t)
  PROVE  ThreadsInv'
<1> USE ThreadNumbers DEF ThreadsInv
<1>1. /\ pc' \in [Interp!Tids -> Places] /\ pc'[t] = "failed"
      /\ \A u \in Interp!Tids \ {t} : pc'[u] = pc[u]
      /\ pc[t] \in {"running", "in"}
  BY Goes, HostAssumption DEF Interp!Fail, Interp!At, Interp!Err, Places
<1>2. ThreadsTyped'
  BY <1>1 DEF Interp!Fail, ThreadsTyped, Places
<1>3. OneInside'
  BY <1>1 DEF Interp!Fail, Interp!At, ThreadsTyped, OneInside
<1>4. HandleOnce'
  BY <1>1 DEF Interp!Fail, Interp!At, ThreadsTyped, HandleOnce, Held, Holds, HasHandle, Joining, HasJoined
<1> QED BY <1>2, <1>3, <1>4

LEMMA ThreadsJoin ==
  ASSUME ThreadsInv, NEW t \in Interp!Tids, Interp!Join(t)
  PROVE  ThreadsInv'
<1> USE ThreadNumbers DEF ThreadsInv
<1>1. /\ pc' \in [Interp!Tids -> Places] /\ pc'[t] \in {"joining", "failed"}
      /\ \A u \in Interp!Tids \ {t} : pc'[u] = pc[u]
  BY Goes DEF Interp!Join, Interp!At, Interp!Err, Places
<1>a. PICK w \in Interp!Workers :
        /\ pc[w] # "unborn" /\ pc[t] = "running"
        /\ target' = [target EXCEPT ![t] = w]
        /\ handles' = [handles EXCEPT ![t] = @ \ {w}]
        /\ pc'[t] = "joining" => w \in handles[t]
  BY Goes DEF Interp!Join, Interp!At, Interp!Err, Places
<1>2. ThreadsTyped'
  BY <1>1, <1>a DEF Interp!Join, ThreadsTyped, Places
<1>3. OneInside'
  BY <1>1 DEF Interp!Join, Interp!At, ThreadsTyped, OneInside
<1>4. HandleOnce'
  <2>1. \A u \in Interp!Tids, v \in Interp!Workers :
          /\ HasHandle(u, v)' <=> HasHandle(u, v) /\ ~(u = t /\ v = w)
          /\ Joining(u, v)' => Joining(u, v) \/ (u = t /\ v = w /\ HasHandle(t, w))
          /\ HasJoined(u, v)' <=> HasJoined(u, v)
    BY <1>1, <1>a DEF Interp!Join, ThreadsTyped, HasHandle, Joining, HasJoined
  <2>2. \A u \in Interp!Tids, v \in Interp!Workers : Held(u, v)'
    BY <1>1, <1>a, <2>1 DEF Held, Holds, HandleOnce
  <2>3. \A u \in Interp!Tids : /\ pc'[u] = "joining" => target'[u] \in Interp!Workers
                               /\ \A j \in joined'[u] : pc'[j[1]] = "returned" /\ j[2] = returned'[j[1]]
    BY <1>1, <1>a DEF Interp!Join, ThreadsTyped, HandleOnce
  <2> QED BY <2>2, <2>3 DEF HandleOnce
<1> QED BY <1>2, <1>3, <1>4

LEMMA ThreadsJoined ==
  ASSUME ThreadsInv, NEW t \in Interp!Tids, Interp!Joined(t)
  PROVE  ThreadsInv'
<1> USE ThreadNumbers DEF ThreadsInv
<1>1. /\ pc' \in [Interp!Tids -> Places] /\ pc'[t] \in {"running", "failed"}
      /\ \A u \in Interp!Tids \ {t} : pc'[u] = pc[u]
  BY Goes DEF Interp!Joined, Interp!At, Interp!Err, Places
<1>2. ThreadsTyped'
  <2>1. CASE UNCHANGED joined
    BY <1>1, <2>1 DEF Interp!Joined, ThreadsTyped, Places
  <2>2. CASE pc[target[t]] = "returned" /\ pc[t] = "joining"
             /\ joined' = [joined EXCEPT ![t] = @ \cup {<<target[t], returned[target[t]]>>}]
    <3>1. <<target[t], returned[target[t]]>> \in Interp!Workers \X Results
      BY <2>2 DEF ThreadsTyped, HandleOnce
    <3>2. joined' \in [Interp!Tids -> SUBSET (Interp!Workers \X Results)]
      BY <2>2, <3>1 DEF ThreadsTyped
    <3> QED BY <1>1, <3>2 DEF Interp!Joined, ThreadsTyped
  <2> QED BY <2>1, <2>2 DEF Interp!Joined, Interp!At
<1>3. OneInside'
  BY <1>1 DEF Interp!Joined, Interp!At, ThreadsTyped, OneInside
<1>4. HandleOnce'
  BY <1>1 DEF Interp!Joined, Interp!At, ThreadsTyped, HandleOnce, Held, Holds, HasHandle, Joining, HasJoined
<1> QED BY <1>2, <1>3, <1>4

LEMMA ThreadsLock ==
  ASSUME ThreadsInv, NEW t \in Interp!Tids, Interp!Lock(t)
  PROVE  ThreadsInv'
<1> USE ThreadNumbers DEF ThreadsInv
<1>1. /\ pc' \in [Interp!Tids -> Places] /\ pc'[t] = "spin"
      /\ \A u \in Interp!Tids \ {t} : pc'[u] = pc[u]
  BY Goes DEF Interp!Lock, Interp!At, Interp!Err, Places
<1>2. ThreadsTyped'
  BY <1>1 DEF Interp!Lock, ThreadsTyped, Places
<1>3. OneInside'
  BY <1>1 DEF Interp!Lock, Interp!At, ThreadsTyped, OneInside
<1>4. HandleOnce'
  BY <1>1 DEF Interp!Lock, Interp!At, ThreadsTyped, HandleOnce, Held, Holds, HasHandle, Joining, HasJoined
<1> QED BY <1>2, <1>3, <1>4

LEMMA ThreadsAcquire ==
  ASSUME ThreadsInv, NEW t \in Interp!Tids, Interp!Acquire(t)
  PROVE  ThreadsInv'
<1> USE ThreadNumbers DEF ThreadsInv
<1>1. /\ pc' \in [Interp!Tids -> Places] /\ pc'[t] = "in"
      /\ \A u \in Interp!Tids \ {t} : pc'[u] = pc[u]
  BY Goes DEF Interp!Acquire, Interp!At, Interp!Err, Places
<1>2. ThreadsTyped'
  BY <1>1 DEF Interp!Acquire, ThreadsTyped, Places
<1>3. OneInside'
  BY <1>1 DEF Interp!Acquire, Interp!At, ThreadsTyped, OneInside
<1>4. HandleOnce'
  BY <1>1 DEF Interp!Acquire, Interp!At, ThreadsTyped, HandleOnce, Held, Holds, HasHandle, Joining,
      HasJoined
<1> QED BY <1>2, <1>3, <1>4

LEMMA ThreadsUnlock ==
  ASSUME ThreadsInv, NEW t \in Interp!Tids, Interp!Unlock(t)
  PROVE  ThreadsInv'
<1> USE ThreadNumbers DEF ThreadsInv
<1>1. /\ pc' \in [Interp!Tids -> Places] /\ pc'[t] \in {"running", "failed"}
      /\ \A u \in Interp!Tids \ {t} : pc'[u] = pc[u]
  BY Goes DEF Interp!Unlock, Interp!At, Interp!Err, Places
<1>2. ThreadsTyped'
  BY <1>1 DEF Interp!Unlock, ThreadsTyped, Places
<1>3. OneInside'
  BY <1>1 DEF Interp!Unlock, Interp!At, ThreadsTyped, OneInside
<1>4. HandleOnce'
  BY <1>1 DEF Interp!Unlock, Interp!At, ThreadsTyped, HandleOnce, Held, Holds, HasHandle, Joining, HasJoined
<1> QED BY <1>2, <1>3, <1>4


LEMMA ThreadsSpawn ==
  ASSUME ThreadsInv, NEW t \in Interp!Tids, Interp!Spawn(t)
  PROVE  ThreadsInv'
<1> USE ThreadNumbers DEF ThreadsInv
<1>1. /\ pc' \in [Interp!Tids -> Places]
      /\ \E w \in Interp!Workers : pc[w] = "unborn" /\ (
            \/ /\ pc'[w] = "running" /\ \A u \in Interp!Tids \ {w} : pc'[u] = pc[u]
               /\ handles' = [handles EXCEPT ![t] = @ \cup {w}]
            \/ /\ pc'[t] = "failed" /\ \A u \in Interp!Tids \ {t} : pc'[u] = pc[u]
               /\ UNCHANGED handles)
  BY Goes DEF Interp!Spawn, Interp!At, Interp!Err, Places, ThreadsTyped
<1>2. ThreadsTyped'
  BY <1>1 DEF Interp!Spawn, ThreadsTyped, Places
<1>3. OneInside'
  BY <1>1 DEF Interp!Spawn, Interp!At, ThreadsTyped, OneInside
<1>4. HandleOnce'
  BY <1>1 DEF Interp!Spawn, Interp!At, ThreadsTyped, HandleOnce, Held, Holds, HasHandle, Joining, HasJoined
<1> QED BY <1>2, <1>3, <1>4

LEMMA ThreadsSteps ==
  ASSUME ThreadsInv, Interp!Next \/ UNCHANGED threadVars
  PROVE  ThreadsInv'
<1>1. CASE UNCHANGED threadVars \/ Interp!MainReturns
  BY <1>1 DEF threadVars, Interp!MainReturns, ThreadsInv, ThreadsTyped, OneInside, HandleOnce, Held,
      Holds, HasHandle,
              Joining, HasJoined
<1>2. CASE \E t \in Interp!Tids : \/ Interp!Spawn(t) \/ Interp!WorkerReturns(t) \/ Interp!Fail(t)
                                 \/ Interp!Join(t) \/ Interp!Joined(t)
                                 \/ Interp!Lock(t) \/ Interp!Acquire(t) \/ Interp!Unlock(t)
  BY <1>2, ThreadsSpawn, ThreadsWorkerReturns, ThreadsFail, ThreadsJoin, ThreadsJoined, ThreadsLock,
      ThreadsAcquire,
     ThreadsUnlock
<1> QED BY <1>1, <1>2 DEF Interp!Next

\* The thread inside is the Mutex's owner.
LEMMA OwnerIs ==
  /\ ThreadsInv  => /\ \A t \in Interp!Tids : pc[t] = "in" => Interp!Owner = t
                    /\ (\A t \in Interp!Tids : pc[t] # "in") => Interp!Owner = Interp!Nobody
  /\ ThreadsInv' => /\ \A t \in Interp!Tids : pc'[t] = "in" => Interp!Owner' = t
                    /\ (\A t \in Interp!Tids : pc'[t] # "in") => Interp!Owner' = Interp!Nobody
<1>1. ASSUME ThreadsInv, NEW t \in Interp!Tids, pc[t] = "in" PROVE Interp!Owner = t
  BY <1>1 DEF ThreadsInv, OneInside, Interp!Owner
<1>2. ASSUME ThreadsInv', NEW t \in Interp!Tids, pc'[t] = "in" PROVE Interp!Owner' = t
  BY <1>2 DEF ThreadsInv, OneInside, Interp!Owner
<1>3. (\A t \in Interp!Tids : pc[t] # "in") => Interp!Owner = Interp!Nobody
  BY DEF Interp!Owner
<1>4. (\A t \in Interp!Tids : pc'[t] # "in") => Interp!Owner' = Interp!Nobody
  BY DEF Interp!Owner
<1> QED BY <1>1, <1>2, <1>3, <1>4

\* Nobody is no thread, and a step that leaves everyone outside the lock and the
\* wait for it where they were is none of the Mutex's.
Wants == {t \in Interp!Tids : pc[t] = "spin"}
LEMMA NobodyIsNone == \A t \in Interp!Tids : t # Interp!Nobody
BY HostAssumption DEF Interp!Tids, Interp!Nobody

LEMMA NotItsStep ==
  ASSUME ThreadsInv, ThreadsInv',
         \A t \in Interp!Tids : /\ pc'[t] = "in" <=> pc[t] = "in"
                                /\ pc'[t] = "spin" <=> pc[t] = "spin"
  PROVE  UNCHANGED Interp!M!vars
<1>1. Interp!Owner' = Interp!Owner
  BY OwnerIs
<1>2. Wants' = Wants
  BY DEF Wants
<1> QED BY <1>1, <1>2 DEF Interp!M!vars, Wants

LEMMA LockMaps ==
  ASSUME ThreadsInv, ThreadsInv', NEW t \in Interp!Tids, Interp!Lock(t)
  PROVE  Interp!M!Ask(t)
<1>1. /\ pc[t] = "running" /\ pc'[t] = "spin" /\ \A u \in Interp!Tids \ {t} : pc'[u] = pc[u]
  BY Goes DEF ThreadsInv, Interp!Lock, Interp!At, Places
<1>2. Interp!Owner' = Interp!Owner /\ Interp!Owner # t
  BY <1>1, OwnerIs, NobodyIsNone
<1>3. t \notin Wants /\ Wants' = Wants \cup {t}
  BY <1>1 DEF Wants
<1> QED BY <1>2, <1>3 DEF Interp!M!Ask, Wants

LEMMA AcquireMaps ==
  ASSUME ThreadsInv, ThreadsInv', NEW t \in Interp!Tids, Interp!Acquire(t)
  PROVE  Interp!M!Take(t)
<1>1. /\ pc[t] = "spin" /\ pc'[t] = "in" /\ \A u \in Interp!Tids \ {t} : pc'[u] = pc[u]
      /\ word = 0
  BY Goes DEF ThreadsInv, Interp!Acquire, Interp!At, Places
<1>2. Interp!Owner = Interp!Nobody /\ Interp!Owner' = t
  BY <1>1, OwnerIs DEF ThreadsInv, OneInside
<1>3. t \in Wants /\ Wants' = Wants \ {t}
  BY <1>1 DEF Wants
<1> QED BY <1>2, <1>3 DEF Interp!M!Take, Wants

\* Unlocking gives the lock back, and so does, to the Mutex, failing inside.
LEMMA LeavingMaps ==
  ASSUME ThreadsInv, ThreadsInv', NEW t \in Interp!Tids, pc[t] = "in", pc'[t] \notin {"in", "spin"},
         \A u \in Interp!Tids \ {t} : pc'[u] = pc[u]
  PROVE  Interp!M!Give(t)
<1>1. \A u \in Interp!Tids : pc'[u] # "in"
  BY DEF ThreadsInv, OneInside
<1>2. Interp!Owner = t /\ Interp!Owner' = Interp!Nobody
  BY <1>1, OwnerIs
<1>3. Wants' = Wants
  BY DEF Wants
<1> QED BY <1>2, <1>3 DEF Interp!M!Give, Wants

LEMMA ThreadsMap ==
  ASSUME ThreadsInv, ThreadsInv', Interp!Next \/ UNCHANGED threadVars
  PROVE  [Interp!M!Next]_Interp!M!vars
<1>1. ASSUME NEW t \in Interp!Tids, Interp!Lock(t) \/ Interp!Acquire(t)
      PROVE  Interp!M!Next
  BY <1>1, LockMaps, AcquireMaps DEF Interp!M!Next
<1>2. ASSUME NEW t \in Interp!Tids, Interp!Unlock(t) \/ Interp!Fail(t)
      PROVE  [Interp!M!Next]_Interp!M!vars
  <2>1. /\ pc[t] \in {"running", "in"} /\ pc'[t] \in {"running", "failed"}
        /\ \A u \in Interp!Tids \ {t} : pc'[u] = pc[u]
    BY <1>2, Goes, HostAssumption DEF ThreadsInv, Interp!Unlock, Interp!Fail, Interp!At, Interp!Err, Places
  <2>2. CASE pc[t] = "in"
    BY <2>1, <2>2, LeavingMaps DEF Interp!M!Next
  <2>3. CASE pc[t] = "running"
    BY <2>1, <2>3, NotItsStep
  <2> QED BY <2>1, <2>2, <2>3
<1>3. ASSUME NEW t \in Interp!Tids, Interp!WorkerReturns(t) \/ Interp!Join(t) \/ Interp!Joined(t)
      PROVE  UNCHANGED Interp!M!vars
  <2>1. /\ pc[t] \in {"running", "joining"} /\ pc'[t] \in {"running", "returned", "joining", "failed"}
        /\ \A u \in Interp!Tids \ {t} : pc'[u] = pc[u]
    BY <1>3, Goes DEF ThreadsInv, Interp!WorkerReturns, Interp!Join, Interp!Joined, Interp!At,
        Interp!Err, Places
  <2> QED BY <2>1, NotItsStep
<1>4. ASSUME NEW t \in Interp!Tids, Interp!Spawn(t)
      PROVE  UNCHANGED Interp!M!vars
  <2>1. PICK w \in Interp!Tids : /\ pc[w] \in {"unborn", "running"} /\ pc'[w] \in {"running", "failed"}
                                 /\ \A u \in Interp!Tids \ {w} : pc'[u] = pc[u]
    BY <1>4, Goes, ThreadNumbers DEF ThreadsInv, ThreadsTyped, Interp!Spawn, Interp!At, Interp!Err, Places
  <2> QED BY <2>1, NotItsStep
<1>5. CASE UNCHANGED threadVars \/ Interp!MainReturns
  BY <1>5, NotItsStep DEF threadVars, Interp!MainReturns
<1> QED BY <1>1, <1>2, <1>3, <1>4, <1>5 DEF Interp!Next

-----------------------------------------------------------------------------
(***************************************************************************)
(* aipl-run --serve-fresh: why a client is sent its own instance's answer  *)
(* and the server ends after its requests, for any clients, number of      *)
(* requests and size of an answer, of a server that runs or is absent.     *)
(***************************************************************************)
\* What the proofs use of the constants.
FreshConstants ==
  /\ Clients \subseteq Nat \ {0}
  /\ Requests \in Nat
  /\ Cap \in Nat \ {0}

-----------------------------------------------------------------------------
\* The parts of the inductive invariant.
FreshTyped ==
  /\ host \in {"absent", "accept", "running", "answering", "done", "failed"}
  /\ served \in 0..Requests /\ serving \in Clients \cup {Fresh!NoClient}
  /\ client \in [Clients -> {"away", "queued", "connected", "left", "closed"}]
  /\ got \in [Clients -> (Clients \cup {Fresh!NoClient}) \X Nat \X Nat]
  /\ output \in [want : Nat, kept : 0..Cap]
  /\ code \in {0, 1, 134}
  /\ ended \in [Clients -> {0, 1, 134, Fresh!NotEnded}]

\* Serving a connection, the host has its client, who is connected to no other
\* instance, has no answer yet and, until the instance ends, none made for it.
Busy == host \in {"running", "answering"}
OneAtATime ==
  /\ Busy => serving \in Clients /\ client[serving] \in {"connected", "left"}
  /\ \A c \in Clients : client[c] = "connected" => Busy /\ c = serving
  /\ host = "running" => ended[serving] = Fresh!NotEnded
  /\ host = "answering" => ended[serving] = code

\* Who has not been taken up has had nothing run for it; who was sent something
\* is closed.
NotYet ==
  \A c \in Clients : /\ client[c] \in {"away", "queued"} => ended[c] = Fresh!NotEnded
                     /\ got[c] # Fresh!Nothing => client[c] = "closed"

\* What is kept of an answer is all of it, or as much as the host keeps.
KeptOrFull == output.kept = output.want \/ output.kept = Cap

\* Every connection taken up has had its instance, but for the one that runs and
\* those the system was short of a descriptor for.
HaveEnded == {c \in Clients : ended[c] # Fresh!NotEnded}
Tally ==
  /\ IsFiniteSet(HaveEnded)
  /\ ~short => served = Cardinality(HaveEnded) + IF host = "running" THEN 1 ELSE 0
  /\ host = "done" => served = Requests
  /\ host = "failed" => short

FreshInv == FreshTyped /\ OneAtATime /\ NotYet /\ KeptOrFull /\ Fresh!OwnAnswerWhole /\ Tally

-----------------------------------------------------------------------------
LEMMA FreshStarts ==
  ASSUME FreshConstants, Fresh!Init \/ Fresh!Absent
  PROVE  FreshInv
<1>1. PICK h \in {"accept", "absent"} : Fresh!Start(h)
  BY DEF Fresh!Init, Fresh!Absent
<1>2. FreshTyped
  BY <1>1 DEF FreshConstants, Fresh!Start, FreshTyped, Fresh!NoClient, Fresh!Nothing, Fresh!NotEnded
<1>3. OneAtATime /\ NotYet /\ KeptOrFull /\ Fresh!OwnAnswerWhole
  BY <1>1 DEF Fresh!Start, OneAtATime, Busy, NotYet, KeptOrFull, Fresh!OwnAnswerWhole, Fresh!Nothing
<1>4. Tally
  <2>1. HaveEnded = {}
    BY <1>1 DEF Fresh!Start, HaveEnded
  <2> QED BY <1>1, <2>1, FS_EmptySet DEF Fresh!Start, Tally
<1> QED BY <1>2, <1>3, <1>4 DEF FreshInv

LEMMA ConnectStep ==
  ASSUME FreshConstants, FreshInv, NEW c \in Clients, Fresh!Connect(c)
  PROVE  FreshInv'
<1> USE DEF FreshConstants, FreshInv, Fresh!NoClient
<1>1. FreshTyped'
  BY DEF Fresh!Connect, FreshTyped
<1>2. OneAtATime'
  BY DEF Fresh!Connect, FreshTyped, OneAtATime, Busy, NotYet
<1>3. NotYet'
  BY DEF Fresh!Connect, FreshTyped, OneAtATime, Busy, NotYet
<1>4. KeptOrFull'
  BY DEF Fresh!Connect, KeptOrFull
<1>5. Fresh!OwnAnswerWhole'
  BY DEF Fresh!Connect, FreshTyped, OneAtATime, Busy, NotYet, KeptOrFull, Fresh!OwnAnswerWhole,
      Fresh!Nothing
<1>6. Tally'
  BY DEF Fresh!Connect, FreshTyped, Tally, HaveEnded
<1> QED BY <1>1, <1>2, <1>3, <1>4, <1>5, <1>6

LEMMA AskStep ==
  ASSUME FreshConstants, FreshInv, NEW c \in Clients, Fresh!Ask(c)
  PROVE  FreshInv'
<1> USE DEF FreshConstants, FreshInv, Fresh!NoClient
<1>1. FreshTyped'
  BY DEF Fresh!Ask, FreshTyped
<1>2. OneAtATime'
  BY DEF Fresh!Ask, FreshTyped, OneAtATime, Busy, NotYet
<1>3. NotYet'
  BY DEF Fresh!Ask, FreshTyped, OneAtATime, Busy, NotYet
<1>4. KeptOrFull'
  BY DEF Fresh!Ask, KeptOrFull
<1>5. Fresh!OwnAnswerWhole'
  BY DEF Fresh!Ask, FreshTyped, OneAtATime, Busy, NotYet, KeptOrFull, Fresh!OwnAnswerWhole, Fresh!Nothing
<1>6. Tally'
  BY DEF Fresh!Ask, FreshTyped, Tally, HaveEnded
<1> QED BY <1>1, <1>2, <1>3, <1>4, <1>5, <1>6

LEMMA GoAwayStep ==
  ASSUME FreshConstants, FreshInv, NEW c \in Clients, Fresh!GoAway(c)
  PROVE  FreshInv'
<1> USE DEF FreshConstants, FreshInv, Fresh!NoClient
<1>1. FreshTyped'
  BY DEF Fresh!GoAway, FreshTyped
<1>2. OneAtATime'
  BY DEF Fresh!GoAway, FreshTyped, OneAtATime, Busy, NotYet
<1>3. NotYet'
  BY DEF Fresh!GoAway, FreshTyped, OneAtATime, Busy, NotYet
<1>4. KeptOrFull'
  BY DEF Fresh!GoAway, KeptOrFull
<1>5. Fresh!OwnAnswerWhole'
  BY DEF Fresh!GoAway, FreshTyped, OneAtATime, Busy, NotYet, KeptOrFull, Fresh!OwnAnswerWhole, Fresh!Nothing
<1>6. Tally'
  BY DEF Fresh!GoAway, FreshTyped, Tally, HaveEnded
<1> QED BY <1>1, <1>2, <1>3, <1>4, <1>5, <1>6

LEMMA AcceptStep ==
  ASSUME FreshConstants, FreshInv, NEW c \in Clients, Fresh!Accept(c)
  PROVE  FreshInv'
<1> USE DEF FreshConstants, FreshInv, Fresh!NoClient
<1>1. FreshTyped'
  BY DEF Fresh!Accept, FreshTyped, Fresh!NotEnded
<1>2. OneAtATime'
  BY DEF Fresh!Accept, FreshTyped, OneAtATime, Busy, NotYet
<1>3. NotYet'
  BY DEF Fresh!Accept, FreshTyped, OneAtATime, Busy, NotYet
<1>4. KeptOrFull'
  BY DEF Fresh!Accept, FreshTyped, KeptOrFull
<1>5. Fresh!OwnAnswerWhole'
  BY DEF Fresh!Accept, FreshTyped, OneAtATime, Busy, NotYet, KeptOrFull, Fresh!OwnAnswerWhole, Fresh!Nothing
<1>6. Tally'
  <2>1. HaveEnded' = HaveEnded
    BY DEF Fresh!Accept, HaveEnded
  <2>2. Cardinality(HaveEnded) \in Nat
    BY FS_CardinalityType DEF Tally
  <2>3. CASE host' = "running" /\ UNCHANGED short
    BY <2>1, <2>2, <2>3 DEF Fresh!Accept, FreshTyped, Tally
  <2>4. CASE host' \in {"accept", "failed"} /\ short' = TRUE
    BY <2>1, <2>4 DEF Fresh!Accept, Tally
  <2> QED BY <2>3, <2>4 DEF Fresh!Accept
<1> QED BY <1>1, <1>2, <1>3, <1>4, <1>5, <1>6

LEMMA WriteStep ==
  ASSUME FreshConstants, FreshInv, Fresh!Write
  PROVE  FreshInv'
<1> USE DEF FreshConstants, FreshInv, Fresh!NoClient
<1>1. FreshTyped'
  BY DEF Fresh!Write, FreshTyped
<1>2. OneAtATime'
  BY DEF Fresh!Write, FreshTyped, OneAtATime, Busy, NotYet
<1>3. NotYet'
  BY DEF Fresh!Write, FreshTyped, OneAtATime, Busy, NotYet
<1>4. KeptOrFull'
  BY DEF Fresh!Write, FreshTyped, KeptOrFull
<1>5. Fresh!OwnAnswerWhole'
  BY DEF Fresh!Write, FreshTyped, OneAtATime, Busy, NotYet, KeptOrFull, Fresh!OwnAnswerWhole, Fresh!Nothing
<1>6. Tally'
  BY DEF Fresh!Write, FreshTyped, Tally, HaveEnded
<1> QED BY <1>1, <1>2, <1>3, <1>4, <1>5, <1>6

LEMMA LeaveOpenStep ==
  ASSUME FreshConstants, FreshInv, Fresh!LeaveOpen
  PROVE  FreshInv'
<1> USE DEF FreshConstants, FreshInv, Fresh!NoClient
<1>1. FreshTyped'
  BY DEF Fresh!LeaveOpen, FreshTyped, OneAtATime, Busy
<1>2. OneAtATime'
  BY DEF Fresh!LeaveOpen, FreshTyped, OneAtATime, Busy, NotYet
<1>3. NotYet'
  BY DEF Fresh!LeaveOpen, FreshTyped, OneAtATime, Busy, NotYet
<1>4. KeptOrFull'
  BY DEF Fresh!LeaveOpen, KeptOrFull
<1>5. Fresh!OwnAnswerWhole'
  BY DEF Fresh!LeaveOpen, FreshTyped, OneAtATime, Busy, NotYet, KeptOrFull, Fresh!OwnAnswerWhole,
      Fresh!Nothing
<1>6. Tally'
  BY DEF Fresh!LeaveOpen, FreshTyped, Tally, HaveEnded
<1> QED BY <1>1, <1>2, <1>3, <1>4, <1>5, <1>6

LEMMA InstanceEndsStep ==
  ASSUME FreshConstants, FreshInv, Fresh!InstanceEnds
  PROVE  FreshInv'
<1> USE DEF FreshConstants, FreshInv, Fresh!NoClient
<1>1. FreshTyped'
  BY DEF Fresh!InstanceEnds, FreshTyped, Fresh!NotEnded, Fresh!AfterTrap, OneAtATime, Busy
<1>2. OneAtATime'
  BY DEF Fresh!InstanceEnds, FreshTyped, OneAtATime, Busy, NotYet, Fresh!AfterTrap
<1>3. NotYet'
  BY DEF Fresh!InstanceEnds, FreshTyped, OneAtATime, Busy, NotYet, Fresh!AfterTrap
<1>4. KeptOrFull'
  BY DEF Fresh!InstanceEnds, KeptOrFull
<1>5. Fresh!OwnAnswerWhole'
  BY DEF Fresh!InstanceEnds, FreshTyped, OneAtATime, Busy, NotYet, KeptOrFull, Fresh!OwnAnswerWhole,
      Fresh!Nothing
<1>6. Tally'
  <2>1. /\ host = "running" /\ host' = "answering" /\ code' \in {0, 1, 134}
        /\ serving \in Clients /\ ended' = [ended EXCEPT ![serving] = code']
        /\ UNCHANGED <<served, short>>
    BY DEF Fresh!InstanceEnds, Fresh!AfterTrap, OneAtATime, Busy
  <2>2. serving \notin HaveEnded /\ HaveEnded' = HaveEnded \cup {serving}
    BY <2>1 DEF HaveEnded, OneAtATime, Fresh!NotEnded, FreshTyped
  <2>3. /\ IsFiniteSet(HaveEnded') /\ Cardinality(HaveEnded) \in Nat
        /\ Cardinality(HaveEnded') = Cardinality(HaveEnded) + 1
    BY <2>2, FS_AddElement, FS_CardinalityType DEF Tally
  <2> QED BY <2>1, <2>3 DEF Tally
<1> QED BY <1>1, <1>2, <1>3, <1>4, <1>5, <1>6

LEMMA AnswerStep ==
  ASSUME FreshConstants, FreshInv, Fresh!Answer
  PROVE  FreshInv'
<1> USE DEF FreshConstants, FreshInv, Fresh!NoClient
<1>1. FreshTyped'
  BY DEF Fresh!Answer, FreshTyped, Fresh!NotEnded, Fresh!Reply, Fresh!Failure, OneAtATime, Busy
<1>2. OneAtATime'
  BY DEF Fresh!Answer, FreshTyped, OneAtATime, Busy, NotYet
<1>3. NotYet'
  BY DEF Fresh!Answer, FreshTyped, OneAtATime, Busy, NotYet
<1>4. KeptOrFull'
  BY DEF Fresh!Answer, KeptOrFull
<1>5. Fresh!OwnAnswerWhole'
  BY DEF Fresh!Answer, FreshTyped, OneAtATime, Busy, NotYet, KeptOrFull, Fresh!OwnAnswerWhole,
      Fresh!Reply, Fresh!Failure, Fresh!Nothing
<1>6. Tally'
  BY DEF Fresh!Answer, FreshTyped, OneAtATime, Busy, NotYet, Tally, HaveEnded
<1> QED BY <1>1, <1>2, <1>3, <1>4, <1>5, <1>6

LEMMA FinishStep ==
  ASSUME FreshConstants, FreshInv, Fresh!Finish
  PROVE  FreshInv'
<1> USE DEF FreshConstants, FreshInv, Fresh!NoClient
<1>1. FreshTyped'
  BY DEF Fresh!Finish, FreshTyped
<1>2. OneAtATime'
  BY DEF Fresh!Finish, FreshTyped, OneAtATime, Busy, NotYet
<1>3. NotYet'
  BY DEF Fresh!Finish, FreshTyped, OneAtATime, Busy, NotYet
<1>4. KeptOrFull'
  BY DEF Fresh!Finish, KeptOrFull
<1>5. Fresh!OwnAnswerWhole'
  BY DEF Fresh!Finish, FreshTyped, OneAtATime, Busy, NotYet, KeptOrFull, Fresh!OwnAnswerWhole, Fresh!Nothing
<1>6. Tally'
  BY DEF Fresh!Finish, FreshTyped, OneAtATime, Busy, NotYet, Tally, HaveEnded
<1> QED BY <1>1, <1>2, <1>3, <1>4, <1>5, <1>6

LEMMA FreshSteps ==
  ASSUME FreshConstants, FreshInv, [Fresh!Next]_(Fresh!vars)
  PROVE  FreshInv'
<1>1. CASE UNCHANGED Fresh!vars
  BY <1>1 DEF Fresh!vars, FreshInv, FreshTyped, OneAtATime, Busy, NotYet, KeptOrFull,
      Fresh!OwnAnswerWhole, Tally, HaveEnded
<1>2. CASE Fresh!Next
  BY <1>2, ConnectStep, AskStep, GoAwayStep, AcceptStep, WriteStep, LeaveOpenStep, InstanceEndsStep,
      AnswerStep,
     FinishStep DEF Fresh!Next, Fresh!HostStep
<1> QED BY <1>1, <1>2

-----------------------------------------------------------------------------
\* The invariant gives what the runs check of the server.
LEMMA FreshPromises ==
  ASSUME FreshInv
  PROVE  Fresh!OwnAnswerWhole /\ Fresh!EndsAfterRequests
<1>1. Fresh!OwnAnswerWhole
  BY DEF FreshInv
<1>2. Fresh!EndsAfterRequests
  <2>1. host = "failed" => short
    BY DEF FreshInv, Tally
  <2>2. host = "done" => \A c \in Clients : client[c] # "connected"
    BY DEF FreshInv, OneAtATime, Busy
  <2>3. host = "done" /\ ~short => Cardinality({c \in Clients : ended[c] # Fresh!NotEnded}) = Requests
    <3>1. Cardinality(HaveEnded) \in Nat
      BY FS_CardinalityType DEF FreshInv, Tally
    <3>2. host = "done" /\ ~short => Cardinality(HaveEnded) = Requests
      BY <3>1 DEF FreshInv, Tally
    <3> QED BY <3>2 DEF HaveEnded
  <2> QED BY <2>1, <2>2, <2>3 DEF Fresh!EndsAfterRequests, Cardinality, Fresh!Cardinality
<1> QED BY <1>1, <1>2

\* Whatever clients and instances do, a client is sent what its own instance
\* wrote, whole, or the bare 500; and the server ends after its requests.
THEOREM OwnAnswerThenEnd ==
  ASSUME FreshConstants
  PROVE  Fresh!Spec => [](Fresh!OwnAnswerWhole /\ Fresh!EndsAfterRequests)
<1>1. Fresh!Init => FreshInv
  BY FreshStarts
<1>2. FreshInv /\ [Fresh!Next]_(Fresh!vars) => FreshInv'
  BY FreshSteps
<1>3. FreshInv => Fresh!OwnAnswerWhole /\ Fresh!EndsAfterRequests
  BY FreshPromises
<1> QED BY <1>1, <1>2, <1>3, PTL DEF Fresh!Spec

-----------------------------------------------------------------------------
(***************************************************************************)
(* The composition: one part runs, the others stay absent.                 *)
(***************************************************************************)

LEMMA Constants == ProcsConstants /\ FreshConstants
BY HostAssumption DEF ProcsConstants, FreshConstants, Procs!NoThread, Procs!Streams

HostInv == ProcsInv /\ RelayInv /\ FreshInv /\ ThreadsInv

LEMMA PartsStart ==
  ASSUME Init
  PROVE  HostInv
<1>1. /\ Procs!Init \/ Procs!Absent
      /\ Relay!Init \/ Relay!Absent
      /\ Fresh!Init \/ Fresh!Absent
      /\ Interp!Init \/ Interp!Absent
  BY DEF Init
<1>2. ProcsInv
  BY <1>1, ProcsStart, Constants
<1>3. FreshInv
  BY <1>1, FreshStarts, Constants
<1> QED BY <1>1, <1>2, <1>3, RelayStarts, ThreadsStart DEF HostInv

\* A step of the behaviour is, for each part, a step of it or none.
LEMMA PartsStep ==
  ASSUME [Next]_vars
  PROVE  /\ [Procs!Next]_(Procs!vars)
         /\ Relay!Next \/ UNCHANGED relayVars
         /\ [Fresh!Next]_(Fresh!vars)
         /\ Interp!Next \/ UNCHANGED threadVars
BY DEF Next, vars, freshVars, procVars, Fresh!vars, Procs!vars, Procs!table, Procs!shared,
    Procs!system, Procs!calls

LEMMA PartsKeep ==
  ASSUME HostInv, [Next]_vars
  PROVE  HostInv'
<1>1. ProcsInv'
  BY PartsStep, ProcsSteps, Constants DEF HostInv
<1>2. FreshInv'
  BY PartsStep, FreshSteps, Constants DEF HostInv
<1> QED BY <1>1, <1>2, PartsStep, RelaySteps, ThreadsSteps DEF HostInv

THEOREM HostInvariant == Spec => []HostInv
BY PartsStart, PartsKeep, PTL DEF Spec

-----------------------------------------------------------------------------
\* What a program ended with is learnt once: every wait and try_wait of every thread
\* gives it, and no kill that begins after one of them sends a signal (StatusKept).
THEOREM OneStatus == Spec => []StatusKept
<1>1. HostInv => StatusKept
  BY ProcsPromises DEF HostInv, StatusKept
<1> QED BY <1>1, HostInvariant, PTL

\* aipl-net's relay loses and repeats nothing either way, the last bytes before a
\* close included (BytesKept).
THEOREM RelayKeepsBytes == Spec => []BytesKept
<1>1. HostInv => BytesKept
  BY DEF HostInv, RelayInv
<1> QED BY <1>1, HostInvariant, PTL

\* A client of aipl-run --serve-fresh is sent its own instance's answer, whole, or
\* the 500, and the server ends after its requests (OwnAnswerWhole).
THEOREM AnswersAreOwn == Spec => []OwnAnswerWhole
<1>1. HostInv => OwnAnswerWhole
  BY FreshPromises DEF HostInv, OwnAnswerWhole
<1> QED BY <1>1, HostInvariant, PTL

\* The interpreter's spinning lock is a Mutex: every step of the threads is one of
\* the Mutex's or none, whatever fails and wherever (the safety of ImplementsMutex).
THEOREM SpinLockIsMutex == Spec => Interp!M!Init /\ [][Interp!M!Next]_(Interp!M!vars)
<1>1. Init => Interp!M!Init
  <2>1. ASSUME Init PROVE \A t \in Interp!Tids : pc[t] \notin {"in", "spin"}
    BY <2>1 DEF Init, Interp!Init, Interp!Absent, Interp!Start
  <2>2. ASSUME Init PROVE Interp!Owner = Interp!Nobody
    BY <2>1, <2>2 DEF Interp!Owner
  <2> QED BY <2>1, <2>2 DEF Interp!M!Init
<1>2. HostInv /\ HostInv' /\ [Next]_vars => [Interp!M!Next]_(Interp!M!vars)
  BY PartsStep, ThreadsMap DEF HostInv
<1> QED BY <1>1, <1>2, HostInvariant, PTL DEF Spec

\* A worker's handle is in one place: a worker is joined at most once, by the thread
\* that spawned it, with what it returned (JoinedOnce of VMThreads).
THEOREM WorkersJoinedOnce == Spec => []Interp!JoinedOnce
<1>1. HostInv => Interp!JoinedOnce
  <2> SUFFICES ASSUME HostInv, NEW t \in Interp!Tids, NEW u \in Interp!Tids, t # u
               PROVE  /\ handles[t] \cap handles[u] = {}
                      /\ \A j \in joined[t] : /\ j[2] = returned[j[1]]
                                              /\ j[1] \notin handles[t] \cup handles[u]
                                              /\ \A i \in joined[u] : i[1] # j[1]
                      /\ pc[t] = "joining" => \A i \in joined[u] : i[1] # target[t]
    BY DEF Interp!JoinedOnce
  <2>1. \A w \in Interp!Workers : Held(t, w) /\ (Holds(t, w) => ~Holds(u, w))
    BY DEF HostInv, ThreadsInv, HandleOnce, Held
  <2>2. /\ handles[t] \subseteq Interp!Workers /\ handles[u] \subseteq Interp!Workers
        /\ \A j \in joined[t] : j[1] \in Interp!Workers
        /\ \A i \in joined[u] : i[1] \in Interp!Workers
    BY DEF HostInv, ThreadsInv, ThreadsTyped
  <2>3. handles[t] \cap handles[u] = {}
    BY <2>1, <2>2 DEF Holds, HasHandle
  <2>4. ASSUME NEW j \in joined[t]
        PROVE  /\ j[2] = returned[j[1]] /\ j[1] \notin handles[t] \cup handles[u]
               /\ \A i \in joined[u] : i[1] # j[1]
    BY <2>1, <2>2 DEF HostInv, ThreadsInv, HandleOnce, Held, Holds, HasHandle, HasJoined
  <2>5. pc[t] = "joining" => \A i \in joined[u] : i[1] # target[t]
    BY <2>1, <2>2 DEF HostInv, ThreadsInv, HandleOnce, Holds, Joining, HasJoined
  <2> QED BY <2>3, <2>4, <2>5
<1> QED BY <1>1, HostInvariant, PTL
=============================================================================
