------------------------------ MODULE HostProcs ------------------------------
(***************************************************************************)
(* The process table of the interpreter and of the runner                  *)
(* (src/sys_procs.rs): spawn, wait, try_wait, kill, read, write, poll,     *)
(* close and exec, called by several threads of one program.  A call looks *)
(* its handle up under the table's lock, keeps what it found (an Arc), and *)
(* goes on without the lock; each step of a call below is what happens     *)
(* between two such points.  The system's side (processes end, their ids   *)
(* are used again, pipes fill and empty) is modelled as its documentation  *)
(* has it.  A call refused before it starts anything (not granted, a stdio *)
(* that is not valid) changes nothing and is left out.                     *)
(***************************************************************************)
EXTENDS Naturals, FiniteSets, Functions

CONSTANTS Threads,
          MaxChildren,  \* programs started in one behaviour
          FirstPipe,    \* 3 in the code: the first pipe's handle
          FirstProc,    \* 1024 in the code: the first process's handle
          Pids,         \* process ids of the system
          ExitCodes,    \* what programs exit with, 0 to 255
          Signals,      \* what kill is called with
          Stdio,        \* the sets of streams programs are started with pipes for
          PipeSize      \* what a pipe holds

Children == 1..MaxChildren
Streams  == {"input", "output"}   \* the error is a second output
Pipes    == Children \X Streams
NoPid    == 0
NoThread == 0
NoStatus == 999

VARIABLES
  \* the table
  nextPipe, nextProc,   \* the next handles
  procs,                \* process handle |-> child
  pipes,                \* pipe handle |-> pipe
  streams,              \* of each child: stream |-> pipe handle, 0 for none
  \* of each child, shared by the calls about it
  status, holder, reaped,
  \* the system
  started, os, pid, exit, piped, buf,
  \* the program's threads
  program,  \* "running", or "replaced" by exec (or "absent")
  call,   \* of each thread: where it is, what the call is about, its signal,
          \* and whether the process had been waited for when a kill began
  keeps,  \* children whose Command spawn has not dropped yet
  \* history
  answers, misclosed

table  == <<nextPipe, nextProc, procs, pipes, streams>>
shared == <<status, holder, reaped>>
system == <<started, os, pid, exit, piped, buf>>
calls  == <<program, call, keeps>>
vars   == <<table, shared, system, calls, answers, misclosed>>

Empty == [h \in {} |-> 0]
Idle  == [at |-> "idle", on |-> <<1, "process">>, sig |-> 0, late |-> FALSE]

Start(state) ==
  /\ nextPipe = FirstPipe /\ nextProc = FirstProc
  /\ procs = Empty /\ pipes = Empty
  /\ streams = [c \in Children |-> [k \in Streams |-> 0]]
  /\ status = [c \in Children |-> NoStatus]
  /\ holder = [c \in Children |-> NoThread]
  /\ reaped = [c \in Children |-> FALSE]
  /\ started = 0
  /\ os = [c \in Children |-> "none"]
  /\ pid = [c \in Children |-> NoPid]
  /\ exit = [c \in Children |-> NoStatus]
  /\ piped = [c \in Children |-> {}]
  /\ buf = [p \in Pipes |-> 0]
  /\ program = state
  /\ call = [t \in Threads |-> Idle]
  /\ keeps = {}
  /\ answers = [c \in Children |-> {}]
  /\ misclosed = FALSE
Init   == Start("running")
Absent == Start("absent")     \* no program uses the table

Enter(t, place, what, signal, isLate) ==
  call' = [call EXCEPT ![t] = [at |-> place, on |-> what, sig |-> signal, late |-> isLate]]
Process(c)     == <<c, "process">>
Goto(t, place) == call' = [call EXCEPT ![t].at = place]
Return(t)      == call' = [call EXCEPT ![t] = Idle]
At(t, place)   == program = "running" /\ call[t].at = place
Child(t)       == call[t].on[1]      \* the process a call is about

\* Ids of children that run or have not been waited for.  Any other id may be,
\* at any time, that of a program of someone else.
Taken == {pid[c] : c \in {d \in Children : os[d] \in {"running", "ended"}}}

\* status_of: the exit status, or 256 plus the signal.
Signalled(s) == 256 + s

\* Who has each end of a pipe open.  The program's end: the table, and calls
\* that looked it up.  The other end: the child, and until spawn drops its
\* Command, this program too.
OwnEndOpen(p)   == \/ \E h \in DOMAIN pipes : pipes[h] = p
                   \/ \E t \in Threads : call[t].on = p /\ call[t].at \in {"reading", "writing", "polling"}
                   \/ p[1] \in keeps
ChildEndOpen(p) == os[p[1]] = "running" \/ p[1] \in keeps

-----------------------------------------------------------------------------
\* Faulty variants of the operations below, for trying the properties on.

\* numbers the streams as if each were a pipe
IndexedStreams(c) ==
  [k \in Streams |-> IF k \in piped[c] THEN nextPipe + (IF k = "output" THEN 1 ELSE 0) ELSE 0]
\* counts one pipe for a process
OnePipe(c) == nextPipe + 1
\* looks the process up again after the wait
AnswerIfListed(t, c, s) ==
  /\ answers' = [answers EXCEPT ![c] = @ \cup {IF c \in Range(procs) THEN s ELSE NoStatus}]
\* kill asks wait's lock whether the process is done
LockingKill(t, c) ==
  /\ holder[c] = NoThread
  /\ IF status[c] # NoStatus THEN Return(t) ELSE Goto(t, "signal")
\* try_wait that does not note that it reaped
ForgetfulNote(c) == UNCHANGED reaped
\* the Command outlives the call
KeptCommand(c) == UNCHANGED keeps
\* takes the lock and keeps it on the early return
KeptLock(t, c) == holder' = [holder EXCEPT ![c] = t]

-----------------------------------------------------------------------------
\* spawn: the pipes are made and the system starts the program.
Spawn(t) ==
  /\ At(t, "idle")
  /\ started < MaxChildren
  /\ \E ks \in Stdio, p \in Pids \ Taken :
       LET c == started + 1 IN
       /\ started' = c
       /\ os' = [os EXCEPT ![c] = "running"]
       /\ pid' = [pid EXCEPT ![c] = p]
       /\ piped' = [piped EXCEPT ![c] = ks]
       /\ keeps' = keeps \cup {c}
       /\ Enter(t, "spawned", Process(c), 0, FALSE)
  /\ UNCHANGED <<table, shared, exit, buf, program, answers, misclosed>>

\* drop(cmd): this program's copies of the child's ends are closed.
DropCommand(c) == keeps' = keeps \ {c}

\* The pipes are numbered input first; streams notes the number of each.
Numbered(c) ==
  [k \in piped[c] |-> nextPipe + (IF k = "output" /\ "input" \in piped[c] THEN 1 ELSE 0)]
NewStreams(c) ==
  [k \in Streams |-> IF k \in piped[c] THEN Numbered(c)[k] ELSE 0]
PipesAfter(c) == nextPipe + Cardinality(piped[c])

\* spawn goes on: the table gets the pipes and the process.
Insert(t) ==
  LET c == Child(t)
      made == [h \in Range(Numbered(c)) |-> <<c, CHOOSE k \in piped[c] : Numbered(c)[k] = h>>]
  IN
  /\ At(t, "spawned")
  /\ DropCommand(c)
  /\ nextPipe' = PipesAfter(c)
  /\ pipes' = [h \in DOMAIN pipes \cup DOMAIN made |->
                 IF h \in DOMAIN made THEN made[h] ELSE pipes[h]]
  /\ streams' = [streams EXCEPT ![c] = NewStreams(c)]
  /\ nextProc' = nextProc + 1
  /\ procs' = [h \in DOMAIN procs \cup {nextProc} |-> IF h = nextProc THEN c ELSE procs[h]]
  /\ Return(t)
  /\ UNCHANGED <<shared, started, os, pid, exit, piped, buf, program, answers, misclosed>>

\* stream: the handle of a process's pipe, or 0 (-1 in the code).
Stream(h, k) ==
  LET s == streams[procs[h]][k] IN IF s \in DOMAIN pipes THEN s ELSE 0

-----------------------------------------------------------------------------
\* wait and try_wait look the process up; a handle not in the table is
\* answered EBADF at once.
CallWait(t) ==
  /\ At(t, "idle")
  /\ \E h \in DOMAIN procs, how \in {"wait", "try"} :
       Enter(t, how, Process(procs[h]), 0, FALSE)
  /\ UNCHANGED <<table, shared, system, program, keeps, answers, misclosed>>

Answer(t, c, s) == answers' = [answers EXCEPT ![c] = @ \cup {s}]
Release(t, c)   == UNCHANGED holder

\* The status's lock; a status that is there already is the answer.
TakeStatus(t) ==
  LET c == Child(t) IN
  /\ At(t, "wait") \/ At(t, "try")
  /\ holder[c] = NoThread
  /\ IF status[c] # NoStatus
       THEN /\ Answer(t, c, status[c])
            /\ Release(t, c)
            /\ Return(t)
       ELSE /\ holder' = [holder EXCEPT ![c] = t]
            /\ Goto(t, IF At(t, "wait") THEN "waiting" ELSE "trying")
            /\ UNCHANGED answers
  /\ UNCHANGED <<table, status, reaped, system, program, keeps, misclosed>>

\* try_wait finds the lock taken: EAGAIN.
TryRefused(t) ==
  /\ At(t, "try")
  /\ holder[Child(t)] # NoThread
  /\ Return(t)
  /\ UNCHANGED <<table, shared, system, program, keeps, answers, misclosed>>

\* The child's own lock is only ever taken with the status's held, so it is free.
\* child.wait: the system hands over the status and forgets the process.
Reap(t) ==
  LET c == Child(t) IN
  /\ At(t, "waiting") \/ At(t, "trying")
  /\ os[c] = "ended"
  /\ os' = [os EXCEPT ![c] = "reaped"]
  /\ Goto(t, IF At(t, "waiting") THEN "waited" ELSE "tried")
  /\ UNCHANGED <<table, shared, started, pid, exit, piped, buf, program, keeps,
                 answers, misclosed>>

\* child.try_wait: still running, EAGAIN.
StillRunning(t) ==
  /\ At(t, "trying")
  /\ os[Child(t)] = "running"
  /\ holder' = [holder EXCEPT ![Child(t)] = NoThread]
  /\ Return(t)
  /\ UNCHANGED <<table, status, reaped, system, program, keeps, answers, misclosed>>

NoteReaped(c)  == reaped' = [reaped EXCEPT ![c] = TRUE]
NoteTried(c)   == reaped' = [reaped EXCEPT ![c] = TRUE]

\* reaped.store
StoreReaped(t) ==
  /\ \/ At(t, "waited") /\ NoteReaped(Child(t))
     \/ At(t, "tried") /\ NoteTried(Child(t))
  /\ Goto(t, "noted")
  /\ UNCHANGED <<table, status, holder, system, program, keeps, answers, misclosed>>

\* *done = Some(result), and the lock is released on the way out.
StoreStatus(t) ==
  LET c == Child(t) IN
  /\ At(t, "noted")
  /\ status' = [status EXCEPT ![c] = exit[c]]
  /\ holder' = [holder EXCEPT ![c] = NoThread]
  /\ Answer(t, c, exit[c])
  /\ Return(t)
  /\ UNCHANGED <<table, reaped, system, program, keeps, misclosed>>

-----------------------------------------------------------------------------
\* kill: the process is looked up; a signal outside 1..64 is refused.
CallKill(t) ==
  /\ At(t, "idle")
  /\ \E h \in DOMAIN procs, s \in Signals :
       /\ s \in 1..64
       /\ Enter(t, "kill", Process(procs[h]), s, answers[procs[h]] # {})
  /\ UNCHANGED <<table, shared, system, program, keeps, answers, misclosed>>

\* reaped.load, with no lock
CheckReaped(t, c) == Goto(t, IF reaped[c] THEN "idle" ELSE "signal")

TestKill(t) ==
  /\ At(t, "kill")
  /\ CheckReaped(t, Child(t))
  /\ UNCHANGED <<table, shared, system, program, keeps, answers, misclosed>>

\* send_signal: the system signals whoever has the id by now.  A program may
\* handle a signal that is not SIGKILL.
SendSignal(t) ==
  /\ At(t, "signal")
  /\ LET hit == {d \in Children : os[d] = "running" /\ pid[d] = pid[Child(t)]} IN
       \/ /\ os' = [d \in Children |-> IF d \in hit THEN "ended" ELSE os[d]]
          /\ exit' = [d \in Children |-> IF d \in hit THEN Signalled(call[t].sig) ELSE exit[d]]
       \/ call[t].sig # 9 /\ UNCHANGED <<os, exit>>
  /\ Return(t)
  /\ UNCHANGED <<table, shared, started, pid, piped, buf, program, keeps, answers, misclosed>>

-----------------------------------------------------------------------------
\* read, write and poll look the pipe up and go on with a reference of their own.
CallPipe(t) ==
  /\ At(t, "idle")
  /\ \E h \in DOMAIN pipes :
       \E place \in {IF pipes[h][2] = "output" THEN "reading" ELSE "writing", "polling"} :
         Enter(t, place, pipes[h], 0, FALSE)
  /\ UNCHANGED <<table, shared, system, program, keeps, answers, misclosed>>

\* read: what there is, or the end when no one can write any more.
Read(t) ==
  LET p == call[t].on IN
  /\ At(t, "reading")
  /\ buf[p] > 0 \/ ~ChildEndOpen(p)
  /\ buf' = [buf EXCEPT ![p] = 0]
  /\ Return(t)
  /\ UNCHANGED <<table, shared, started, os, pid, exit, piped, program, keeps,
                 answers, misclosed>>

\* write: as much as there is room for, or EPIPE when no one reads.
Write(t) ==
  LET p == call[t].on IN
  /\ At(t, "writing")
  /\ buf[p] < PipeSize \/ ~ChildEndOpen(p)
  /\ buf' = IF ChildEndOpen(p) THEN [buf EXCEPT ![p] = PipeSize] ELSE buf
  /\ Return(t)
  /\ UNCHANGED <<table, shared, started, os, pid, exit, piped, program, keeps,
                 answers, misclosed>>

\* poll: ready, or the time ran out.
Poll(t) ==
  /\ At(t, "polling")
  /\ Return(t)
  /\ UNCHANGED <<table, shared, system, program, keeps, answers, misclosed>>

\* exec: the system puts another program in the place of this one.
Exec(t) ==
  /\ At(t, "idle")
  /\ program' = "replaced"
  /\ UNCHANGED <<table, shared, system, call, keeps, answers, misclosed>>

\* close takes the handle out of the pipes or, if it is none, the processes.
Without(f, h) == [x \in DOMAIN f \ {h} |-> f[x]]

Close(t) ==
  /\ At(t, "idle")
  /\ \E kind \in {"pipe", "process"} :
     \E h \in IF kind = "pipe" THEN FirstPipe..nextPipe-1 ELSE FirstProc..nextProc-1 :
       IF h \in DOMAIN pipes
         THEN /\ pipes' = Without(pipes, h) /\ UNCHANGED procs
              /\ misclosed' = (misclosed \/ kind = "process")
         ELSE /\ procs' = Without(procs, h) /\ UNCHANGED pipes
              /\ misclosed' = (misclosed \/ (kind = "pipe" /\ h \in DOMAIN procs))
  /\ UNCHANGED <<nextPipe, nextProc, streams, shared, system, calls, answers>>

-----------------------------------------------------------------------------
\* The system: a program ends by itself, or of a write no one will read.
Exit(c) ==
  /\ os[c] = "running"
  /\ \/ \E s \in ExitCodes : exit' = [exit EXCEPT ![c] = s]
     \/ /\ "output" \in piped[c] /\ ~OwnEndOpen(<<c, "output">>)
        /\ exit' = [exit EXCEPT ![c] = Signalled(13)]
  /\ os' = [os EXCEPT ![c] = "ended"]
  /\ UNCHANGED <<table, shared, started, pid, piped, buf, calls, answers, misclosed>>

\* It writes to its output and reads its input.
ChildWrites(c) ==
  LET p == <<c, "output">> IN
  /\ os[c] = "running" /\ "output" \in piped[c] /\ buf[p] < PipeSize
  /\ buf' = [buf EXCEPT ![p] = @ + 1]
  /\ UNCHANGED <<table, shared, started, os, pid, exit, piped, calls, answers, misclosed>>
ChildReads(c) ==
  LET p == <<c, "input">> IN
  /\ os[c] = "running" /\ "input" \in piped[c] /\ buf[p] > 0
  /\ buf' = [buf EXCEPT ![p] = @ - 1]
  /\ UNCHANGED <<table, shared, started, os, pid, exit, piped, calls, answers, misclosed>>

Call(t) == \/ Spawn(t) \/ CallWait(t) \/ CallKill(t) \/ CallPipe(t) \/ Close(t) \/ Exec(t)
Step(t) == \/ Insert(t) \/ Reap(t) \/ StillRunning(t) \/ TryRefused(t)
           \/ StoreReaped(t) \/ StoreStatus(t) \/ TestKill(t) \/ SendSignal(t)
           \/ Read(t) \/ Write(t) \/ Poll(t)
Next == \/ \E t \in Threads : Call(t) \/ TakeStatus(t) \/ Step(t)
        \/ \E c \in Children : Exit(c) \/ ChildWrites(c) \/ ChildReads(c)

(* A thread in a call goes on whenever it can, and is not passed over for  *)
(* ever at the status's lock.  What the program and its children do is     *)
(* never owed.                                                             *)
Fairness == \A t \in Threads : WF_vars(Step(t)) /\ SF_vars(TakeStatus(t))

Spec == Init /\ [][Next]_vars /\ Fairness

-----------------------------------------------------------------------------
Places == {"idle", "spawned", "wait", "try", "waiting", "trying", "waited", "tried",
           "noted", "kill", "signal", "reading", "writing", "polling"}
Statuses == ExitCodes \cup {Signalled(s) : s \in Signals \cup {13}}

TypeOK ==
  /\ nextPipe \in FirstPipe..FirstPipe + Cardinality(Pipes)
  /\ nextProc \in FirstProc..FirstProc + MaxChildren
  /\ DOMAIN procs \subseteq FirstProc..nextProc - 1 /\ Range(procs) \subseteq Children
  /\ DOMAIN pipes \subseteq FirstPipe..nextPipe - 1 /\ Range(pipes) \subseteq Pipes
  /\ streams \in [Children -> [Streams -> {0} \cup FirstPipe..nextPipe - 1]]
  /\ status \in [Children -> Statuses \cup {NoStatus}]
  /\ holder \in [Children -> Threads \cup {NoThread}]
  /\ reaped \in [Children -> BOOLEAN]
  /\ started \in 0..MaxChildren
  /\ os \in [Children -> {"none", "running", "ended", "reaped"}]
  /\ pid \in [Children -> Pids \cup {NoPid}]
  /\ exit \in [Children -> Statuses \cup {NoStatus}]
  /\ piped \in [Children -> SUBSET Streams]
  /\ buf \in [Pipes -> 0..PipeSize]
  /\ call \in [Threads -> [at : Places, on : Children \X (Streams \cup {"process"}),
                           sig : {0} \cup Signals, late : BOOLEAN]]
  /\ program \in {"running", "replaced", "absent"}
  /\ keeps \subseteq Children

\* "the same on a second wait" (sys_procs.rs:244): every status that wait or
\* try_wait gives a thread is the one the program ended with, however many
\* threads wait at once, and whoever closes the handle meanwhile.
AnswersAgree == \A c \in Children : answers[c] \subseteq {exit[c]} /\ NoStatus \notin answers[c]

\* "a process this program started and has not waited for" (sys_procs.rs:291):
\* a kill that begins after a wait or a try_wait gave the status sends no
\* signal, for the id may be another program's.  (A kill that begins before can
\* come too late: see StrayPossible in the README.)
LateKillSendsNothing == \A t \in Threads : call[t].late => call[t].at # "signal"

\* stream gives the pipe of the stream it is asked about as long as that is
\* open, and never another: the numbers spawn notes in the process are those it
\* put the pipes under.
StreamsFound ==
  \A h \in DOMAIN procs, k \in Streams :
    LET own == {x \in DOMAIN pipes : pipes[x] = <<procs[h], k>>} IN
    IF own = {} THEN Stream(h, k) = 0 ELSE own = {Stream(h, k)}

\* close takes away what it was asked to close: called for a process it never
\* closes a pipe of another, nor called again for a pipe that is closed lets
\* go of a process.
ClosesWhatWasMeant == ~misclosed

Back(t) == call[t].at = "idle" \/ program = "replaced"

\* "It takes no lock a waiting thread holds" (sys_procs.rs:293), and try_wait
\* "does not wait" (:266): kill and try_wait return though the program runs
\* for ever and another thread waits for it.
KillAndTryReturn ==
  \A t \in Threads : call[t].at \in {"kill", "signal", "try", "trying"} ~> Back(t)

\* Once the program has ended every thread that waits for it gets its answer,
\* those behind another thread at the status's lock too.
WaitersReturn ==
  \A t \in Threads, c \in Children :
    (call[t].at \in {"wait", "waiting"} /\ Child(t) = c /\ os[c] # "running") ~> Back(t)

\* spawn drops its copies of the child's ends, so that a read of the output
\* of a program that has ended sees the end of it.
ReadersSeeTheEnd ==
  \A t \in Threads, c \in Children :
    (call[t].at = "reading" /\ call[t].on = <<c, "output">> /\ os[c] # "running") ~> Back(t)
=============================================================================
