-------------------------------- MODULE Host --------------------------------
(***************************************************************************)
(* What the hosts give a program besides its memory and sockets: the       *)
(* process table, aipl-net's relay, the server of fresh instances and, in  *)
(* the interpreter, threads and locks.  They share no state, so one        *)
(* behaviour runs one of them, and the others are absent, with no step of  *)
(* their own.                                                              *)
(***************************************************************************)
EXTENDS Naturals

CONSTANTS Threads, MaxChildren, FirstPipe, FirstProc, Pids, ExitCodes, Signals, Stdio, PipeSize,
          RelayPipe, ToSend, WireSize,
          Clients, Requests, Cap,
          LastThread, Results, FailsAt

ASSUME HostAssumption ==
  /\ Threads \subseteq Nat \ {0} /\ Pids \subseteq Nat \ {0} /\ Clients \subseteq Nat \ {0}
  /\ {MaxChildren, FirstPipe, PipeSize, RelayPipe, WireSize, Cap} \subseteq Nat \ {0}
  /\ FirstProc \in Nat /\ FirstProc > FirstPipe
  /\ ExitCodes \subseteq 0..255 /\ Signals \subseteq Nat
  /\ Stdio \subseteq SUBSET {"input", "output"}
  /\ {ToSend, Requests} \subseteq Nat
  /\ LastThread \in Nat \ {0}
  /\ "none" \notin Results /\ FailsAt \subseteq {"running", "in"}

VARIABLES
  \* HostProcs
  nextPipe, nextProc, procs, pipes, streams, status, holder, reaped, started, os, pid, exit,
  piped, buf, program, call, keeps, answers, misclosed,
  \* NetRelay
  prog, relay, farHost, wrote, down, taking, up, heard, answered, back, giving, out,
  refused, lost, dropped,
  \* ServeFresh
  host, served, serving, client, asked, got, output, heedless, code, ended, left, short,
  \* VMThreads
  word, handles, pc, target, returned, joined, machine

procVars == <<nextPipe, nextProc, procs, pipes, streams, status, holder, reaped, started, os,
              pid, exit, piped, buf, program, call, keeps, answers, misclosed>>
relayVars == <<prog, relay, farHost, wrote, down, taking, up, heard, answered, back, giving,
               out, refused, lost, dropped>>
freshVars == <<host, served, serving, client, asked, got, output, heedless, code, ended, left,
               short>>
threadVars == <<word, handles, pc, target, returned, joined, machine>>
vars == <<procVars, relayVars, freshVars, threadVars>>

Procs == INSTANCE HostProcs
Relay == INSTANCE NetRelay WITH host <- farHost, PipeSize <- RelayPipe
Fresh == INSTANCE ServeFresh
Interp == INSTANCE VMThreads WITH status <- machine

Init == \/ Procs!Init   /\ Relay!Absent /\ Fresh!Absent /\ Interp!Absent
        \/ Procs!Absent /\ Relay!Init   /\ Fresh!Absent /\ Interp!Absent
        \/ Procs!Absent /\ Relay!Absent /\ Fresh!Init   /\ Interp!Absent
        \/ Procs!Absent /\ Relay!Absent /\ Fresh!Absent /\ Interp!Init

Next == \/ Procs!Next  /\ UNCHANGED <<relayVars, freshVars, threadVars>>
        \/ Relay!Next  /\ UNCHANGED <<procVars, freshVars, threadVars>>
        \/ Fresh!Next  /\ UNCHANGED <<procVars, relayVars, threadVars>>
        \/ Interp!Next /\ UNCHANGED <<procVars, relayVars, freshVars>>

Spec == /\ Init /\ [][Next]_vars
        /\ Procs!Fairness /\ Relay!Fairness /\ Fresh!Fairness /\ Interp!Fairness

-----------------------------------------------------------------------------
\* Every variable of every part keeps its type: the tables of sys_procs.rs, the state of
\* aipl-net's relay, the server of fresh instances and the interpreter's threads.
TypeOK == Procs!TypeOK /\ Relay!TypeOK /\ Fresh!TypeOK /\ Interp!TypeOK

(***************************************************************************)
(* Processes.                                                              *)
(***************************************************************************)
\* What a program ended with is learnt once and kept (Procs::wait, Procs::try_wait):
\* every thread is given the same status, and no proc.kill that begins after one was
\* given it sends a signal, for the id may be another program's.
StatusKept == Procs!AnswersAgree /\ Procs!LateKillSendsNothing
\* The lock a waiting thread holds (Procs::wait) holds nobody up: proc.kill and
\* proc.try_wait return though the program runs on, and once it has ended every
\* thread that waits for it returns, or reads its output: the host keeps no copy of
\* the pipe's other end (Procs::spawn).
ProcessCallsReturn == Procs!KillAndTryReturn /\ Procs!WaitersReturn /\ Procs!ReadersSeeTheEnd

(***************************************************************************)
(* aipl-net.                                                               *)
(***************************************************************************)
\* The helper's one buffer and one thread lose, repeat and reorder nothing, either
\* way (relay in aipl_net.rs), the last bytes before a close included.
BytesKept == Relay!SentOnce /\ Relay!AnswersKept
\* Neither direction waits for the other to speak (Recv and Input of relay): an answer
\* comes through while the program sends nothing, and what it sends gets out unless the
\* far side goes on answering for ever (aipl_net.rs:95), or the program never again takes
\* what the pipe is full of.
BothWaysFlow == Relay!AnswerComesThrough /\ Relay!SendGetsOut

(***************************************************************************)
(* Fresh instances.                                                        *)
(***************************************************************************)
\* A client's answer is its own instance's output, whole, or the 500 after a trap, and
\* the server ends after the requests it was to serve and not before (serve_fresh).
OwnAnswerWhole == Fresh!OwnAnswerWhole /\ Fresh!EndsAfterRequests
\* A trap costs its own request only (serve_fresh): every client that waits is taken up
\* and answered, unless it goes away.
EveryoneServed == Fresh!EveryoneAnswered

(***************************************************************************)
(* The interpreter's threads.                                              *)
(***************************************************************************)
\* The interpreter's spinning atomic.lock keeps the promise of Mutex: one thread at a
\* time, and a lock that is wanted is taken while no thread fails inside.
ImplementsMutex == Interp!ImplementsMutex
=============================================================================
