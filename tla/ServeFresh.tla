----------------------------- MODULE ServeFresh -----------------------------
(***************************************************************************)
(* aipl-run --serve-fresh (src/bin/aipl_run.rs, serve_fresh): one instance *)
(* of the program for each connection, one after the other, its input the  *)
(* connection, its output kept back until it ends; the socket and process  *)
(* tables are the host's, made once for all instances. *)
(* An answer is as many units long as the program writes, and the host     *)
(* keeps Cap of them.  Refusals before the host listens are left out.      *)
(***************************************************************************)
EXTENDS Naturals, FiniteSets

CONSTANTS Clients,
          Requests,  \* --requests
          Cap        \* FRESH_CAP

NoClient == 0
NotEnded == 999

VARIABLES
  host,    \* "accept", "running" an instance, "answering", or it has ended:
           \* "done" or "failed"; "absent" when nothing is served
  served,  \* connections accepted
  serving, \* whose connection it is
  client,  \* of each client: "away", "queued" at the listener, "connected",
           \* "left" before its answer, or "closed" by the host
  asked,   \* clients that have sent their request
  got,     \* what each was sent: <<whose output, how much of it>>, or the 500
  output,  \* of the instance: its answer's length and how much of it is kept
  heedless,\* it goes on after a write that failed
  code,    \* what it ended with
  ended,   \* and what each client's instance did (history)
  left,    \* sockets and processes in the host's tables: who made them
  short    \* the system refused a descriptor (history)

vars == <<host, served, serving, client, asked, got, output, heedless, code, ended, left, short>>

Nothing == <<NoClient, 0, 0>>
Failure == <<NoClient, 500, 500>>     \* the bare 500

Start(h) ==
  /\ host = h /\ served = 0 /\ serving = NoClient
  /\ client = [c \in Clients |-> "away"]
  /\ asked = {}
  /\ got = [c \in Clients |-> Nothing]
  /\ output = [want |-> 0, kept |-> 0]
  /\ heedless = FALSE /\ code = 0 /\ left = {} /\ short = FALSE
  /\ ended = [c \in Clients |-> NotEnded]
Init   == Start("accept")
Absent == Start("absent")

-----------------------------------------------------------------------------
\* Faulty variants of the operations below, for trying the properties on.

\* sends what the instance wrote, whatever it ended with
AlwaysOutput == <<serving, output.want, output.kept>>
\* a trap is the host's too
TrapEndsHost == "failed"

-----------------------------------------------------------------------------
\* A client connects, sends its request, or goes away.
Connect(c) ==
  /\ host # "absent" /\ client[c] = "away"
  /\ client' = [client EXCEPT ![c] = "queued"]
  /\ UNCHANGED <<host, served, serving, asked, got, output, heedless, code, ended, left, short>>
Ask(c) ==
  /\ client[c] \in {"queued", "connected"} /\ c \notin asked
  /\ asked' = asked \cup {c}
  /\ UNCHANGED <<host, served, serving, client, got, output, heedless, code, ended, left, short>>
GoAway(c) ==
  /\ client[c] \in {"queued", "connected"}
  /\ client' = [client EXCEPT ![c] = "left"]
  /\ UNCHANGED <<host, served, serving, asked, got, output, heedless, code, ended, left, short>>

\* accept, tried again when it fails.  The system may have no descriptor left:
\* without one for its copy the connection is dropped, without one for the
\* working directory the host gives up.
Accept(c) ==
  /\ host = "accept" /\ served < Requests
  /\ client[c] = "queued"
  /\ served' = served + 1
  /\ serving' = c
  /\ output' = [want |-> 0, kept |-> 0] /\ code' = 0
  /\ heedless' \in BOOLEAN
  /\ \/ /\ client' = [client EXCEPT ![c] = "connected"]
        /\ host' = "running" /\ UNCHANGED short
     \/ /\ client' = [client EXCEPT ![c] = "closed"]
        /\ host' \in {"accept", "failed"} /\ short' = TRUE
  /\ UNCHANGED <<asked, got, ended, left>>

\* The instance writes a unit, its request read or not; one that does not fit
\* fails.
Write ==
  /\ host = "running"
  /\ output.want <= Cap
  /\ output.kept = output.want \/ heedless
  /\ output' = [want |-> output.want + 1,
                kept |-> IF output.kept < Cap THEN output.kept + 1 ELSE Cap]
  /\ UNCHANGED <<host, served, serving, client, asked, got, heedless, code, ended, left, short>>

\* It opens a socket or starts a program that it does not close or wait for.
LeaveOpen ==
  /\ host = "running"
  /\ serving \notin left
  /\ left' = left \cup {serving}
  /\ UNCHANGED <<host, served, serving, client, asked, got, output, heedless, code, ended, short>>

AfterTrap == "answering"

\* It returns or exits with 0, with a status, or traps; one that cannot be started
\* counts as a status of 1.  One that heeds a write that failed does not end well.
InstanceEnds ==
  /\ host = "running"
  /\ \/ (output.kept = output.want \/ heedless) /\ code' = 0 /\ host' = "answering"
     \/ code' = 1 /\ host' = "answering"
     \/ code' = 134 /\ host' = AfterTrap
  /\ ended' = [ended EXCEPT ![serving] = code']
  /\ UNCHANGED <<served, serving, client, asked, got, output, heedless, left, short>>

Reply == IF code = 0 THEN <<serving, output.want, output.kept>> ELSE Failure

\* write_all, whose failure is nobody's, and shutdown.
Answer ==
  /\ host = "answering"
  /\ host' = "accept"
  /\ IF client[serving] = "connected"
       THEN /\ got' = [got EXCEPT ![serving] = Reply]
            /\ client' = [client EXCEPT ![serving] = "closed"]
       ELSE UNCHANGED <<got, client>>
  /\ serving' = NoClient
  /\ UNCHANGED <<served, asked, output, heedless, code, ended, left, short>>

Finish ==
  /\ host = "accept" /\ served >= Requests
  /\ host' = "done"
  /\ UNCHANGED <<served, serving, client, asked, got, output, heedless, code, ended, left, short>>

\* Its request, or the end of its input, has reached the instance.
Heard == serving \in asked \/ client[serving] = "left"

HostStep == (\E c \in Clients : Accept(c)) \/ Answer \/ Finish
Next == HostStep \/ InstanceEnds \/ Write \/ LeaveOpen
        \/ \E c \in Clients : Connect(c) \/ Ask(c) \/ GoAway(c)

(* The host goes on when it can; an instance whose input has come ends, if *)
(* not before; and a client that waits sends its request or goes away: the *)
(* host has no limit of its own on either.                                 *)
Fairness == /\ WF_vars(HostStep) /\ WF_vars(InstanceEnds /\ Heard)
            /\ \A c \in Clients : WF_vars(Ask(c))

Spec == Init /\ [][Next]_vars /\ Fairness

-----------------------------------------------------------------------------
TypeOK ==
  /\ host \in {"absent", "accept", "running", "answering", "done", "failed"}
  /\ served \in 0..Requests /\ serving \in Clients \cup {NoClient}
  /\ client \in [Clients -> {"away", "queued", "connected", "left", "closed"}]
  /\ asked \subseteq Clients /\ left \subseteq Clients /\ short \in BOOLEAN
  /\ \A c \in Clients : got[c] \in (Clients \cup {NoClient}) \X (0..Cap+1 \cup {500}) \X (0..Cap \cup {500})
  /\ output \in [want : 0..Cap + 1, kept : 0..Cap]
  /\ heedless \in BOOLEAN /\ code \in {0, 1, 134}
  /\ ended \in [Clients -> {0, 1, 134, NotEnded}]

\* "An instance that exits with 0 has what it wrote sent; one that traps or
\* exits otherwise has the client sent a bare 500" (serve_fresh): a client is
\* sent its own instance's whole answer, or the 500, unless a program takes no
\* notice of a write that failed.
OwnAnswerWhole ==
  \A c \in Clients : got[c] # Nothing =>
    IF ended[c] = 0 THEN got[c][1] = c /\ (got[c][2] = got[c][3] \/ got[c][3] = Cap)
                    ELSE got[c] = Failure

\* --requests: the host ends after that many connections, each of them closed,
\* however the instances ended; a trap costs its own request only.
EndsAfterRequests ==
  host \in {"done", "failed"} =>
    /\ host = "failed" => short
    /\ host = "done" => /\ \A c \in Clients : client[c] # "connected"
                        /\ ~short => Cardinality({c \in Clients : ended[c] # NotEnded}) = Requests

\* Every connection the host takes up is answered or has gone away, and the
\* next one is taken up, as long as the system has descriptors.
EveryoneAnswered ==
  \A c \in Clients :
    (client[c] = "queued") ~>
      (client[c] \in {"closed", "left"} \/ host = "done" \/ short)

\* "Nothing outlives a request" (serve_fresh): when the host takes the next
\* connection nothing of an earlier instance is there.
NothingOutlives == host = "accept" => left = {}
=============================================================================
