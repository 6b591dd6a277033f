------------------------------ MODULE NetRelay ------------------------------
(***************************************************************************)
(* A native executable's connection to a host by name: aipl-net            *)
(* (src/bin/aipl_net.rs), a program of its own started with two pipes,     *)
(* which connects, says how that went in one byte, and relays; and         *)
(* std/net's side of it (aipl_src/std/net.aipl: helper_connect, send,      *)
(* recv, close).  Bytes are counted, not named: one thread and first-in    *)
(* first-out buffers keep their order.  Its polls answer as HostNet's      *)
(* PollIsTrue has it for one thread: readable exactly when a recv does not *)
(* wait.                                                                   *)
(***************************************************************************)
EXTENDS Naturals

CONSTANTS ToSend,    \* what the program sends in one behaviour; the host's
                     \* answers have no end
          PipeSize,  \* what a pipe holds
          WireSize   \* and a connection, each way

VARIABLES
  prog,    \* the program: "open" (connecting), "status", "idle", "receiving",
           \* "closing", "closed", or "gone" when it ended without closing
  relay,   \* aipl-net: where it is
  host,    \* the host: "open" or "closed"
  wrote, down, taking, up, heard,    \* program to host: written, in the pipe,
                                     \* in the relay's buffer, on the way, received
  answered, back, giving, out,       \* host to program: answered and not
                                     \* received, on the way, in the relay's
                                     \* buffer, in the pipe
  refused, \* the status byte was not 0
  lost,    \* a send failed (history)
  dropped  \* the host's bytes the relay let go with the connection (history)

sending   == <<wrote, down, taking, up, heard>>
answering == <<answered, back, giving, out>>
vars == <<prog, relay, host, refused, sending, answering, lost, dropped>>

Start(p) ==
  /\ prog = p /\ relay = "connecting" /\ host = "open"
  /\ wrote = 0 /\ down = 0 /\ taking = 0 /\ up = 0 /\ heard = 0
  /\ answered = 0 /\ back = 0 /\ giving = 0 /\ out = 0
  /\ refused = FALSE /\ lost = FALSE /\ dropped = 0
Init   == Start("status")
Absent == Start("absent") 

Running == relay \notin {"connecting", "ended"} /\ prog # "absent"
Ended   == relay = "ended"
\* The program's ends of the helper's pipes.
WritesInput == prog \in {"status", "idle", "receiving"}
ReadsOutput == prog \in {"status", "idle", "receiving", "closing"}
Least(a, b) == IF a < b THEN a ELSE b

-----------------------------------------------------------------------------
\* Faulty variants of the operations below, for trying the properties on.

\* receives without asking, as a thread of its own would
EagerRecv == TRUE
\* waits for the program without a limit
PatientPoll == FALSE
\* takes the end of its input for nothing to read
EndIgnored == relay' = "drain" /\ UNCHANGED <<back, giving, dropped>>
\* one send for the whole, though it may take a part
OneSend(k) == taking' = 0
\* takes the host's closing for the end of what it sent
HastyEnd == host = "closed"

-----------------------------------------------------------------------------
\* run: the connection is made, and secure, or is not; the status byte is written.
Connect ==
  /\ relay = "connecting" /\ prog # "absent"
  /\ \/ relay' = "drain" /\ UNCHANGED refused       \* OK
     \/ relay' = "ended" /\ refused' = TRUE         \* any other status: nothing follows
  /\ out' = 1
  /\ UNCHANGED <<prog, host, sending, answered, back, giving, lost, dropped>>

\* close: what the host had sent and the relay not received is gone.
CloseConnection ==
  /\ relay' = "ended"
  /\ dropped' = dropped + back + giving
  /\ back' = 0 /\ giving' = 0

\* while net.poll(h, 1, 0) == 1: there is something to receive, or the end.
Asked == back > 0 \/ host = "closed"

Drain ==
  /\ Running /\ relay = "drain"
  /\ relay' = IF Asked THEN "recv" ELSE "input"
  /\ UNCHANGED <<prog, host, refused, sending, answering, lost, dropped>>

\* net.recv: what there is, or the end.
Finished == back = 0 /\ host = "closed"

Recv ==
  /\ Running /\ relay = "recv"
  /\ \/ /\ back > 0
        /\ giving' = back /\ back' = 0
        /\ relay' = "give" /\ UNCHANGED dropped
     \/ Finished /\ CloseConnection
  /\ UNCHANGED <<prog, host, refused, sending, answered, out, lost>>

\* out.write_all and flush: it waits for room, and fails when no one reads.
Give ==
  /\ Running /\ relay = "give"
  /\ IF ~ReadsOutput
       THEN CloseConnection /\ UNCHANGED out
       ELSE /\ out < PipeSize
            /\ LET k == Least(giving, PipeSize - out) IN
                 /\ out' = out + k
                 /\ giving' = giving - k
                 /\ relay' = IF k = giving THEN "drain" ELSE "give"
            /\ UNCHANGED <<back, dropped>>
  /\ UNCHANGED <<prog, host, refused, sending, answered, lost>>

TimesOut == TRUE      \* poll(stdin, 5 ms)
EndOfInput == CloseConnection

\* It waits a moment for its input; the end of it closes the connection.
Input ==
  /\ Running /\ relay = "input"
  /\ \/ /\ down > 0
        /\ taking' = down /\ down' = 0
        /\ relay' = "send" /\ UNCHANGED <<back, giving, dropped>>
     \/ /\ down = 0 /\ ~WritesInput
        /\ EndOfInput
        /\ UNCHANGED <<down, taking>>
     \/ /\ down = 0 /\ WritesInput /\ TimesOut
        /\ relay' = "drain"
        /\ UNCHANGED <<down, taking, back, giving, dropped>>
  /\ UNCHANGED <<prog, host, refused, wrote, up, heard, answered, out, lost>>

\* net.send takes a part of it at least, and waits for room; to a host that has
\* closed it fails, at once or later.
Sent(k) == taking' = taking - k

Send ==
  /\ Running /\ relay = "send"
  /\ \/ /\ host = "open" /\ up < WireSize
        /\ \E k \in 1..Least(taking, WireSize - up) :
             /\ up' = up + k
             /\ Sent(k)
             /\ relay' = IF taking' = 0 THEN "drain" ELSE "send"
        /\ UNCHANGED <<lost, back, giving, dropped>>
     \/ /\ host = "closed"
        /\ \/ taking' = 0 /\ relay' = "drain" /\ UNCHANGED <<back, giving, dropped>>
           \/ CloseConnection /\ UNCHANGED taking
        /\ lost' = TRUE /\ UNCHANGED up
  /\ UNCHANGED <<prog, host, refused, wrote, down, heard, answered, out>>

-----------------------------------------------------------------------------
\* helper_connect: the first byte says how it went; a helper that made no
\* connection is waited for and let go of.
ReadStatus ==
  /\ prog = "status" /\ out > 0
  /\ prog' = IF refused THEN "closing" ELSE "idle"
  /\ out' = out - 1
  /\ UNCHANGED <<relay, host, refused, sending, answered, back, giving, lost, dropped>>

\* send: proc.write, which waits for room; to a helper that has ended it fails.
Write ==
  /\ prog = "idle"
  /\ wrote < ToSend /\ down < PipeSize /\ ~Ended
  /\ wrote' = wrote + 1
  /\ down' = down + 1
  /\ UNCHANGED <<prog, relay, host, refused, taking, up, heard, answering, lost, dropped>>

\* recv: what there is, or the end.
CallRecv ==
  /\ prog = "idle"
  /\ prog' = "receiving"
  /\ UNCHANGED <<relay, host, refused, sending, answering, lost, dropped>>
Receive ==
  /\ prog = "receiving"
  /\ out > 0 \/ Ended
  /\ answered' = answered - out
  /\ out' = 0
  /\ prog' = "idle"
  /\ UNCHANGED <<relay, host, refused, sending, back, giving, lost, dropped>>

\* close: close_input, and then wait for the helper to end.
Close ==
  /\ prog = "idle"
  /\ prog' = "closing"
  /\ UNCHANGED <<relay, host, refused, sending, answering, lost, dropped>>
Closed ==
  /\ prog = "closing" /\ Ended
  /\ prog' = "closed"
  /\ UNCHANGED <<relay, host, refused, sending, answering, lost, dropped>>

\* The program may end at any time, its pipes with it.
Leave ==
  /\ prog \in {"idle", "receiving", "closing"}
  /\ prog' = "gone"
  /\ UNCHANGED <<relay, host, refused, sending, answering, lost, dropped>>

-----------------------------------------------------------------------------
\* The host receives, answers, and closes.  One that closes with bytes to
\* receive resets the connection: what it sent may be gone too.
Hear ==
  /\ prog # "absent" /\ up > 0 /\ host = "open"
  /\ heard' = heard + up
  /\ up' = 0
  /\ UNCHANGED <<prog, relay, host, refused, wrote, down, taking, answering, lost, dropped>>
AnswerBack ==
  /\ Running /\ host = "open"
  /\ back < WireSize
  /\ answered' = answered + 1
  /\ back' = back + 1
  /\ UNCHANGED <<prog, relay, host, refused, sending, giving, out, lost, dropped>>
HostCloses ==
  /\ Running /\ host = "open" /\ up = 0
  /\ host' = "closed"
  /\ UNCHANGED <<prog, relay, refused, sending, answering, lost, dropped>>

RelayStep == Connect \/ Drain \/ Recv \/ Give \/ Input \/ Send
CallStep  == ReadStatus \/ Receive \/ Closed
Next == RelayStep \/ CallStep \/ Write \/ CallRecv \/ Close \/ Leave
        \/ Hear \/ AnswerBack \/ HostCloses

(* The relay and a call of the program go on when they can, and a host     *)
(* takes what reaches it.  What the program and the host do of themselves  *)
(* is never owed.                                                          *)
Fairness == WF_vars(RelayStep) /\ WF_vars(CallStep) /\ WF_vars(Hear)

Spec == Init /\ [][Next]_vars /\ Fairness

-----------------------------------------------------------------------------
TypeOK ==
  /\ prog \in {"absent", "status", "idle", "receiving", "closing", "closed", "gone"}
  /\ relay \in {"connecting", "drain", "recv", "give", "input", "send", "ended"}
  /\ host \in {"open", "closed"} /\ refused \in BOOLEAN /\ lost \in BOOLEAN
  /\ {wrote, taking, heard} \subseteq 0..ToSend
  /\ {giving, dropped} \subseteq 0..2 * WireSize
  /\ answered \in 0..(2 * WireSize + PipeSize)
  /\ {down, out} \subseteq 0..PipeSize /\ {up, back} \subseteq 0..WireSize

\* Relaying both ways in turn loses and repeats nothing: what the program wrote
\* is in the pipe, in the relay, on its way or with the host, and once the relay
\* has closed a connection that the host left open all of it is on its way.
SentOnce ==
  /\ ~lost => wrote = down + taking + up + heard
  /\ Ended /\ host = "open" /\ prog # "gone" => wrote = up + heard

\* What the host answers reaches the program, the last of it though the host
\* closed behind it, unless the program closed the connection, ended, or sent
\* to a host that had closed.
Waiting == IF prog = "status" THEN 1 ELSE 0     \* the status byte, to be read
AnswersKept ==
  /\ relay # "connecting" => answered + Waiting = back + giving + out + dropped
  /\ dropped > 0 => lost \/ prog \in {"closing", "closed", "gone"}

\* A helper does not outlive its program.
HelperEnds == (prog = "gone") ~> Ended

\* "One thread": while the program waits in recv and sends nothing, the host's
\* answer comes through.
AnswerComesThrough == (prog = "receiving" /\ back > 0) ~> (prog # "receiving")

\* And what the program sends gets out, unless the program leaves a full pipe
\* unread for good or the host goes on answering for ever: then the loop of
\* aipl_net.rs:95 need not end, and nothing is read of what the program sends.
Full == giving > 0 /\ out = PipeSize
HostNeverStops == []<><<AnswerBack>>_vars
GetsOut == (down > 0) ~> (down = 0 \/ Ended)
SendGetsOut == HostNeverStops \/ <>[]Full \/ GetsOut

\* "Moves bytes both ways until one side ends" (aipl_net.rs:88), also for a host
\* that never stops, to a program that takes all of it.
MovesBothWays == []<>(prog = "receiving") => GetsOut

\* close returns, unless the program has left a full pipe unread.
CloseReturnsIfRead == (prog = "closing") ~> (prog \in {"closed", "gone"} \/ Full)

\* "the end of its input is the helper's cue to close the connection and end"
\* (net.aipl, close): close returns.
CloseReturns == (prog = "closing") ~> (prog \in {"closed", "gone"})
=============================================================================
