------------------------------- MODULE HostNet -------------------------------
(***************************************************************************)
(* The socket table of the interpreter and of the runner (src/net.rs):     *)
(* listen, connect, accept, tls_connect, recv, send, poll and close,       *)
(* called by several threads.  A call looks its handle up under the        *)
(* table's lock and goes on, without it, on a clone of the socket, on the  *)
(* lock of a secure connection, or, in poll, on the bare number of the     *)
(* descriptor.  What a peer sends is a sequence of items: "data", and on a *)
(* secure connection "ticket", bytes that carry nothing to read.  Refused  *)
(* calls (not granted, a bad name or handle) change nothing.               *)
(***************************************************************************)
EXTENDS Naturals, Sequences, FiniteSets

CONSTANTS Threads,
          MaxSocks,   \* sockets made in one behaviour
          MaxOpened,  \* of which the first are made by listen and connect
          Fds,        \* descriptor numbers
          MaxSent,    \* data items each peer sends
          MaxTickets  \* and items that hold nothing to read

ASSUME NetAssumption ==
  /\ Threads \subseteq Nat \ {0}
  /\ MaxSocks \in Nat \ {0} /\ MaxOpened \in 1..MaxSocks
  /\ Fds \subseteq Nat \ {0} /\ Cardinality(Fds) >= MaxSocks
  /\ MaxSent \in Nat /\ MaxTickets \in Nat

Socks    == 1..MaxSocks     \* a socket and its handle: both count up
NoThread == 0
NoFd     == 0

VARIABLES
  made,      \* sockets made so far: the table's next handle
  socks,     \* the table: handle |-> "listener", "stream", "tls" or "none"
  fd,        \* the descriptor of each entry
  lock,      \* who holds the lock of a secure connection
  plain,     \* read from a secure connection and not yet given to the program
  down,      \* shut down at this end
  wire,      \* what the peer has sent and nobody has read
  sent,      \* of each peer: how much data and how many tickets it has sent
  fin,       \* the peer has closed
  got,       \* data items the program received, of each connection (history)
  gone,      \* handles close was called for (history)
  call,      \* of each thread: where it is, the socket, poll's descriptor
  told,      \* threads whose last poll said that a recv does not wait, and
             \* the socket; nobody has received from it since (history)
  alone,     \* threads that had the socket to themselves since that poll began (history)
  program    \* "running", or "left" when the program has ended

table == <<made, socks, fd>>
conns == <<lock, plain, down>>
peers == <<wire, sent, fin>>
hist  == <<got, gone>>
vars  == <<table, conns, peers, hist, call, told, alone, program>>

Idle == [at |-> "idle", on |-> 1, fd |-> NoFd]

Init ==
  /\ made = 0
  /\ socks = [s \in Socks |-> "none"]
  /\ fd = [s \in Socks |-> NoFd]
  /\ lock = [s \in Socks |-> NoThread]
  /\ plain = [s \in Socks |-> 0]
  /\ down = [s \in Socks |-> FALSE]
  /\ wire = [s \in Socks |-> <<>>]
  /\ sent = [s \in Socks |-> [data |-> 0, ticket |-> 0]]
  /\ fin = [s \in Socks |-> FALSE]
  /\ got = [s \in Socks |-> 0]
  /\ gone = {}
  /\ call = [t \in Threads |-> Idle]
  /\ told = [t \in Threads |-> 0]
  /\ alone = {}
  /\ program = "running"

At(t, place) == program = "running" /\ call[t].at = place
Sock(t)      == call[t].on
InCall(t, s) == call[t].at # "idle" /\ Sock(t) = s

\* A thread that enters a call on a socket takes it from those that had it alone.
Enter(t, place, s, n) ==
  /\ call' = [call EXCEPT ![t] = [at |-> place, on |-> s, fd |-> n]]
  /\ alone' = alone \ {u \in Threads : u # t /\ (told[u] = s \/ Sock(u) = s)}
Goto(t, place) == call' = [call EXCEPT ![t].at = place]
Return(t)      == call' = [call EXCEPT ![t] = Idle]

\* A descriptor can be read: there is something, or the end.
Over(s)     == fin[s] \/ down[s]
Readable(s) == wire[s] # <<>> \/ Over(s)

-----------------------------------------------------------------------------
\* Faulty variants of the operations below, for trying the properties on.

\* an entry that does not own its descriptor
SharedInsert(s, kind) ==
  /\ s = made + 1 /\ s \in Socks
  /\ made' = s
  /\ socks' = [socks EXCEPT ![s] = kind]
  /\ \E n \in Fds : fd' = [fd EXCEPT ![s] = n]
\* puts the secure connection in without looking again
UncheckedSwap(s) == TRUE
\* lets go of the entry without shutting the connection down
QuietClose(s) == UNCHANGED down
\* locks plain connections too
LockAll(s) == TRUE
\* takes in what the socket has and forgets it
DroppedItem(s) == UNCHANGED plain
\* takes the socket's word for it
TrustingLook(t, s) ==
  IF Readable(s) THEN Goto(t, "ready") ELSE Goto(t, "pollWait")
\* reads without waiting for bytes first
HopefulBytes(t) == TRUE

-----------------------------------------------------------------------------
\* insert: the next handle, with the lowest descriptor that is free or any other.
Insert(s, kind) ==
  /\ s = made + 1 /\ s \in Socks
  /\ made' = s
  /\ socks' = [socks EXCEPT ![s] = kind]
  /\ \E n \in Fds \ {fd[x] : x \in Socks} : fd' = [fd EXCEPT ![s] = n]

\* listen and connect
Open(t) ==
  /\ At(t, "idle")
  /\ made < MaxOpened
  /\ \E kind \in {"listener", "stream"} : Insert(made + 1, kind)
  /\ UNCHANGED <<conns, peers, hist, call, told, alone, program>>

\* accept, on a clone of the listener: it goes on if the listener is closed.
CallAccept(t) ==
  /\ At(t, "idle")
  /\ \E s \in Socks : socks[s] = "listener" /\ Enter(t, "accepting", s, NoFd)
  /\ UNCHANGED <<table, conns, peers, hist, told, program>>
Accept(t) ==
  /\ At(t, "accepting")
  /\ Insert(made + 1, "stream")
  /\ Return(t)
  /\ UNCHANGED <<conns, peers, hist, told, alone, program>>

\* Someone received from s: what polls said of it is no longer so.
Received(s) == told' = [u \in Threads |-> IF told[u] = s THEN 0 ELSE told[u]]

-----------------------------------------------------------------------------
\* tls_connect: the handshake is made on a clone, without the table.
CallTls(t) ==
  /\ At(t, "idle")
  /\ \E s \in Socks : socks[s] = "stream" /\ Enter(t, "handshake", s, NoFd)
  /\ UNCHANGED <<table, conns, peers, hist, told, program>>

Handshake(t) ==
  /\ At(t, "handshake")
  /\ \/ ~Readable(Sock(t)) /\ Goto(t, "swap")
     \/ Return(t)                        \* it fails
  /\ UNCHANGED <<table, conns, peers, hist, told, alone, program>>

\* The connection must still be there, and plain.
StillPlain(s) == socks[s] = "stream"

\* The clone takes the place of the socket, whose own descriptor is closed.
Swap(t) ==
  LET s == Sock(t) IN
  /\ At(t, "swap")
  /\ IF StillPlain(s)
       THEN /\ socks' = [socks EXCEPT ![s] = "tls"]
            /\ \E n \in Fds \ {fd[x] : x \in Socks} : fd' = [fd EXCEPT ![s] = n]
            /\ plain' = [plain EXCEPT ![s] = 0]      \* a state of its own
       ELSE UNCHANGED <<socks, fd, plain>>
  /\ Received(s)
  /\ Return(t)
  /\ UNCHANGED <<made, lock, down, peers, hist, alone, program>>

-----------------------------------------------------------------------------
Locked(s) == socks[s] = "tls"

\* recv and send look the connection up.
CallTransfer(t) ==
  /\ At(t, "idle")
  /\ \E s \in Socks, what \in {"recv", "send"} :
       /\ socks[s] \in {"stream", "tls"}
       /\ Enter(t, IF Locked(s) THEN IF what = "recv" THEN "lockRecv" ELSE "lockSend"
                   ELSE what, s, NoFd)
  /\ UNCHANGED <<table, conns, peers, hist, told, program>>

\* A plain recv waits for something, or the end.
Recv(t) ==
  LET s == Sock(t) IN
  /\ At(t, "recv")
  /\ Readable(s)
  /\ IF wire[s] # <<>>
       THEN /\ wire' = [wire EXCEPT ![s] = Tail(@)]
            /\ got' = [got EXCEPT ![s] = @ + IF Head(wire[s]) = "data" THEN 1 ELSE 0]
       ELSE UNCHANGED <<wire, got>>
  /\ Received(s)
  /\ Return(t)
  /\ UNCHANGED <<table, conns, sent, fin, gone, alone, program>>

\* send: the peer takes it, or the connection is gone.
Send(t) ==
  /\ At(t, "send")
  /\ Return(t)
  /\ UNCHANGED <<table, conns, peers, hist, told, alone, program>>

\* On a secure connection both hold its lock, recv until there is an answer.
TakeLock(t) ==
  LET s == Sock(t) IN
  /\ At(t, "lockRecv") \/ At(t, "lockSend")
  /\ lock[s] = NoThread
  /\ lock' = [lock EXCEPT ![s] = t]
  /\ Goto(t, IF At(t, "lockRecv") THEN "reading" ELSE "sending")
  /\ UNCHANGED <<table, plain, down, peers, hist, told, alone, program>>

\* read_tls and process_new_packets: an item, which may hold nothing to read.
TakeIn(s) ==
  plain' = [plain EXCEPT ![s] = @ + IF Head(wire[s]) = "data" THEN 1 ELSE 0]

ReadIn(t) ==
  LET s == Sock(t) IN
  /\ At(t, "reading")
  /\ plain[s] = 0 /\ wire[s] # <<>>
  /\ TakeIn(s)
  /\ wire' = [wire EXCEPT ![s] = Tail(@)]
  /\ UNCHANGED <<table, lock, down, sent, fin, hist, call, told, alone, program>>

RecvTls(t) ==
  LET s == Sock(t) IN
  /\ At(t, "reading")
  /\ plain[s] > 0 \/ (wire[s] = <<>> /\ Over(s))
  /\ plain' = [plain EXCEPT ![s] = 0]
  /\ got' = [got EXCEPT ![s] = @ + plain[s]]
  /\ lock' = [lock EXCEPT ![s] = NoThread]
  /\ Received(s)
  /\ Return(t)
  /\ UNCHANGED <<table, down, peers, gone, alone, program>>

SendTls(t) ==
  /\ At(t, "sending")
  /\ lock' = [lock EXCEPT ![Sock(t)] = NoThread]
  /\ Return(t)
  /\ UNCHANGED <<table, plain, down, peers, hist, told, alone, program>>

-----------------------------------------------------------------------------
\* poll(h, 1, ...): the descriptor's number, and the secure connection if it is one.
CallPoll(t) ==
  /\ At(t, "idle")
  /\ \E s \in Socks :
       /\ socks[s] # "none"
       /\ call' = [call EXCEPT ![t] = [at |-> IF Locked(s) THEN "pollTry" ELSE "pollLast",
                                       on |-> s, fd |-> fd[s]]]
       /\ alone' = (alone \ {u \in Threads : u = t \/ told[u] = s \/ Sock(u) = s})
                     \cup {u \in {t} : \A w \in Threads \ {t} : ~InCall(w, s)}
  /\ told' = [told EXCEPT ![t] = 0]
  /\ UNCHANGED <<table, conns, peers, hist, program>>

\* poll says that a recv does not wait.
Ready(t) == told' = [told EXCEPT ![t] = Sock(t)] /\ Return(t)

\* poll_raw: what the number names by now, if anything, is readable.
FdReadable(n) == \E s \in Socks : fd[s] = n /\ Readable(s)

\* Nothing to ask (not secure, or the lock is taken): the socket's answer, or
\* the time runs out, or the number is nobody's.
PollLast(t) ==
  /\ At(t, "pollLast")
  /\ \/ FdReadable(call[t].fd) /\ Ready(t)
     \/ Return(t) /\ UNCHANGED told
  /\ UNCHANGED <<table, conns, peers, hist, alone, program>>

\* fill_buf: is there something the program can read?
Look(t, s) ==
  IF plain[s] > 0 \/ (wire[s] = <<>> /\ Over(s)) THEN Goto(t, "ready") ELSE Goto(t, "pollWait")

PollTry(t) ==
  LET s == Sock(t) IN
  /\ At(t, "pollTry")
  /\ IF lock[s] # NoThread THEN Goto(t, "pollLast") ELSE Look(t, s)
  /\ UNCHANGED <<table, conns, peers, hist, told, alone, program>>

PollReady(t) ==
  /\ At(t, "ready")
  /\ Ready(t)
  /\ UNCHANGED <<table, conns, peers, hist, alone, program>>

BytesThere(t) == FdReadable(call[t].fd)

\* It waits for bytes, or its time runs out.
PollWait(t) ==
  /\ At(t, "pollWait")
  /\ \/ BytesThere(t) /\ Goto(t, "pollTake")
     \/ Return(t)
  /\ UNCHANGED <<table, conns, peers, hist, told, alone, program>>

\* A lock that is taken by now is an answer too; else it reads with the lock held,
\* and waits there if another thread took the bytes.
PollTake(t) ==
  LET s == Sock(t) IN
  /\ At(t, "pollTake")
  /\ IF lock[s] # NoThread
       THEN Goto(t, "ready") /\ UNCHANGED lock
       ELSE Goto(t, "pollIn") /\ lock' = [lock EXCEPT ![s] = t]
  /\ UNCHANGED <<table, plain, down, peers, hist, told, alone, program>>

PollIn(t) ==
  LET s == Sock(t) IN
  /\ At(t, "pollIn")
  /\ Readable(s)
  /\ lock' = [lock EXCEPT ![s] = NoThread]
  /\ IF wire[s] = <<>>
       THEN Goto(t, "ready") /\ UNCHANGED <<plain, wire>>
       ELSE /\ TakeIn(s)
            /\ wire' = [wire EXCEPT ![s] = Tail(@)]
            /\ Goto(t, "pollTry")
  /\ UNCHANGED <<table, down, sent, fin, hist, told, alone, program>>

-----------------------------------------------------------------------------
ShutDown(s) == down' = [down EXCEPT ![s] = TRUE]

\* close: the entry is taken out, and a connection shut down; a listener is
\* only let go of.  One step, as the table stays locked to the end of it, the
\* sending of close_notify included: a peer that takes nothing in may hold that
\* up, and every call with it, which is left out here.
Close(t) ==
  /\ At(t, "idle")
  /\ \E s \in Socks :
       /\ socks[s] # "none"
       /\ socks' = [socks EXCEPT ![s] = "none"]
       /\ fd' = [fd EXCEPT ![s] = NoFd]
       /\ gone' = gone \cup {s}
       /\ IF socks[s] = "listener" THEN UNCHANGED down ELSE ShutDown(s)
       /\ alone' = alone \ {u \in Threads : u # t /\ (told[u] = s \/ Sock(u) = s)}
  /\ UNCHANGED <<made, lock, plain, peers, got, call, told, program>>

\* The peer: it sends, and closes.  Nothing arrives on a socket shut down.
PeerSends(s) ==
  /\ socks[s] \in {"stream", "tls"} /\ ~fin[s] /\ ~down[s]
  /\ \E item \in {"data", "ticket"} :
       /\ IF item = "data" THEN sent[s].data < MaxSent
                           ELSE sent[s].ticket < MaxTickets /\ socks[s] = "tls"
       /\ wire' = [wire EXCEPT ![s] = Append(@, item)]
       /\ sent' = [sent EXCEPT ![s][item] = @ + 1]
  /\ UNCHANGED <<table, conns, fin, hist, call, told, alone, program>>
PeerCloses(s) ==
  /\ socks[s] \in {"stream", "tls"} /\ ~fin[s]
  /\ fin' = [fin EXCEPT ![s] = TRUE]
  /\ UNCHANGED <<table, conns, wire, sent, hist, call, told, alone, program>>

\* The program may end at any time.
Leave == /\ program = "running" /\ program' = "left"
         /\ UNCHANGED <<table, conns, peers, hist, call, told, alone>>

Call(t) == \/ Open(t) \/ CallAccept(t) \/ CallTls(t) \/ CallTransfer(t)
           \/ CallPoll(t) \/ Close(t)
Step(t) == \/ Swap(t) \/ Recv(t) \/ Send(t) \/ ReadIn(t) \/ RecvTls(t) \/ SendTls(t)
           \/ PollLast(t) \/ PollTry(t) \/ PollReady(t) \/ PollWait(t) \/ PollTake(t)
           \/ PollIn(t)
Next == \/ \E t \in Threads : Call(t) \/ Step(t) \/ TakeLock(t) \/ Accept(t) \/ Handshake(t)
        \/ \E s \in Socks : PeerSends(s) \/ PeerCloses(s)
        \/ Leave

(* A thread goes on in a call that can, and is not passed over for ever at *)
(* a connection's lock.  Connections to accept, a peer's handshake and its *)
(* data are never owed.                                                    *)
Fairness == \A t \in Threads : WF_vars(Step(t)) /\ SF_vars(TakeLock(t))

Spec == Init /\ [][Next]_vars /\ Fairness

-----------------------------------------------------------------------------
Polls  == {"pollTry", "pollLast", "pollWait", "pollTake", "pollIn", "ready"}
Places == {"idle", "accepting", "handshake", "swap", "recv", "send", "lockRecv", "lockSend",
           "reading", "sending"} \cup Polls

TypeOK ==
  /\ made \in 0..MaxSocks
  /\ socks \in [Socks -> {"none", "listener", "stream", "tls"}]
  /\ fd \in [Socks -> Fds \cup {NoFd}]
  /\ \A s, u \in Socks : s # u /\ fd[s] # NoFd => fd[s] # fd[u]
  /\ lock \in [Socks -> Threads \cup {NoThread}]
  /\ plain \in [Socks -> 0..MaxSent]
  /\ down \in [Socks -> BOOLEAN]
  /\ \A s \in Socks : Len(wire[s]) <= MaxSent + MaxTickets
  /\ sent \in [Socks -> [data : 0..MaxSent, ticket : 0..MaxTickets]]
  /\ fin \in [Socks -> BOOLEAN]
  /\ got \in [Socks -> 0..MaxSent]
  /\ gone \subseteq 1..made
  /\ call \in [Threads -> [at : Places, on : Socks, fd : Fds \cup {NoFd}]]
  /\ told \in [Threads -> 0..MaxSocks]
  /\ alone \subseteq Threads
  /\ program \in {"running", "left"}

\* A handle that was closed stays closed: a tls_connect whose handshake was
\* under way when another thread closed the connection does not bring it back.
ClosedStaysClosed == \A s \in gone : socks[s] = "none"

\* What a peer sends reaches the program once, through recv, poll's reading
\* ahead and the two together.
DataItems(w) == Cardinality({i \in DOMAIN w : w[i] = "data"})
DataIn(s) == DataItems(wire[s])
NothingLost == \A s \in Socks : got[s] + plain[s] + DataIn(s) = sent[s].data

\* "a caller that reads only when this says so is never stuck in a read"
\* (net.rs:310): after poll says that a connection can be read a recv of it has
\* an answer, though the peer sends tickets, as long as no other thread enters
\* a call on the connection.
HasAnswer(s) == Over(s) \/ plain[s] > 0 \/ DataIn(s) > 0
PollIsTrue ==
  \A t \in alone : told[t] # 0 /\ socks[told[t]] \in {"stream", "tls"} => HasAnswer(told[t])

\* The same for a caller that has the reading, but not the writing, to itself.
PollIsTrueBesideSenders ==
  \A t \in Threads : told[t] # 0 /\ socks[told[t]] = "tls" => HasAnswer(told[t])

Back(t) == call[t].at = "idle" \/ program = "left"

\* "A connection is shut down first, so a read blocked on it in another thread
\* returns" (net.rs:354), secure connections too, where the reader has the lock.
CloseWakesReaders ==
  \A t \in Threads, s \in Socks :
    (call[t].at \in {"recv", "lockRecv", "reading"} /\ Sock(t) = s /\ s \in gone) ~> Back(t)

\* A plain connection has no lock: a recv that waits for the peer does not hold
\* up another thread's send.
PlainSendNotHeldUp ==
  \A t \in Threads, s \in Socks :
    (call[t].at \in {"send", "lockSend", "sending"} /\ Sock(t) = s /\ socks[s] = "stream")
      ~> (Back(t) \/ socks[s] # "stream")

\* poll waits "for at most timeout_ms" (net.rs:305), as long as no other thread
\* uses the connection: it reads only when there are bytes.
PollReturns ==
  \A t \in Threads :
    (call[t].at \in Polls /\ t \in alone) ~> (Back(t) \/ t \notin alone)

\* None is held up by what the peer does not send.
CallsReturn == CloseWakesReaders /\ PlainSendNotHeldUp /\ PollReturns
=============================================================================
