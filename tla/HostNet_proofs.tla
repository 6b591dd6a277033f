----------------------------- MODULE HostNet_proofs -----------------------------
(* What the socket table of src/net.rs keeps, for any threads, sockets,       *)
(* descriptors and data: a closed handle stays closed, what a peer sends      *)
(* reaches the program once, and a thread that polls a connection it has to   *)
(* itself and is told that it can be read gets an answer.                     *)
EXTENDS HostNet, FiniteSetTheorems, FunctionTheorems, SequenceTheorems, TLAPS

-----------------------------------------------------------------------------
(***************************************************************************)
(* The data items of a wire: none, one more, one less.                     *)
(***************************************************************************)
Items == {"data", "ticket"}
DataAt(w) == {i \in DOMAIN w : w[i] = "data"}
Weight(item) == IF item = "data" THEN 1 ELSE 0

LEMMA ItemsFinite ==
  ASSUME NEW w \in Seq(Items)
  PROVE  IsFiniteSet(DataAt(w)) /\ DataItems(w) = Cardinality(DataAt(w)) /\ DataItems(w) \in Nat
<1>1. DOMAIN w = 1..Len(w) /\ Len(w) \in Nat
  OBVIOUS
<1>2. IsFiniteSet(1..Len(w))
  BY <1>1, FS_Interval
<1>3. DataAt(w) \in SUBSET (1..Len(w))
  BY <1>1 DEF DataAt
<1>4. IsFiniteSet(DataAt(w))
  BY <1>2, <1>3, FS_Subset
<1> QED BY <1>4, FS_CardinalityType DEF DataItems, DataAt

LEMMA NoItems == DataItems(<<>>) = 0
<1>1. {i \in DOMAIN <<>> : <<>>[i] = "data"} = {}
  OBVIOUS
<1> QED BY <1>1, FS_EmptySet DEF DataItems

LEMMA ItemsAppend ==
  ASSUME NEW w \in Seq(Items), NEW item \in Items
  PROVE  DataItems(Append(w, item)) = DataItems(w) + Weight(item)
<1> DEFINE n == Len(w) + 1
<1>1. /\ DOMAIN w = 1..Len(w) /\ DOMAIN Append(w, item) = 1..n
      /\ Len(w) \in Nat /\ n \notin DataAt(w)
      /\ \A i \in 1..Len(w) : Append(w, item)[i] = w[i]
      /\ Append(w, item)[n] = item
  BY DEF DataAt
<1>2. DataAt(Append(w, item)) = IF item = "data" THEN DataAt(w) \cup {n} ELSE DataAt(w)
  BY <1>1 DEF DataAt
<1>3. Append(w, item) \in Seq(Items)
  OBVIOUS
<1>4. /\ DataItems(Append(w, item)) = Cardinality(DataAt(Append(w, item)))
      /\ DataItems(w) = Cardinality(DataAt(w)) /\ DataItems(w) \in Nat
      /\ Cardinality(DataAt(w) \cup {n}) = Cardinality(DataAt(w)) + 1
  <2>1. IsFiniteSet(DataAt(w))
    BY ItemsFinite
  <2> QED BY <1>1, <1>3, <2>1, ItemsFinite, FS_AddElement
<1> QED BY <1>2, <1>4 DEF Weight

LEMMA ItemsTail ==
  ASSUME NEW w \in Seq(Items), w # <<>>
  PROVE  /\ Tail(w) \in Seq(Items) /\ Head(w) \in Items
         /\ DataItems(w) = DataItems(Tail(w)) + Weight(Head(w))
<1>1. /\ Tail(w) \in Seq(Items) /\ Head(w) = w[1] /\ Head(w) \in Items
      /\ Len(w) \in Nat \ {0} /\ DOMAIN w = 1..Len(w) /\ DOMAIN Tail(w) = 1..Len(w) - 1
      /\ \A i \in 1..Len(w) - 1 : Tail(w)[i] = w[i + 1]
  BY HeadTailProperties, LenProperties
<1> DEFINE after == DataAt(w) \ {1}
           next  == [i \in DataAt(Tail(w)) |-> i + 1]
<1>2. next \in Bijection(DataAt(Tail(w)), after)
  <2>1. next \in [DataAt(Tail(w)) -> after]
    BY <1>1 DEF DataAt
  <2>2. \A i, j \in DataAt(Tail(w)) : next[i] = next[j] => i = j
    BY <1>1 DEF DataAt
  <2>3. \A k \in after : \E i \in DataAt(Tail(w)) : next[i] = k
    <3> SUFFICES ASSUME NEW k \in after PROVE k - 1 \in DataAt(Tail(w)) /\ next[k - 1] = k
      OBVIOUS
    <3> QED BY <1>1 DEF DataAt
  <2> QED BY <2>1, <2>2, <2>3, Fun_IsBij
<1>3. Cardinality(DataAt(Tail(w))) = Cardinality(after)
  <2>1. IsFiniteSet(DataAt(Tail(w)))
    BY <1>1, ItemsFinite
  <2>2. ExistsBijection(DataAt(Tail(w)), after)
    BY <1>2 DEF ExistsBijection
  <2> QED BY ONLY <2>1, <2>2, FS_Bijection
<1>4. Cardinality(after) = IF 1 \in DataAt(w) THEN Cardinality(DataAt(w)) - 1 ELSE Cardinality(DataAt(w))
  BY ItemsFinite, FS_RemoveElement
<1>5. 1 \in DataAt(w) <=> Head(w) = "data"
  BY <1>1 DEF DataAt
<1>6. /\ DataItems(Tail(w)) = Cardinality(DataAt(Tail(w))) /\ DataItems(Tail(w)) \in Nat
      /\ DataItems(w) = Cardinality(DataAt(w)) /\ DataItems(w) \in Nat
  BY <1>1, ItemsFinite
<1>7. DataItems(w) = DataItems(Tail(w)) + Weight(Head(w))
  BY <1>3, <1>4, <1>5, <1>6 DEF Weight
<1> QED BY <1>1, <1>7

LEMMA AllData ==
  ASSUME NEW w \in Seq(Items), w # <<>>, \A i \in DOMAIN w : w[i] = "data"
  PROVE  DataItems(w) > 0
<1>1. Head(w) = "data"
  BY HeadTailProperties
<1>2. Tail(w) \in Seq(Items) /\ DataItems(w) = DataItems(Tail(w)) + 1
  BY <1>1, ItemsTail DEF Weight
<1>3. DataItems(Tail(w)) \in Nat
  BY <1>2, ItemsFinite
<1> QED BY <1>2, <1>3

-----------------------------------------------------------------------------
(***************************************************************************)
(* The inductive invariant.                                                *)
(***************************************************************************)
Kinds    == {"none", "listener", "stream", "tls"}
CallType == [at : Places, on : Socks, fd : Fds \cup {NoFd}]
NetTyped ==
  /\ made \in 0..MaxSocks
  /\ socks \in [Socks -> Kinds] /\ fd \in [Socks -> Fds \cup {NoFd}]
  /\ lock \in [Socks -> Threads \cup {NoThread}]
  /\ plain \in [Socks -> Nat] /\ down \in [Socks -> BOOLEAN]
  /\ wire \in [Socks -> Seq(Items)] /\ fin \in [Socks -> BOOLEAN]
  /\ sent \in [Socks -> [data : Nat, ticket : Nat]]
  /\ got \in [Socks -> Nat] /\ gone \subseteq 1..made
  /\ call \in [Threads -> CallType]
  /\ told \in [Threads -> 0..made] /\ alone \subseteq Threads

\* An entry has a descriptor of its own; a handle closed or not yet made has none;
\* and a plain connection has only data, none of it read ahead.
Entries ==
  /\ \A s \in Socks : socks[s] # "none" => s <= made /\ s \notin gone /\ fd[s] \in Fds
  /\ \A s, u \in Socks : s # u /\ fd[s] # NoFd => fd[s] # fd[u]
  /\ \A s \in Socks : s > made => wire[s] = <<>> /\ plain[s] = 0
  /\ \A s \in Socks : socks[s] = "stream" =>
       plain[s] = 0 /\ \A i \in DOMAIN wire[s] : wire[s][i] = "data"

\* A call is on a handle that was made, and one on a secure connection stays so
\* unless the handle is closed; who holds a connection's lock is in a call on it.
Secure == {"lockRecv", "lockSend", "reading", "sending",
           "pollTry", "pollWait", "pollTake", "pollIn", "ready"}
Calls ==
  /\ \A t \in Threads : /\ call[t].at # "idle" => Sock(t) <= made
                        /\ call[t].at \in Secure => socks[Sock(t)] \in {"tls", "none"}
  /\ \A s \in Socks : lock[s] # NoThread =>
       call[lock[s]].at \in {"reading", "sending", "pollIn"} /\ Sock(lock[s]) = s

\* A thread that polls a connection that it has to itself, or was told of it: no
\* other thread is in a call on it, so the descriptor is still its own and what the
\* poll found is still there.
Unshared(t, s) == \A u \in Threads \ {t} : ~InCall(u, s)
PollsAlone(t) ==
  LET s == Sock(t) IN
  /\ Unshared(t, s)
  /\ socks[s] # "none" /\ call[t].fd = fd[s]
  /\ call[t].at = "pollLast" <=> socks[s] # "tls"
  /\ call[t].at = "ready" => HasAnswer(s)
ToldAlone(t) ==
  /\ Unshared(t, told[t])
  /\ socks[told[t]] \in {"stream", "tls"} => HasAnswer(told[t])
Alone(t) == /\ call[t].at \in Polls => PollsAlone(t)
            /\ told[t] # 0 => ToldAlone(t)

NetInv == /\ NetTyped /\ Entries /\ Calls /\ NothingLost
          /\ \A t \in alone : Alone(t)

-----------------------------------------------------------------------------
\* What a step of a thread's call does to the calls.
LEMMA Goes ==
  ASSUME NetTyped, NEW t \in Threads, NEW place \in Places, Goto(t, place)
  PROVE  /\ call' \in [Threads -> CallType] /\ \A u \in Threads \ {t} : call'[u] = call[u]
         /\ call'[t].at = place /\ call'[t].on = call[t].on /\ call'[t].fd = call[t].fd
BY DEF NetTyped, Goto, CallType

\* A thread in a call is on a socket that was made.
LEMMA CalledSock ==
  ASSUME NetTyped, Calls, NEW t \in Threads, call[t].at # "idle"
  PROVE  Sock(t) \in 0..made
<1>1. Sock(t) \in 1..MaxSocks /\ made \in Nat
  BY NetAssumption DEF NetTyped, CallType, Socks, Sock
<1>2. Sock(t) <= made
  BY DEF Calls
<1> QED BY <1>1, <1>2, NetAssumption

LEMMA Returned ==
  ASSUME NetTyped, NEW t \in Threads, Return(t)
  PROVE  /\ call' \in [Threads -> CallType] /\ \A u \in Threads \ {t} : call'[u] = call[u]
         /\ call'[t].at = "idle"
<1>1. Idle \in CallType /\ Idle.at = "idle"
  BY NetAssumption DEF Idle, CallType, Places, Socks
<1> QED BY <1>1 DEF NetTyped, Return

LEMMA Enters ==
  ASSUME NetTyped, NEW t \in Threads, NEW place \in Places, NEW s \in Socks, NEW n \in Fds \cup {NoFd},
         Enter(t, place, s, n)
  PROVE  /\ call' \in [Threads -> CallType] /\ \A u \in Threads \ {t} : call'[u] = call[u]
         /\ call'[t].at = place /\ call'[t].on = s
         /\ alone' \subseteq alone
         /\ \A u \in alone' : u # t => told[u] # s /\ call[u].on # s
BY DEF NetTyped, Enter, CallType, Sock

\* Whom a step leaves alone: it changes no call of another thread into one on a
\* connection of theirs, and neither the entry nor the answer of that connection.
LEMMA LeftAlone ==
  ASSUME NetTyped, NEW u \in Threads, Alone(u), call'[u] = call[u], told'[u] \in {0, told[u]},
         \A s \in Socks : (call[u].at \in Polls /\ Sock(u) = s) \/ told[u] = s =>
            /\ \A w \in Threads \ {u} : call'[w].at # "idle" /\ call'[w].on = s => InCall(w, s)
            /\ socks'[s] = socks[s] /\ fd'[s] = fd[s]
            /\ HasAnswer(s) => HasAnswer(s)'
  PROVE  Alone(u)'
<1>1. call[u].at \in Polls => PollsAlone(u)'
  BY DEF Alone, PollsAlone, Unshared, InCall, Sock, NetTyped, CallType
<1>2. told[u] # 0 => told[u] \in Socks
  BY NetAssumption DEF NetTyped, Socks
<1>3. told'[u] # 0 => ToldAlone(u)'
  BY <1>2 DEF Alone, ToldAlone, Unshared, InCall, Sock, NetTyped, CallType
<1> QED BY <1>1, <1>3 DEF Alone

LEMMA Untouched ==
  ASSUME Entries, NothingLost, UNCHANGED <<made, socks, fd, gone, wire, plain, got, sent>>
  PROVE  Entries' /\ NothingLost'
BY DEF Entries, NothingLost, DataIn

LEMMA SameAnswers ==
  ASSUME UNCHANGED <<wire, plain, down, fin>>
  PROVE  \A s : HasAnswer(s)' = HasAnswer(s)
BY DEF HasAnswer, Over, DataIn

LEMMA CallsKeep ==
  ASSUME NetTyped, Calls, NEW t \in Threads,
         call' \in [Threads -> CallType], \A u \in Threads \ {t} : call'[u] = call[u],
         made' \in Nat, made <= made',
         \A s \in Socks : s <= made => socks'[s] = socks[s] \/ socks'[s] \in {"tls", "none"},
         call'[t].at # "idle" => call'[t].on <= made',
         call'[t].at \in Secure => socks'[call'[t].on] \in {"tls", "none"},
         \A s \in Socks : lock'[s] # NoThread =>
           \/ lock'[s] = lock[s] /\ lock[s] # t
           \/ lock'[s] = t /\ call'[t].at \in {"reading", "sending", "pollIn"} /\ call'[t].on = s
  PROVE  Calls'
<1>1. ASSUME NEW u \in Threads
      PROVE  /\ call'[u].at # "idle" => call'[u].on <= made'
             /\ call'[u].at \in Secure => socks'[call'[u].on] \in {"tls", "none"}
  <2>1. CASE u = t
    BY <2>1
  <2>2. CASE u # t
    <3>1. call'[u] = call[u] /\ call[u].on \in Socks
      BY <2>2 DEF NetTyped, CallType
    <3> QED BY <3>1 DEF Calls, Sock, NetTyped, Socks, Secure
  <2> QED BY <2>1, <2>2
<1>2. ASSUME NEW s \in Socks, lock'[s] # NoThread
      PROVE  call'[lock'[s]].at \in {"reading", "sending", "pollIn"} /\ call'[lock'[s]].on = s
  <2>1. CASE lock'[s] = lock[s] /\ lock[s] # t
    <3>1. lock[s] \in Threads \ {t} /\ call'[lock[s]] = call[lock[s]]
      BY <1>2, <2>1 DEF NetTyped
    <3> QED BY <1>2, <2>1, <3>1 DEF Calls, Sock
  <2> QED BY <1>2, <2>1
<1> QED BY <1>1, <1>2 DEF Calls, Sock

\* The same for the thread that steps: what it was told of stays, or is closed.
LEMMA OwnStep ==
  ASSUME NetTyped, NEW t \in Threads, Alone(t),
         \A u \in Threads \ {t} : call'[u] = call[u],
         told'[t] \in {0, told[t]},
         told'[t] # 0 => \/ socks'[told[t]] = "none"
                         \/ /\ socks'[told[t]] = socks[told[t]]
                            /\ HasAnswer(told[t]) => HasAnswer(told[t])',
         call'[t].at \in Polls => PollsAlone(t)'
  PROVE  Alone(t)'
<1>1. told'[t] # 0 => ToldAlone(t)'
  BY DEF Alone, ToldAlone, Unshared, InCall, Sock
<1> QED BY <1>1 DEF Alone

\* A poll by a thread that has the connection to itself finds its lock free, and
\* what a poll says of it is so.
LEMMA LockFree ==
  ASSUME NetTyped, Calls, NEW t \in Threads, PollsAlone(t), call[t].at \notin {"reading", "sending", "pollIn"}
  PROVE  lock[Sock(t)] = NoThread
<1>1. Sock(t) \in Socks /\ lock[Sock(t)] \in Threads \cup {NoThread}
  BY DEF NetTyped, CallType, Sock
<1> QED BY <1>1 DEF Calls, PollsAlone, Unshared, InCall, Sock

LEMMA ToldNow ==
  ASSUME NetTyped, NEW t \in Threads, NEW s \in Socks, s = Sock(t), PollsAlone(t),
         \A u \in Threads \ {t} : call'[u] = call[u],
         call'[t].at \notin Polls, told'[t] = s, UNCHANGED socks,
         socks[s] \in {"stream", "tls"} => HasAnswer(s)'
  PROVE  Alone(t)'
<1>1. Unshared(t, told[t])'
  BY DEF PollsAlone, Unshared, InCall, Sock
<1>2. socks'[told'[t]] \in {"stream", "tls"} => HasAnswer(told[t])'
  BY DEF HasAnswer, Over, DataIn
<1> QED BY <1>1, <1>2 DEF Alone, ToldAlone

LEMMA FdAnswer ==
  ASSUME NetTyped, Entries, NEW t \in Threads, PollsAlone(t), FdReadable(call[t].fd), socks[Sock(t)] = "stream"
  PROVE  HasAnswer(Sock(t))
<1> DEFINE s == Sock(t)
<1>1. s \in Socks /\ fd[s] \in Fds /\ call[t].fd = fd[s]
  BY DEF NetTyped, CallType, Sock, PollsAlone, Entries
<1>2. Readable(s)
  BY <1>1, NetAssumption DEF FdReadable, Entries, NoFd
<1>3. wire[s] \in Seq(Items) /\ \A i \in DOMAIN wire[s] : wire[s][i] = "data"
  BY <1>1 DEF NetTyped, Entries
<1> QED BY <1>2, <1>3, AllData DEF Readable, HasAnswer, DataIn

-----------------------------------------------------------------------------
(***************************************************************************)
(* Steps that change the calls and the locks only.                         *)
(***************************************************************************)

LEMMA CallAcceptStep ==
  ASSUME NetInv, NEW t \in Threads, CallAccept(t)
  PROVE  NetInv'
<1> USE DEF NetInv
<1>1. UNCHANGED <<table, plain, down, peers, hist>>
  BY DEF CallAccept, conns
<1>2. Entries' /\ NothingLost' /\ \A s : HasAnswer(s)' = HasAnswer(s)
  BY <1>1, Untouched, SameAnswers DEF table, peers, hist
<1>0. PICK x \in Socks, place \in {"accepting"} : socks[x] = "listener" /\ Enter(t, place, x, NoFd)
  BY DEF CallAccept
<1>3. /\ call' \in [Threads -> CallType] /\ \A u \in Threads \ {t} : call'[u] = call[u]
      /\ call'[t].at \in {"accepting"} /\ call'[t].on = x
      /\ alone' \subseteq alone
      /\ \A u \in alone' : u # t => told[u] # x /\ call[u].on # x
      /\ socks[x] = "listener"
  <2>1. NetTyped /\ NoFd \in Fds \cup {NoFd} /\ place \in Places
    BY <1>0 DEF Places
  <2> QED BY <1>0, <2>1, Enters
<1>4. NetTyped'
  BY <1>1, <1>3 DEF CallAccept, NetTyped, table, conns, peers, hist
<1>5. Calls'
  <2>1. \A y \in Socks : lock'[y] # NoThread =>
          \/ lock'[y] = lock[y] /\ lock[y] # t
          \/ lock'[y] = t /\ call'[t].at \in {"reading", "sending", "pollIn"} /\ call'[t].on = y
    BY <1>3 DEF CallAccept, Calls, NetTyped, Sock, At, conns
  <2>2. /\ call'[t].at # "idle" => call'[t].on <= made
        /\ call'[t].at \in Secure => socks[call'[t].on] \in {"tls", "none"}
    BY <1>3 DEF CallAccept, Calls, Sock, At, Secure, Locked, Entries
  <2>3. made' = made /\ socks' = socks /\ made \in Nat /\ made <= made
    BY <1>1, NetAssumption DEF table, NetTyped
  <2> QED BY <1>3, <2>1, <2>2, <2>3, CallsKeep
<1>6. ASSUME NEW u \in alone' PROVE Alone(u)'
  <2>1. CASE u # t
    BY <1>1, <1>2, <1>3, <2>1, LeftAlone DEF CallAccept, NetTyped, InCall, Sock, At, table, Ready
  <2>2. CASE u = t
    BY <1>1, <1>2, <1>3, <2>2, OwnStep DEF CallAccept, At, table, Polls
  <2> QED BY <2>1, <2>2
<1> QED BY <1>2, <1>4, <1>5, <1>6

LEMMA CallTlsStep ==
  ASSUME NetInv, NEW t \in Threads, CallTls(t)
  PROVE  NetInv'
<1> USE DEF NetInv
<1>1. UNCHANGED <<table, plain, down, peers, hist>>
  BY DEF CallTls, conns
<1>2. Entries' /\ NothingLost' /\ \A s : HasAnswer(s)' = HasAnswer(s)
  BY <1>1, Untouched, SameAnswers DEF table, peers, hist
<1>0. PICK x \in Socks, place \in {"handshake"} : socks[x] = "stream" /\ Enter(t, place, x, NoFd)
  BY DEF CallTls
<1>3. /\ call' \in [Threads -> CallType] /\ \A u \in Threads \ {t} : call'[u] = call[u]
      /\ call'[t].at \in {"handshake"} /\ call'[t].on = x
      /\ alone' \subseteq alone
      /\ \A u \in alone' : u # t => told[u] # x /\ call[u].on # x
      /\ socks[x] = "stream"
  <2>1. NetTyped /\ NoFd \in Fds \cup {NoFd} /\ place \in Places
    BY <1>0 DEF Places
  <2> QED BY <1>0, <2>1, Enters
<1>4. NetTyped'
  BY <1>1, <1>3 DEF CallTls, NetTyped, table, conns, peers, hist
<1>5. Calls'
  <2>1. \A y \in Socks : lock'[y] # NoThread =>
          \/ lock'[y] = lock[y] /\ lock[y] # t
          \/ lock'[y] = t /\ call'[t].at \in {"reading", "sending", "pollIn"} /\ call'[t].on = y
    BY <1>3 DEF CallTls, Calls, NetTyped, Sock, At, conns
  <2>2. /\ call'[t].at # "idle" => call'[t].on <= made
        /\ call'[t].at \in Secure => socks[call'[t].on] \in {"tls", "none"}
    BY <1>3 DEF CallTls, Calls, Sock, At, Secure, Locked, Entries
  <2>3. made' = made /\ socks' = socks /\ made \in Nat /\ made <= made
    BY <1>1, NetAssumption DEF table, NetTyped
  <2> QED BY <1>3, <2>1, <2>2, <2>3, CallsKeep
<1>6. ASSUME NEW u \in alone' PROVE Alone(u)'
  <2>1. CASE u # t
    BY <1>1, <1>2, <1>3, <2>1, LeftAlone DEF CallTls, NetTyped, InCall, Sock, At, table, Ready
  <2>2. CASE u = t
    BY <1>1, <1>2, <1>3, <2>2, OwnStep DEF CallTls, At, table, Polls
  <2> QED BY <2>1, <2>2
<1> QED BY <1>2, <1>4, <1>5, <1>6

LEMMA CallTransferStep ==
  ASSUME NetInv, NEW t \in Threads, CallTransfer(t)
  PROVE  NetInv'
<1> USE DEF NetInv
<1>1. UNCHANGED <<table, plain, down, peers, hist>>
  BY DEF CallTransfer, conns
<1>2. Entries' /\ NothingLost' /\ \A s : HasAnswer(s)' = HasAnswer(s)
  BY <1>1, Untouched, SameAnswers DEF table, peers, hist
<1>0. PICK x \in Socks, place \in {"recv", "send", "lockRecv", "lockSend"} :
        /\ socks[x] \in {"stream", "tls"} /\ Enter(t, place, x, NoFd)
        /\ place \in Secure => socks[x] = "tls"
  <2>1. PICK x \in Socks, what \in {"recv", "send"} :
          /\ socks[x] \in {"stream", "tls"}
          /\ Enter(t, IF Locked(x) THEN IF what = "recv" THEN "lockRecv" ELSE "lockSend" ELSE what, x, NoFd)
    BY DEF CallTransfer
  <2>2. CASE Locked(x)
    BY <2>1, <2>2 DEF Locked
  <2>3. CASE ~Locked(x)
    BY <2>1, <2>3 DEF Secure
  <2> QED BY <2>2, <2>3
<1>3. /\ call' \in [Threads -> CallType] /\ \A u \in Threads \ {t} : call'[u] = call[u]
      /\ call'[t].at \in {"recv", "send", "lockRecv", "lockSend"} /\ call'[t].on = x
      /\ alone' \subseteq alone
      /\ \A u \in alone' : u # t => told[u] # x /\ call[u].on # x
      /\ socks[x] \in {"stream", "tls"}
      /\ call'[t].at \in Secure => socks[x] = "tls"
  <2>1. NetTyped /\ NoFd \in Fds \cup {NoFd} /\ place \in Places
    BY <1>0 DEF Places
  <2> QED BY <1>0, <2>1, Enters
<1>4. NetTyped'
  BY <1>1, <1>3 DEF CallTransfer, NetTyped, table, conns, peers, hist
<1>5. Calls'
  <2>1. \A y \in Socks : lock'[y] # NoThread =>
          \/ lock'[y] = lock[y] /\ lock[y] # t
          \/ lock'[y] = t /\ call'[t].at \in {"reading", "sending", "pollIn"} /\ call'[t].on = y
    BY <1>3 DEF CallTransfer, Calls, NetTyped, Sock, At, conns
  <2>2. /\ call'[t].at # "idle" => call'[t].on <= made
        /\ call'[t].at \in Secure => socks[call'[t].on] \in {"tls", "none"}
    BY <1>3 DEF CallTransfer, Calls, Sock, At, Secure, Locked, Entries
  <2>3. made' = made /\ socks' = socks /\ made \in Nat /\ made <= made
    BY <1>1, NetAssumption DEF table, NetTyped
  <2> QED BY <1>3, <2>1, <2>2, <2>3, CallsKeep
<1>6. ASSUME NEW u \in alone' PROVE Alone(u)'
  <2>1. CASE u # t
    BY <1>1, <1>2, <1>3, <2>1, LeftAlone DEF CallTransfer, NetTyped, InCall, Sock, At, table, Ready
  <2>2. CASE u = t
    BY <1>1, <1>2, <1>3, <2>2, OwnStep DEF CallTransfer, At, table, Polls
  <2> QED BY <2>1, <2>2
<1> QED BY <1>2, <1>4, <1>5, <1>6

LEMMA HandshakeStep ==
  ASSUME NetInv, NEW t \in Threads, Handshake(t)
  PROVE  NetInv'
<1> USE DEF NetInv
<1>1. UNCHANGED <<table, plain, down, peers, hist>>
  BY DEF Handshake, conns
<1>2. Entries' /\ NothingLost' /\ \A s : HasAnswer(s)' = HasAnswer(s)
  BY <1>1, Untouched, SameAnswers DEF table, peers, hist
<1>3. /\ call' \in [Threads -> CallType] /\ \A u \in Threads \ {t} : call'[u] = call[u]
      /\ call'[t].at \in {"swap", "idle"}
      /\ call'[t].at = "swap" => call'[t].on = call[t].on
  BY Goes, Returned DEF Handshake, Places, Polls, Ready, Look
<1>4. NetTyped'
  BY <1>1, <1>3 DEF Handshake, NetTyped, table, conns, peers, hist
<1>5. Calls'
  <2>1. \A x \in Socks : lock'[x] # NoThread =>
          \/ lock'[x] = lock[x] /\ lock[x] # t
          \/ lock'[x] = t /\ call'[t].at \in {"reading", "sending", "pollIn"} /\ call'[t].on = x
    BY <1>3 DEF Handshake, Calls, NetTyped, Sock, At, conns
  <2>2. /\ call'[t].at # "idle" => call'[t].on <= made
        /\ call'[t].at \in Secure => socks[call'[t].on] \in {"tls", "none"}
    BY <1>3 DEF Handshake, Calls, Sock, At, Secure, Locked, Entries
  <2>3. made' = made /\ socks' = socks /\ made \in Nat /\ made <= made
    BY <1>1, NetAssumption DEF table, NetTyped
  <2> QED BY <1>3, <2>1, <2>2, <2>3, CallsKeep
<1>6. ASSUME NEW u \in alone' PROVE Alone(u)'
  <2>1. CASE u # t
    BY <1>1, <1>2, <1>3, <2>1, LeftAlone DEF Handshake, NetTyped, InCall, Sock, At, table, Ready
  <2>2. CASE u = t
    BY <1>1, <1>2, <1>3, <2>2, OwnStep DEF Handshake, At, table, Polls
  <2> QED BY <2>1, <2>2
<1> QED BY <1>2, <1>4, <1>5, <1>6

LEMMA SendStep ==
  ASSUME NetInv, NEW t \in Threads, Send(t)
  PROVE  NetInv'
<1> USE DEF NetInv
<1>1. UNCHANGED <<table, plain, down, peers, hist>>
  BY DEF Send, conns
<1>2. Entries' /\ NothingLost' /\ \A s : HasAnswer(s)' = HasAnswer(s)
  BY <1>1, Untouched, SameAnswers DEF table, peers, hist
<1>3. /\ call' \in [Threads -> CallType] /\ \A u \in Threads \ {t} : call'[u] = call[u]
      /\ call'[t].at = "idle"
  BY Goes, Returned DEF Send, Places, Polls, Ready, Look
<1>4. NetTyped'
  BY <1>1, <1>3 DEF Send, NetTyped, table, conns, peers, hist
<1>5. Calls'
  <2>1. \A x \in Socks : lock'[x] # NoThread =>
          \/ lock'[x] = lock[x] /\ lock[x] # t
          \/ lock'[x] = t /\ call'[t].at \in {"reading", "sending", "pollIn"} /\ call'[t].on = x
    BY <1>3 DEF Send, Calls, NetTyped, Sock, At, conns
  <2>2. /\ call'[t].at # "idle" => call'[t].on <= made
        /\ call'[t].at \in Secure => socks[call'[t].on] \in {"tls", "none"}
    BY <1>3 DEF Send, Calls, Sock, At, Secure, Locked, Entries
  <2>3. made' = made /\ socks' = socks /\ made \in Nat /\ made <= made
    BY <1>1, NetAssumption DEF table, NetTyped
  <2> QED BY <1>3, <2>1, <2>2, <2>3, CallsKeep
<1>6. ASSUME NEW u \in alone' PROVE Alone(u)'
  <2>1. CASE u # t
    BY <1>1, <1>2, <1>3, <2>1, LeftAlone DEF Send, NetTyped, InCall, Sock, At, table, Ready
  <2>2. CASE u = t
    BY <1>1, <1>2, <1>3, <2>2, OwnStep DEF Send, At, table, Polls
  <2> QED BY <2>1, <2>2
<1> QED BY <1>2, <1>4, <1>5, <1>6

LEMMA TakeLockStep ==
  ASSUME NetInv, NEW t \in Threads, TakeLock(t)
  PROVE  NetInv'
<1> USE DEF NetInv
<1>1. UNCHANGED <<table, plain, down, peers, hist>>
  BY DEF TakeLock, conns
<1>2. Entries' /\ NothingLost' /\ \A s : HasAnswer(s)' = HasAnswer(s)
  BY <1>1, Untouched, SameAnswers DEF table, peers, hist
<1>3. /\ call' \in [Threads -> CallType] /\ \A u \in Threads \ {t} : call'[u] = call[u]
      /\ call'[t].at \in {"reading", "sending"} /\ call'[t].on = call[t].on
  BY Goes, Returned DEF TakeLock, Places, Polls, Ready, Look
<1>4. NetTyped'
  BY <1>1, <1>3 DEF TakeLock, NetTyped, table, conns, peers, hist
<1>5. Calls'
  <2>1. \A x \in Socks : lock'[x] # NoThread =>
          \/ lock'[x] = lock[x] /\ lock[x] # t
          \/ lock'[x] = t /\ call'[t].at \in {"reading", "sending", "pollIn"} /\ call'[t].on = x
    BY <1>3 DEF TakeLock, Calls, NetTyped, Sock, At, conns
  <2>2. /\ call'[t].at # "idle" => call'[t].on <= made
        /\ call'[t].at \in Secure => socks[call'[t].on] \in {"tls", "none"}
    BY <1>3 DEF TakeLock, Calls, Sock, At, Secure, Locked, Entries
  <2>3. made' = made /\ socks' = socks /\ made \in Nat /\ made <= made
    BY <1>1, NetAssumption DEF table, NetTyped
  <2> QED BY <1>3, <2>1, <2>2, <2>3, CallsKeep
<1>6. ASSUME NEW u \in alone' PROVE Alone(u)'
  <2>1. CASE u # t
    BY <1>1, <1>2, <1>3, <2>1, LeftAlone DEF TakeLock, NetTyped, InCall, Sock, At, table, Ready
  <2>2. CASE u = t
    BY <1>1, <1>2, <1>3, <2>2, OwnStep DEF TakeLock, At, table, Polls
  <2> QED BY <2>1, <2>2
<1> QED BY <1>2, <1>4, <1>5, <1>6

LEMMA SendTlsStep ==
  ASSUME NetInv, NEW t \in Threads, SendTls(t)
  PROVE  NetInv'
<1> USE DEF NetInv
<1>1. UNCHANGED <<table, plain, down, peers, hist>>
  BY DEF SendTls, conns
<1>2. Entries' /\ NothingLost' /\ \A s : HasAnswer(s)' = HasAnswer(s)
  BY <1>1, Untouched, SameAnswers DEF table, peers, hist
<1>3. /\ call' \in [Threads -> CallType] /\ \A u \in Threads \ {t} : call'[u] = call[u]
      /\ call'[t].at = "idle"
  BY Goes, Returned DEF SendTls, Places, Polls, Ready, Look
<1>4. NetTyped'
  BY <1>1, <1>3 DEF SendTls, NetTyped, table, conns, peers, hist
<1>5. Calls'
  <2>1. \A x \in Socks : lock'[x] # NoThread =>
          \/ lock'[x] = lock[x] /\ lock[x] # t
          \/ lock'[x] = t /\ call'[t].at \in {"reading", "sending", "pollIn"} /\ call'[t].on = x
    BY <1>3 DEF SendTls, Calls, NetTyped, Sock, At, conns
  <2>2. /\ call'[t].at # "idle" => call'[t].on <= made
        /\ call'[t].at \in Secure => socks[call'[t].on] \in {"tls", "none"}
    BY <1>3 DEF SendTls, Calls, Sock, At, Secure, Locked, Entries
  <2>3. made' = made /\ socks' = socks /\ made \in Nat /\ made <= made
    BY <1>1, NetAssumption DEF table, NetTyped
  <2> QED BY <1>3, <2>1, <2>2, <2>3, CallsKeep
<1>6. ASSUME NEW u \in alone' PROVE Alone(u)'
  <2>1. CASE u # t
    BY <1>1, <1>2, <1>3, <2>1, LeftAlone DEF SendTls, NetTyped, InCall, Sock, At, table, Ready
  <2>2. CASE u = t
    BY <1>1, <1>2, <1>3, <2>2, OwnStep DEF SendTls, At, table, Polls
  <2> QED BY <2>1, <2>2
<1> QED BY <1>2, <1>4, <1>5, <1>6

LEMMA PollLastStep ==
  ASSUME NetInv, NEW t \in Threads, PollLast(t)
  PROVE  NetInv'
<1> USE DEF NetInv
<1>1. UNCHANGED <<table, plain, down, peers, hist>>
  BY DEF PollLast, conns
<1>2. Entries' /\ NothingLost' /\ \A s : HasAnswer(s)' = HasAnswer(s)
  BY <1>1, Untouched, SameAnswers DEF table, peers, hist
<1>3. /\ call' \in [Threads -> CallType] /\ \A u \in Threads \ {t} : call'[u] = call[u]
      /\ call'[t].at = "idle"
  BY Goes, Returned DEF PollLast, Places, Polls, Ready, Look
<1>4. NetTyped'
  <2>1. Sock(t) \in 0..made
    BY CalledSock DEF PollLast, At
  <2>2. told' \in [Threads -> 0..made]
    BY <2>1 DEF PollLast, Ready, NetTyped
  <2> QED BY <1>1, <1>3, <2>2 DEF PollLast, NetTyped, table, conns, peers, hist
<1>5. Calls'
  <2>1. \A x \in Socks : lock'[x] # NoThread =>
          \/ lock'[x] = lock[x] /\ lock[x] # t
          \/ lock'[x] = t /\ call'[t].at \in {"reading", "sending", "pollIn"} /\ call'[t].on = x
    BY <1>3 DEF PollLast, Calls, NetTyped, Sock, At, conns
  <2>2. /\ call'[t].at # "idle" => call'[t].on <= made
        /\ call'[t].at \in Secure => socks[call'[t].on] \in {"tls", "none"}
    BY <1>3 DEF PollLast, Calls, Sock, At, Secure, Locked, Entries
  <2>3. made' = made /\ socks' = socks /\ made \in Nat /\ made <= made
    BY <1>1, NetAssumption DEF table, NetTyped
  <2> QED BY <1>3, <2>1, <2>2, <2>3, CallsKeep
<1>6. ASSUME NEW u \in alone' PROVE Alone(u)'
  <2>1. CASE u # t
    BY <1>1, <1>2, <1>3, <2>1, LeftAlone DEF PollLast, NetTyped, InCall, Sock, At, table, Ready
  <2>2. CASE u = t
    <3>1. PollsAlone(t)
      BY <2>2 DEF PollLast, At, Alone, Polls
    <3>s. PICK s \in Socks : s = Sock(t)
      BY DEF NetTyped, CallType, Sock
    <3>2. CASE UNCHANGED told
      BY <1>1, <1>2, <1>3, <2>2, <3>2, OwnStep DEF PollLast, table, Polls, NetTyped
    <3>3. CASE told'[t] = s /\ (socks[s] \in {"stream", "tls"} => HasAnswer(s))
      <4>1. HasAnswer(s)' = HasAnswer(s)
        BY <1>2
      <4> QED BY <1>1, <1>3, <2>2, <3>1, <3>s, <3>3, <4>1, ToldNow DEF table, Polls
    <3>4. \/ UNCHANGED told
          \/ told'[t] = s /\ (socks[s] \in {"stream", "tls"} => HasAnswer(s))
      <4>1. socks[s] # "tls"
        BY <3>1, <3>s DEF PollLast, At, PollsAlone
      <4>2. FdReadable(call[t].fd) /\ socks[s] = "stream" => HasAnswer(s)
        BY <3>1, <3>s, FdAnswer
      <4>3. \/ FdReadable(call[t].fd) /\ told' = [told EXCEPT ![t] = s]
            \/ UNCHANGED told
        BY <3>s DEF PollLast, Ready
      <4>4. told' = [told EXCEPT ![t] = s] => told'[t] = s
        BY DEF NetTyped
      <4> QED BY <4>1, <4>2, <4>3, <4>4
    <3> QED BY <3>2, <3>3, <3>4
  <2> QED BY <2>1, <2>2
<1> QED BY <1>2, <1>4, <1>5, <1>6

LEMMA PollTryStep ==
  ASSUME NetInv, NEW t \in Threads, PollTry(t)
  PROVE  NetInv'
<1> USE DEF NetInv
<1>1. UNCHANGED <<table, plain, down, peers, hist>>
  BY DEF PollTry, conns
<1>2. Entries' /\ NothingLost' /\ \A s : HasAnswer(s)' = HasAnswer(s)
  BY <1>1, Untouched, SameAnswers DEF table, peers, hist
<1>3. /\ call' \in [Threads -> CallType] /\ \A u \in Threads \ {t} : call'[u] = call[u]
      /\ call'[t].at \in {"pollLast", "ready", "pollWait"} /\ call'[t].on = call[t].on /\ call'[t].fd = call[t].fd
  BY Goes, Returned DEF PollTry, Places, Polls, Ready, Look
<1>4. NetTyped'
  BY <1>1, <1>3 DEF PollTry, NetTyped, table, conns, peers, hist
<1>5. Calls'
  <2>1. \A x \in Socks : lock'[x] # NoThread =>
          \/ lock'[x] = lock[x] /\ lock[x] # t
          \/ lock'[x] = t /\ call'[t].at \in {"reading", "sending", "pollIn"} /\ call'[t].on = x
    BY <1>3 DEF PollTry, Calls, NetTyped, Sock, At, conns
  <2>2. /\ call'[t].at # "idle" => call'[t].on <= made
        /\ call'[t].at \in Secure => socks[call'[t].on] \in {"tls", "none"}
    BY <1>3 DEF PollTry, Calls, Sock, At, Secure, Locked, Entries
  <2>3. made' = made /\ socks' = socks /\ made \in Nat /\ made <= made
    BY <1>1, NetAssumption DEF table, NetTyped
  <2> QED BY <1>3, <2>1, <2>2, <2>3, CallsKeep
<1>6. ASSUME NEW u \in alone' PROVE Alone(u)'
  <2>1. CASE u # t
    BY <1>1, <1>2, <1>3, <2>1, LeftAlone DEF PollTry, NetTyped, InCall, Sock, At, table, Ready
  <2>2. CASE u = t
    <3>1. PollsAlone(t)
      BY <2>2 DEF PollTry, At, Alone, Polls
    <3>3. lock[Sock(t)] = NoThread
      BY <2>2, <3>1, LockFree DEF PollTry, At
    <3>4. /\ call'[t].at \in {"ready", "pollWait"}
          /\ call'[t].at = "ready" => HasAnswer(Sock(t))
      BY <3>3, Goes DEF PollTry, Look, HasAnswer, Places, Polls
    <3>2. call'[t].at \in Polls => PollsAlone(t)'
      BY <1>1, <1>2, <1>3, <3>1, <3>3, <3>4 DEF PollTry, At, PollsAlone, Unshared, InCall, Sock, table,
          peers, Polls, HasAnswer, Over, DataIn
    <3> QED BY <1>1, <1>2, <1>3, <2>2, <3>2, OwnStep DEF PollTry, At, table, HasAnswer, Over, DataIn
  <2> QED BY <2>1, <2>2
<1> QED BY <1>2, <1>4, <1>5, <1>6

LEMMA PollReadyStep ==
  ASSUME NetInv, NEW t \in Threads, PollReady(t)
  PROVE  NetInv'
<1> USE DEF NetInv
<1>1. UNCHANGED <<table, plain, down, peers, hist>>
  BY DEF PollReady, conns
<1>2. Entries' /\ NothingLost' /\ \A s : HasAnswer(s)' = HasAnswer(s)
  BY <1>1, Untouched, SameAnswers DEF table, peers, hist
<1>3. /\ call' \in [Threads -> CallType] /\ \A u \in Threads \ {t} : call'[u] = call[u]
      /\ call'[t].at = "idle"
  BY Goes, Returned DEF PollReady, Places, Polls, Ready, Look
<1>4. NetTyped'
  <2>1. Sock(t) \in 0..made
    BY CalledSock DEF PollReady, At
  <2>2. told' \in [Threads -> 0..made]
    BY <2>1 DEF PollReady, Ready, NetTyped
  <2> QED BY <1>1, <1>3, <2>2 DEF PollReady, NetTyped, table, conns, peers, hist
<1>5. Calls'
  <2>1. \A x \in Socks : lock'[x] # NoThread =>
          \/ lock'[x] = lock[x] /\ lock[x] # t
          \/ lock'[x] = t /\ call'[t].at \in {"reading", "sending", "pollIn"} /\ call'[t].on = x
    BY <1>3 DEF PollReady, Calls, NetTyped, Sock, At, conns
  <2>2. /\ call'[t].at # "idle" => call'[t].on <= made
        /\ call'[t].at \in Secure => socks[call'[t].on] \in {"tls", "none"}
    BY <1>3 DEF PollReady, Calls, Sock, At, Secure, Locked, Entries
  <2>3. made' = made /\ socks' = socks /\ made \in Nat /\ made <= made
    BY <1>1, NetAssumption DEF table, NetTyped
  <2> QED BY <1>3, <2>1, <2>2, <2>3, CallsKeep
<1>6. ASSUME NEW u \in alone' PROVE Alone(u)'
  <2>1. CASE u # t
    BY <1>1, <1>2, <1>3, <2>1, LeftAlone DEF PollReady, NetTyped, InCall, Sock, At, table, Ready
  <2>2. CASE u = t
    <3>1. PollsAlone(t)
      BY <2>2 DEF PollReady, At, Alone, Polls
    <3>s. PICK s \in Socks : s = Sock(t)
      BY DEF NetTyped, CallType, Sock
    <3>2. CASE UNCHANGED told
      BY <1>1, <1>2, <1>3, <2>2, <3>2, OwnStep DEF PollReady, table, Polls, NetTyped
    <3>3. CASE told'[t] = s /\ (socks[s] \in {"stream", "tls"} => HasAnswer(s))
      <4>1. HasAnswer(s)' = HasAnswer(s)
        BY <1>2
      <4> QED BY <1>1, <1>3, <2>2, <3>1, <3>s, <3>3, <4>1, ToldNow DEF table, Polls
    <3>4. \/ UNCHANGED told
          \/ told'[t] = s /\ (socks[s] \in {"stream", "tls"} => HasAnswer(s))
      BY <3>1, <3>s DEF PollReady, Ready, At, PollsAlone, NetTyped
    <3> QED BY <3>2, <3>3, <3>4
  <2> QED BY <2>1, <2>2
<1> QED BY <1>2, <1>4, <1>5, <1>6

LEMMA PollWaitStep ==
  ASSUME NetInv, NEW t \in Threads, PollWait(t)
  PROVE  NetInv'
<1> USE DEF NetInv
<1>1. UNCHANGED <<table, plain, down, peers, hist>>
  BY DEF PollWait, conns
<1>2. Entries' /\ NothingLost' /\ \A s : HasAnswer(s)' = HasAnswer(s)
  BY <1>1, Untouched, SameAnswers DEF table, peers, hist
<1>3. /\ call' \in [Threads -> CallType] /\ \A u \in Threads \ {t} : call'[u] = call[u]
      /\ call'[t].at \in {"pollTake", "idle"}
      /\ call'[t].at # "idle" => call'[t].on = call[t].on /\ call'[t].fd = call[t].fd
  BY Goes, Returned DEF PollWait, Places, Polls, Ready, Look
<1>4. NetTyped'
  BY <1>1, <1>3 DEF PollWait, NetTyped, table, conns, peers, hist
<1>5. Calls'
  <2>1. \A x \in Socks : lock'[x] # NoThread =>
          \/ lock'[x] = lock[x] /\ lock[x] # t
          \/ lock'[x] = t /\ call'[t].at \in {"reading", "sending", "pollIn"} /\ call'[t].on = x
    BY <1>3 DEF PollWait, Calls, NetTyped, Sock, At, conns
  <2>2. /\ call'[t].at # "idle" => call'[t].on <= made
        /\ call'[t].at \in Secure => socks[call'[t].on] \in {"tls", "none"}
    BY <1>3 DEF PollWait, Calls, Sock, At, Secure, Locked, Entries
  <2>3. made' = made /\ socks' = socks /\ made \in Nat /\ made <= made
    BY <1>1, NetAssumption DEF table, NetTyped
  <2> QED BY <1>3, <2>1, <2>2, <2>3, CallsKeep
<1>6. ASSUME NEW u \in alone' PROVE Alone(u)'
  <2>1. CASE u # t
    BY <1>1, <1>2, <1>3, <2>1, LeftAlone DEF PollWait, NetTyped, InCall, Sock, At, table, Ready
  <2>2. CASE u = t
    <3>1. PollsAlone(t)
      BY <2>2 DEF PollWait, At, Alone, Polls
    <3>2. call'[t].at \in Polls => PollsAlone(t)'
      BY <1>1, <1>2, <1>3, <3>1 DEF PollWait, At, PollsAlone, Unshared, InCall, Sock, table, peers, Polls
    <3> QED BY <1>1, <1>2, <1>3, <2>2, <3>2, OwnStep DEF PollWait, At, table
  <2> QED BY <2>1, <2>2
<1> QED BY <1>2, <1>4, <1>5, <1>6

LEMMA PollTakeStep ==
  ASSUME NetInv, NEW t \in Threads, PollTake(t)
  PROVE  NetInv'
<1> USE DEF NetInv
<1>1. UNCHANGED <<table, plain, down, peers, hist>>
  BY DEF PollTake, conns
<1>2. Entries' /\ NothingLost' /\ \A s : HasAnswer(s)' = HasAnswer(s)
  BY <1>1, Untouched, SameAnswers DEF table, peers, hist
<1>3. /\ call' \in [Threads -> CallType] /\ \A u \in Threads \ {t} : call'[u] = call[u]
      /\ call'[t].at \in {"pollIn", "ready"} /\ call'[t].on = call[t].on /\ call'[t].fd = call[t].fd
  BY Goes, Returned DEF PollTake, Places, Polls, Ready, Look
<1>4. NetTyped'
  BY <1>1, <1>3 DEF PollTake, NetTyped, table, conns, peers, hist
<1>5. Calls'
  <2>1. \A x \in Socks : lock'[x] # NoThread =>
          \/ lock'[x] = lock[x] /\ lock[x] # t
          \/ lock'[x] = t /\ call'[t].at \in {"reading", "sending", "pollIn"} /\ call'[t].on = x
    <3>1. CASE lock[Sock(t)] # NoThread
      BY <3>1 DEF PollTake, Calls, Sock, At
    <3>2. CASE lock[Sock(t)] = NoThread
      <4>1. call'[t].at = "pollIn" /\ lock' = [lock EXCEPT ![Sock(t)] = t]
        BY <3>2, Goes DEF PollTake, Places, Polls
      <4> QED BY <1>3, <4>1 DEF PollTake, Calls, NetTyped, Sock, At
    <3> QED BY <3>1, <3>2
  <2>2. /\ call'[t].at # "idle" => call'[t].on <= made
        /\ call'[t].at \in Secure => socks[call'[t].on] \in {"tls", "none"}
    BY <1>3 DEF PollTake, Calls, Sock, At, Secure, Locked, Entries
  <2>3. made' = made /\ socks' = socks /\ made \in Nat /\ made <= made
    BY <1>1, NetAssumption DEF table, NetTyped
  <2> QED BY <1>3, <2>1, <2>2, <2>3, CallsKeep
<1>6. ASSUME NEW u \in alone' PROVE Alone(u)'
  <2>1. CASE u # t
    BY <1>1, <1>2, <1>3, <2>1, LeftAlone DEF PollTake, NetTyped, InCall, Sock, At, table, Ready
  <2>2. CASE u = t
    <3>1. PollsAlone(t)
      BY <2>2 DEF PollTake, At, Alone, Polls
    <3>3. lock[Sock(t)] = NoThread
      BY <2>2, <3>1, LockFree DEF PollTake, At
    <3>4. call'[t].at = "pollIn"
      BY <3>3, Goes DEF PollTake, Places, Polls
    <3>2. call'[t].at \in Polls => PollsAlone(t)'
      BY <1>1, <1>2, <1>3, <3>1, <3>3, <3>4 DEF PollTake, At, PollsAlone, Unshared, InCall, Sock,
          table, peers, Polls
    <3> QED BY <1>1, <1>2, <1>3, <2>2, <3>2, OwnStep DEF PollTake, At, table
  <2> QED BY <2>1, <2>2
<1> QED BY <1>2, <1>4, <1>5, <1>6

LEMMA CallPollStep ==
  ASSUME NetInv, NEW t \in Threads, CallPoll(t)
  PROVE  NetInv'
<1> USE DEF NetInv
<1>1. UNCHANGED <<table, conns, peers, hist>>
  BY DEF CallPoll
<1>2. Entries' /\ NothingLost' /\ \A s : HasAnswer(s)' = HasAnswer(s)
  BY <1>1, Untouched, SameAnswers DEF table, conns, peers, hist
<1>3. PICK s \in Socks :
        /\ socks[s] # "none"
        /\ call' = [call EXCEPT ![t] = [at |-> IF Locked(s) THEN "pollTry" ELSE "pollLast", on |-> s, fd |-> fd[s]]]
        /\ alone' = (alone \ {u \in Threads : u = t \/ told[u] = s \/ Sock(u) = s})
                      \cup {u \in {t} : \A w \in Threads \ {t} : ~InCall(w, s)}
        /\ told' = [told EXCEPT ![t] = 0] /\ At(t, "idle")
  BY DEF CallPoll
<1>4. /\ call' \in [Threads -> CallType] /\ \A u \in Threads \ {t} : call'[u] = call[u]
      /\ call'[t].at = IF socks[s] = "tls" THEN "pollTry" ELSE "pollLast"
      /\ call'[t].on = s /\ call'[t].fd = fd[s]
  BY <1>3 DEF NetTyped, CallType, Places, Polls, Locked
<1>5. NetTyped'
  BY <1>1, <1>3, <1>4 DEF NetTyped, table, conns, peers, hist
<1>6. Calls'
  <2>1. \A x \in Socks : lock'[x] # NoThread => lock'[x] = lock[x] /\ lock[x] # t
    BY <1>1, <1>3 DEF Calls, At, conns
  <2>2. s <= made /\ made' = made /\ socks' = socks /\ made \in Nat /\ made <= made
    BY <1>1, <1>3, NetAssumption DEF table, NetTyped, Entries
  <2>3. call'[t].at \in Secure => socks[s] = "tls"
    BY <1>4 DEF Secure
  <2> QED BY <1>4, <2>1, <2>2, <2>3, CallsKeep
<1>7. ASSUME NEW u \in alone' PROVE Alone(u)'
  <2>1. CASE u # t
    BY <1>1, <1>2, <1>3, <1>4, <2>1, LeftAlone DEF NetTyped, InCall, Sock, table
  <2>2. CASE u = t
    <3>1. \A w \in Threads \ {t} : ~InCall(w, s)
      BY <1>3, <2>2
    <3>2. PollsAlone(t)' /\ told'[t] = 0
      BY <1>1, <1>3, <1>4, <3>1 DEF PollsAlone, Unshared, InCall, Sock, table, NetTyped
    <3> QED BY <2>2, <3>2 DEF Alone
  <2> QED BY <2>1, <2>2
<1> QED BY <1>2, <1>5, <1>6, <1>7

LEMMA LeaveStep ==
  ASSUME NetInv, Leave
  PROVE  NetInv'
<1> USE DEF NetInv
<1>1. UNCHANGED <<table, conns, peers, hist, call, told, alone>>
  BY DEF Leave
<1>2. Entries' /\ NothingLost' /\ \A s : HasAnswer(s)' = HasAnswer(s)
  BY <1>1, Untouched, SameAnswers DEF table, conns, peers, hist
<1>3. NetTyped'
  BY <1>1 DEF NetTyped, table, conns, peers, hist
<1>4. Calls'
  BY <1>1 DEF Calls, Sock, table, conns
<1>5. \A u \in alone' : Alone(u)'
  BY <1>1, <1>2, LeftAlone DEF NetTyped, InCall, Sock, table
<1> QED BY <1>2, <1>3, <1>4, <1>5

-----------------------------------------------------------------------------
(***************************************************************************)
(* Steps that change the table.                                            *)
(***************************************************************************)
\* A handle that a thread was told of is one that was made.
LEMMA ToldMade ==
  ASSUME NetTyped, NEW u \in Threads
  PROVE  /\ made \in Nat /\ made <= MaxSocks /\ told[u] \in Nat /\ told[u] <= made
         /\ told[u] # 0 => told[u] \in Socks
<1>1. made \in 0..MaxSocks /\ told[u] \in 0..made /\ MaxSocks \in Nat
  BY NetAssumption DEF NetTyped
<1> QED BY <1>1 DEF Socks

LEMMA OwnStays ==
  ASSUME NetTyped, NEW t \in Threads, Alone(t),
         \A u \in Threads \ {t} : call'[u] = call[u],
         told'[t] \in {0, told[t]}, call'[t].at \in Polls => PollsAlone(t)',
         \A s \in Socks : told'[t] = s =>
           socks'[s] = "none" \/ (socks'[s] = socks[s] /\ (HasAnswer(s) => HasAnswer(s)'))
  PROVE  Alone(t)'
<1>1. told'[t] # 0 => told'[t] = told[t] /\ told[t] \in Socks
  BY ToldMade
<1>2. ASSUME told'[t] # 0 PROVE ToldAlone(t)'
  <2>1. PICK s \in Socks : told[t] = s /\ told'[t] = s /\ ToldAlone(t) /\ s # 0
    BY <1>1, <1>2, NetAssumption DEF Alone, Socks
  <2>2. socks'[s] \in {"stream", "tls"} => HasAnswer(s)'
    BY <2>1 DEF ToldAlone
  <2>3. socks'[told'[t]] \in {"stream", "tls"} => HasAnswer(told[t])'
    BY <2>1, <2>2 DEF HasAnswer, Over, DataIn
  <2>4. Unshared(t, told[t])'
    BY <2>1 DEF ToldAlone, Unshared, InCall, Sock
  <2> QED BY <2>3, <2>4 DEF ToldAlone
<1> QED BY <1>2 DEF Alone

\* A table that grew by the handle s: what was typed stays so.
LEMMA TableGrows ==
  ASSUME NetInv, NEW s \in Socks, s = made + 1, made' = s, made \in Nat,
         call' \in [Threads -> CallType], UNCHANGED <<conns, peers, hist, told, alone>>,
         socks' \in [Socks -> Kinds], fd' \in [Socks -> Fds \cup {NoFd}]
  PROVE  /\ NetTyped' /\ made <= made' /\ made' \in Nat
         /\ \A u \in alone : /\ call[u].at \in Polls => Sock(u) # s
                             /\ told[u] # s
<1>1. made' \in 0..MaxSocks /\ made <= made' /\ made' \in Nat
  BY NetAssumption DEF Socks
<1>2. told' \in [Threads -> 0..made'] /\ gone' \subseteq 1..made'
  <2>1. 0..made \subseteq 0..made' /\ 1..made \subseteq 1..made'
    BY <1>1
  <2> QED BY <2>1 DEF NetInv, NetTyped, hist
<1>3. NetTyped'
  BY <1>1, <1>2 DEF NetInv, NetTyped, conns, peers, hist
<1>4. ASSUME NEW u \in alone PROVE (call[u].at \in Polls => Sock(u) # s) /\ told[u] # s
  <2>1. u \in Threads /\ told[u] \in Nat /\ told[u] <= made
    BY ToldMade DEF NetInv, NetTyped
  <2>2. call[u].at \in Polls => Sock(u) <= made
    BY <2>1 DEF NetInv, Calls, Polls
  <2>3. ~(s <= made)
    OBVIOUS
  <2> QED BY <2>1, <2>2, <2>3
<1> QED BY <1>1, <1>3, <1>4

\* A new entry: nobody is in a call on it, and nothing was sent to it.
LEMMA InsertKeeps ==
  ASSUME NetInv, NEW s \in Socks, NEW kind \in {"listener", "stream"}, Insert(s, kind),
         UNCHANGED <<plain, wire, gone, got, sent>>
  PROVE  /\ s = made + 1 /\ made' = s /\ made \in Nat
         /\ socks' \in [Socks -> Kinds] /\ fd' \in [Socks -> Fds \cup {NoFd}]
         /\ \A x \in Socks \ {s} : socks'[x] = socks[x] /\ fd'[x] = fd[x]
         /\ Entries' /\ NothingLost'
<1> USE DEF NetInv
<1>1. PICK n \in Fds \ {fd[x] : x \in Socks} : fd' = [fd EXCEPT ![s] = n]
  BY DEF Insert
<1>2. /\ s = made + 1 /\ made' = s /\ made \in Nat /\ socks' = [socks EXCEPT ![s] = kind]
  BY NetAssumption DEF Insert, NetTyped
<1>3. /\ socks' \in [Socks -> Kinds] /\ fd' \in [Socks -> Fds \cup {NoFd}]
      /\ \A x \in Socks \ {s} : socks'[x] = socks[x] /\ fd'[x] = fd[x]
      /\ fd'[s] = n /\ socks'[s] = kind
  BY <1>1, <1>2 DEF NetTyped, Kinds
<1>4. s \notin gone /\ wire[s] = <<>> /\ plain[s] = 0 /\ DOMAIN wire[s] = {}
  BY <1>2 DEF NetTyped, Entries
<1>5. Entries'
  <2>1. \A x \in Socks : socks'[x] # "none" => x <= made' /\ x \notin gone' /\ fd'[x] \in Fds
    BY <1>1, <1>2, <1>3, <1>4 DEF Entries, Socks
  <2>2. \A x, u \in Socks : x # u /\ fd'[x] # NoFd => fd'[x] # fd'[u]
    BY <1>1, <1>3 DEF Entries
  <2>3. \A x \in Socks : x > made' => wire'[x] = <<>> /\ plain'[x] = 0
    BY <1>2 DEF Entries, Socks
  <2>4. \A x \in Socks : socks'[x] = "stream" => plain'[x] = 0 /\ \A i \in DOMAIN wire'[x] : wire'[x][i] = "data"
    BY <1>3, <1>4 DEF Entries
  <2> QED BY <2>1, <2>2, <2>3, <2>4 DEF Entries
<1>6. NothingLost'
  BY DEF NothingLost, DataIn
<1> QED BY <1>2, <1>3, <1>5, <1>6

LEMMA OpenStep ==
  ASSUME NetInv, NEW t \in Threads, Open(t)
  PROVE  NetInv'
<1>1. UNCHANGED <<conns, peers, hist, call, told, alone>>
  BY DEF Open
<1>2. PICK s \in Socks, kind \in {"listener", "stream"} : Insert(s, kind)
  BY DEF Open, Insert
<1>3. /\ s = made + 1 /\ made' = s /\ made \in Nat
      /\ socks' \in [Socks -> Kinds] /\ fd' \in [Socks -> Fds \cup {NoFd}]
      /\ \A x \in Socks \ {s} : socks'[x] = socks[x] /\ fd'[x] = fd[x]
      /\ Entries' /\ NothingLost' /\ \A x : HasAnswer(x)' = HasAnswer(x)
  BY <1>1, <1>2, InsertKeeps, SameAnswers DEF conns, peers, hist
<1>4. /\ NetTyped' /\ made <= made' /\ made' \in Nat
      /\ \A u \in alone : (call[u].at \in Polls => Sock(u) # s) /\ told[u] # s
  <2>1. call' \in [Threads -> CallType]
    BY <1>1 DEF NetInv, NetTyped
  <2> QED BY <1>1, <1>3, <2>1, TableGrows
<1>5. Calls'
  <2>1. \A x \in Socks : lock'[x] # NoThread => lock'[x] = lock[x] /\ lock[x] # t
    BY <1>1 DEF NetInv, Calls, Open, At, conns
  <2>2. \A x \in Socks : x <= made => socks'[x] = socks[x]
    BY <1>3
  <2>3. call'[t].at = "idle" /\ call' \in [Threads -> CallType]
    BY <1>1 DEF NetInv, NetTyped, Open, At
  <2> QED BY <1>1, <1>4, <2>1, <2>2, <2>3, CallsKeep DEF NetInv, Secure
<1>6. ASSUME NEW u \in alone' PROVE Alone(u)'
  <2>1. /\ u \in alone /\ u \in Threads /\ Alone(u)
        /\ call[u].at \in Polls => Sock(u) # s
        /\ told[u] # s
    BY <1>1, <1>4 DEF NetInv, NetTyped
  <2>2. NetTyped
    BY DEF NetInv
  <2> QED BY <1>1, <1>3, <2>1, <2>2, LeftAlone DEF InCall, Sock
<1> QED BY <1>3, <1>4, <1>5, <1>6 DEF NetInv

LEMMA AcceptStep ==
  ASSUME NetInv, NEW t \in Threads, Accept(t)
  PROVE  NetInv'
<1>0. NetTyped
  BY DEF NetInv
<1>1. UNCHANGED <<conns, peers, hist, told, alone>> /\ Return(t) /\ At(t, "accepting")
  BY DEF Accept
<1>2. PICK s \in Socks : Insert(s, "stream")
  BY DEF Accept, Insert
<1>3. /\ s = made + 1 /\ made' = s /\ made \in Nat
      /\ socks' \in [Socks -> Kinds] /\ fd' \in [Socks -> Fds \cup {NoFd}]
      /\ \A x \in Socks \ {s} : socks'[x] = socks[x] /\ fd'[x] = fd[x]
      /\ Entries' /\ NothingLost' /\ \A x : HasAnswer(x)' = HasAnswer(x)
  BY <1>1, <1>2, InsertKeeps, SameAnswers DEF conns, peers, hist
<1>4. /\ call' \in [Threads -> CallType] /\ \A u \in Threads \ {t} : call'[u] = call[u]
      /\ call'[t].at = "idle"
  BY <1>0, <1>1, Returned
<1>5. /\ NetTyped' /\ made <= made' /\ made' \in Nat
      /\ \A u \in alone : (call[u].at \in Polls => Sock(u) # s) /\ told[u] # s
  BY <1>1, <1>3, <1>4, TableGrows
<1>6. Calls'
  <2>1. \A x \in Socks : lock'[x] # NoThread => lock'[x] = lock[x] /\ lock[x] # t
    BY <1>1 DEF NetInv, Calls, At, conns
  <2>2. \A x \in Socks : x <= made => socks'[x] = socks[x]
    BY <1>3
  <2> QED BY <1>4, <1>5, <2>1, <2>2, CallsKeep DEF NetInv, Secure
<1>7. ASSUME NEW u \in alone' PROVE Alone(u)'
  <2>1. /\ u \in Threads /\ u \in alone /\ Alone(u) /\ told'[u] = told[u]
        /\ call[u].at \in Polls => Sock(u) # s
        /\ told[u] # s
    BY <1>1, <1>5 DEF NetInv, NetTyped
  <2>2. CASE u # t
    BY <1>0, <1>1, <1>3, <1>4, <2>1, <2>2, LeftAlone DEF InCall, Sock
  <2>3. CASE u = t
    BY <1>0, <1>3, <1>4, <2>1, <2>3, OwnStays DEF Polls
  <2> QED BY <2>2, <2>3
<1> QED BY <1>3, <1>5, <1>6, <1>7 DEF NetInv

\* What a thread in a call on a connection does there is nothing to those that have
\* another to themselves, nor to what they were told of; what was said of this one
\* is taken back.
LEMMA ElsewhereAlone ==
  ASSUME NetInv, NEW t \in Threads, NEW s \in Socks, InCall(t, s), Received(s), UNCHANGED alone,
         \A u \in Threads \ {t} : call'[u] = call[u], call'[t].at = "idle", call[t].at \notin Polls,
         \A x \in Socks \ {s} : socks'[x] = socks[x] /\ fd'[x] = fd[x] /\ (HasAnswer(x) => HasAnswer(x)')
  PROVE  \A u \in alone' : Alone(u)'
<1>0. NetTyped
  BY DEF NetInv
<1>1. ASSUME NEW u \in alone PROVE Alone(u)'
  <2>1. /\ u \in Threads /\ Alone(u)
        /\ told'[u] \in {0, told[u]} /\ told'[u] # s
    BY NetAssumption DEF Received, NetInv, NetTyped, Socks
  <2>2. CASE u # t
    <3>1. call[u].at \in Polls => Sock(u) # s
      BY <2>1, <2>2 DEF Alone, PollsAlone, Unshared
    <3>2. told[u] # s
      <4>1. s # 0
        BY NetAssumption DEF Socks
      <4> QED BY <2>1, <2>2, <4>1 DEF Alone, ToldAlone, Unshared
    <3> QED BY <1>0, <2>1, <2>2, <3>1, <3>2, LeftAlone DEF InCall, Sock
  <2>3. CASE u = t
    BY <1>0, <2>1, <2>3, OwnStays DEF Polls
  <2> QED BY <2>2, <2>3
<1> QED BY <1>1

LEMMA ReceivedTyped ==
  ASSUME NetTyped, NEW s \in Socks, Received(s)
  PROVE  told' \in [Threads -> 0..made]
<1>1. 0 \in 0..made
  BY ToldMade DEF NetTyped
<1> QED BY <1>1 DEF NetTyped, Received

LEMMA SwapStep ==
  ASSUME NetInv, NEW t \in Threads, Swap(t)
  PROVE  NetInv'
<1>0. NetTyped /\ Entries /\ Calls /\ NothingLost
  BY DEF NetInv
<1> DEFINE s == Sock(t)
<1>1. /\ UNCHANGED <<made, lock, down, peers, hist, alone>> /\ Received(s) /\ Return(t) /\ At(t, "swap")
      /\ s \in Socks /\ s <= made /\ made \in Nat
  BY <1>0, ToldMade DEF Swap, Calls, At, NetTyped, CallType, Sock
<1>2. /\ call' \in [Threads -> CallType] /\ \A u \in Threads \ {t} : call'[u] = call[u]
      /\ call'[t].at = "idle"
  BY <1>0, <1>1, Returned
<1>3. /\ socks' \in [Socks -> Kinds] /\ fd' \in [Socks -> Fds \cup {NoFd}] /\ plain' = plain
      /\ \A x \in Socks \ {s} : socks'[x] = socks[x] /\ fd'[x] = fd[x]
      /\ socks'[s] \in {socks[s], "tls"}
      /\ Entries'
  <2>1. CASE StillPlain(s)
    <3>1. PICK n \in Fds \ {fd[x] : x \in Socks} : fd' = [fd EXCEPT ![s] = n]
      BY <2>1 DEF Swap
    <3>2. /\ socks' = [socks EXCEPT ![s] = "tls"] /\ plain' = [plain EXCEPT ![s] = 0]
          /\ socks[s] = "stream" /\ plain[s] = 0
      BY <1>0, <1>1, <2>1 DEF Swap, StillPlain, Entries
    <3>3. /\ socks' \in [Socks -> Kinds] /\ fd' \in [Socks -> Fds \cup {NoFd}] /\ plain' = plain
          /\ \A x \in Socks \ {s} : socks'[x] = socks[x] /\ fd'[x] = fd[x]
          /\ socks'[s] = "tls" /\ fd'[s] = n
      BY <1>0, <1>1, <3>1, <3>2 DEF NetTyped, Kinds
    <3>4. \A x \in Socks : socks'[x] # "none" => x <= made' /\ x \notin gone' /\ fd'[x] \in Fds
      BY <1>0, <1>1, <3>1, <3>2, <3>3 DEF Entries, hist
    <3>5. \A x, u \in Socks : x # u /\ fd'[x] # NoFd => fd'[x] # fd'[u]
      BY <1>0, <3>1, <3>3 DEF Entries
    <3> QED BY <1>0, <1>1, <3>3, <3>4, <3>5 DEF Entries, peers
  <2>2. CASE ~StillPlain(s)
    BY <1>0, <1>1, <2>2 DEF Swap, NetTyped, Entries, peers, hist
  <2> QED BY <2>1, <2>2
<1>4. NothingLost' /\ \A x : HasAnswer(x)' = HasAnswer(x)
  BY <1>0, <1>1, <1>3, SameAnswers DEF NothingLost, DataIn, peers, hist
<1>5. NetTyped'
  BY <1>0, <1>1, <1>2, <1>3, ReceivedTyped DEF NetTyped, peers, hist
<1>6. Calls'
  <2>1. \A x \in Socks : lock'[x] # NoThread => lock'[x] = lock[x] /\ lock[x] # t
    BY <1>0, <1>1 DEF Calls, At
  <2>2. made' \in Nat /\ made <= made' /\ \A x \in Socks : x <= made =>
          socks'[x] = socks[x] \/ socks'[x] \in {"tls", "none"}
    BY <1>1, <1>3
  <2> QED BY <1>0, <1>2, <2>1, <2>2, CallsKeep DEF Secure
<1>7. \A u \in alone' : Alone(u)'
  <2>1. InCall(t, s) /\ call[t].at \notin Polls
    BY <1>1 DEF At, InCall, Polls
  <2> QED BY <1>1, <1>2, <1>3, <1>4, <2>1, ElsewhereAlone
<1> QED BY <1>3, <1>4, <1>5, <1>6, <1>7 DEF NetInv

-----------------------------------------------------------------------------
(***************************************************************************)
(* Steps that read from a connection.                                      *)
(***************************************************************************)
\* An item is taken off the wire.
LEMMA ItemTaken ==
  ASSUME NetTyped, NEW s \in Socks, wire[s] # <<>>, wire' = [wire EXCEPT ![s] = Tail(@)]
  PROVE  /\ wire' \in [Socks -> Seq(Items)]
         /\ Weight(Head(wire[s])) \in Nat
         /\ DataIn(s) \in Nat /\ DataIn(s)' \in Nat
         /\ DataIn(s) = DataIn(s)' + Weight(Head(wire[s]))
         /\ \A x \in Socks \ {s} : wire'[x] = wire[x]
         /\ (\A i \in DOMAIN wire[s] : wire[s][i] = "data") => \A i \in DOMAIN wire'[s] : wire'[s][i] = "data"
<1>1. /\ wire[s] \in Seq(Items) /\ wire'[s] = Tail(wire[s])
      /\ \A x \in Socks \ {s} : wire'[x] = wire[x]
      /\ Weight(Head(wire[s])) \in Nat
  BY DEF NetTyped, Weight
<1>2. /\ Tail(wire[s]) \in Seq(Items)
      /\ DataItems(wire[s]) = DataItems(Tail(wire[s])) + Weight(Head(wire[s]))
  BY <1>1, ItemsTail
<1>3. DataItems(wire[s]) \in Nat /\ DataItems(Tail(wire[s])) \in Nat
  BY <1>1, <1>2, ItemsFinite
<1>4. wire' \in [Socks -> Seq(Items)]
  BY <1>2 DEF NetTyped
<1>5. (\A i \in DOMAIN wire[s] : wire[s][i] = "data") => \A i \in DOMAIN Tail(wire[s]) : Tail(wire[s])[i] = "data"
  <2>1. /\ DOMAIN wire[s] = 1..Len(wire[s]) /\ DOMAIN Tail(wire[s]) = 1..Len(wire[s]) - 1
        /\ Len(wire[s]) \in Nat
        /\ \A i \in 1..Len(wire[s]) - 1 : Tail(wire[s])[i] = wire[s][i + 1]
    BY <1>1, HeadTailProperties, LenProperties
  <2> QED BY <2>1
<1>6. DataIn(s) = DataItems(wire[s]) /\ DataIn(s)' = DataItems(wire'[s])
  BY DEF DataIn
<1> QED BY <1>1, <1>2, <1>3, <1>4, <1>5, <1>6

\* A wire changes, and a plain connection's still holds only data.
LEMMA WireChanges ==
  ASSUME NetTyped, Entries, NEW s \in Socks, s <= made, UNCHANGED <<made, socks, fd, plain, gone>>,
         \A x \in Socks \ {s} : wire'[x] = wire[x],
         socks[s] = "stream" => \A i \in DOMAIN wire'[s] : wire'[s][i] = "data"
  PROVE  Entries'
<1>1. \A x \in Socks : x > made => x # s
  BY ToldMade DEF NetTyped, Socks
<1>2. /\ \A x \in Socks : socks'[x] # "none" => x <= made' /\ x \notin gone' /\ fd'[x] \in Fds
      /\ \A x, u \in Socks : x # u /\ fd'[x] # NoFd => fd'[x] # fd'[u]
  BY DEF Entries
<1>3. \A x \in Socks : x > made' => wire'[x] = <<>> /\ plain'[x] = 0
  BY <1>1 DEF Entries
<1>4. \A x \in Socks : socks'[x] = "stream" => plain'[x] = 0
  BY DEF Entries
<1>5. ASSUME NEW x \in Socks, socks'[x] = "stream" PROVE \A i \in DOMAIN wire'[x] : wire'[x][i] = "data"
  <2>1. CASE x = s
    BY <1>5, <2>1
  <2>2. CASE x # s
    BY <1>5, <2>2 DEF Entries
  <2> QED BY <2>1, <2>2
<1> QED BY <1>2, <1>3, <1>4, <1>5 DEF Entries

LEMMA RecvStep ==
  ASSUME NetInv, NEW t \in Threads, Recv(t)
  PROVE  NetInv'
<1>0. NetTyped /\ Entries /\ Calls /\ NothingLost
  BY DEF NetInv
<1>s. PICK s \in Socks : s = Sock(t)
  BY <1>0 DEF NetTyped, CallType, Sock
<1>1. /\ UNCHANGED <<table, conns, sent, fin, gone, alone>> /\ Received(s) /\ Return(t) /\ At(t, "recv")
      /\ s <= made /\ made \in Nat
  BY <1>0, <1>s, ToldMade DEF Recv, Calls, At, NetTyped, CallType, Sock
<1>2. /\ call' \in [Threads -> CallType] /\ \A u \in Threads \ {t} : call'[u] = call[u]
      /\ call'[t].at = "idle"
  BY <1>0, <1>1, Returned
<1>3. /\ wire' \in [Socks -> Seq(Items)] /\ got' \in [Socks -> Nat]
      /\ \A x \in Socks \ {s} : wire'[x] = wire[x]
      /\ Entries' /\ NothingLost'
  <2>1. CASE wire[s] # <<>>
    <3>1. /\ wire' = [wire EXCEPT ![s] = Tail(@)]
          /\ got' = [got EXCEPT ![s] = @ + Weight(Head(wire[s]))]
      BY <1>s, <2>1 DEF Recv, Weight
    <3>2. /\ wire' \in [Socks -> Seq(Items)]
          /\ Weight(Head(wire[s])) \in Nat
          /\ DataIn(s) \in Nat /\ DataIn(s)' \in Nat
          /\ DataIn(s) = DataIn(s)' + Weight(Head(wire[s]))
          /\ \A x \in Socks \ {s} : wire'[x] = wire[x]
          /\ (\A i \in DOMAIN wire[s] : wire[s][i] = "data") => \A i \in DOMAIN wire'[s] : wire'[s][i] = "data"
      BY <1>0, <1>1, <2>1, <3>1, ItemTaken
    <3>3. /\ got' \in [Socks -> Nat] /\ got'[s] = got[s] + Weight(Head(wire[s]))
          /\ \A x \in Socks \ {s} : got'[x] = got[x]
          /\ got[s] \in Nat /\ plain[s] \in Nat
      BY <1>0, <1>1, <3>1, <3>2 DEF NetTyped
    <3>4. Entries'
      <4>1. socks[s] = "stream" => \A i \in DOMAIN wire'[s] : wire'[s][i] = "data"
        BY <1>0, <3>2 DEF Entries
      <4> QED BY <1>0, <1>1, <3>2, <4>1, WireChanges DEF table, conns
    <3>5. NothingLost'
      <4>1. got'[s] + plain'[s] + DataIn(s)' = sent'[s].data
        BY <1>0, <1>1, <3>2, <3>3 DEF NothingLost, conns
      <4>2. \A x \in Socks \ {s} : got'[x] + plain'[x] + DataIn(x)' = sent'[x].data
        BY <1>0, <1>1, <3>2, <3>3 DEF NothingLost, conns, DataIn
      <4>3. \A x \in Socks : x = s => got'[x] + plain'[x] + DataIn(x)' = sent'[x].data
        BY <4>1 DEF DataIn
      <4> QED BY <4>2, <4>3 DEF NothingLost
    <3> QED BY <3>2, <3>3, <3>4, <3>5
  <2>2. CASE wire[s] = <<>>
    <3>1. UNCHANGED <<wire, got>>
      BY <1>s, <2>2 DEF Recv
    <3> QED BY <1>0, <1>1, <3>1, Untouched DEF NetTyped, table, conns
  <2> QED BY <2>1, <2>2
<1>4. NetTyped'
  BY <1>0, <1>1, <1>2, <1>3, ReceivedTyped DEF NetTyped, table, conns
<1>5. Calls'
  <2>1. \A x \in Socks : lock'[x] # NoThread => lock'[x] = lock[x] /\ lock[x] # t
    BY <1>0, <1>1 DEF Calls, At, conns
  <2>2. made' = made /\ socks' = socks /\ made <= made
    BY <1>1 DEF table
  <2> QED BY <1>0, <1>1, <1>2, <2>1, <2>2, CallsKeep DEF Secure
<1>6. \A u \in alone' : Alone(u)'
  <2>1. InCall(t, s) /\ call[t].at \notin Polls
    BY <1>s, <1>1 DEF At, InCall, Polls
  <2>2. \A x \in Socks \ {s} : HasAnswer(x) => HasAnswer(x)'
    BY <1>1, <1>3 DEF HasAnswer, Over, DataIn, conns
  <2>3. \A x \in Socks \ {s} : socks'[x] = socks[x] /\ fd'[x] = fd[x]
    BY <1>1 DEF table
  <2> QED BY <1>1, <1>2, <2>1, <2>2, <2>3, ElsewhereAlone
<1> QED BY <1>3, <1>4, <1>5, <1>6 DEF NetInv

LEMMA RecvTlsStep ==
  ASSUME NetInv, NEW t \in Threads, RecvTls(t)
  PROVE  NetInv'
<1>0. NetTyped /\ Entries /\ Calls /\ NothingLost
  BY DEF NetInv
<1> DEFINE s == Sock(t)
<1>1. /\ UNCHANGED <<table, down, peers, gone, alone>> /\ Received(s) /\ Return(t) /\ At(t, "reading")
      /\ s \in Socks /\ s <= made /\ made \in Nat
      /\ plain' = [plain EXCEPT ![s] = 0] /\ got' = [got EXCEPT ![s] = @ + plain[s]]
      /\ lock' = [lock EXCEPT ![s] = NoThread]
  BY <1>0, ToldMade DEF RecvTls, Calls, At, NetTyped, CallType, Sock
<1>2. /\ call' \in [Threads -> CallType] /\ \A u \in Threads \ {t} : call'[u] = call[u]
      /\ call'[t].at = "idle"
  BY <1>0, <1>1, Returned
<1>3. /\ plain' \in [Socks -> Nat] /\ got' \in [Socks -> Nat] /\ lock' \in [Socks -> Threads \cup {NoThread}]
      /\ plain[s] \in Nat /\ got[s] \in Nat /\ plain'[s] = 0 /\ got'[s] = got[s] + plain[s] /\ lock'[s] = NoThread
      /\ \A x \in Socks \ {s} : plain'[x] = plain[x] /\ got'[x] = got[x] /\ lock'[x] = lock[x]
  BY <1>0, <1>1 DEF NetTyped
<1>4. Entries'
  BY <1>0, <1>1, <1>3 DEF Entries, table, peers
<1>5. NothingLost'
  <2>1. \A x \in Socks : got'[x] + plain'[x] = got[x] + plain[x]
    BY <1>3
  <2> QED BY <1>0, <1>1, <2>1 DEF NothingLost, DataIn, peers
<1>6. NetTyped'
  BY <1>0, <1>1, <1>2, <1>3, ReceivedTyped DEF NetTyped, table, peers
<1>7. Calls'
  <2>1. \A x \in Socks : lock'[x] # NoThread => lock'[x] = lock[x] /\ lock[x] # t
    BY <1>0, <1>3 DEF Calls
  <2>2. made' = made /\ socks' = socks /\ made <= made
    BY <1>1 DEF table
  <2> QED BY <1>0, <1>1, <1>2, <2>1, <2>2, CallsKeep DEF Secure
<1>8. \A u \in alone' : Alone(u)'
  <2>1. InCall(t, s) /\ call[t].at \notin Polls
    BY <1>1 DEF At, InCall, Polls
  <2>2. \A x \in Socks \ {s} : HasAnswer(x) => HasAnswer(x)'
    BY <1>1, <1>3 DEF HasAnswer, Over, DataIn, peers
  <2>3. \A x \in Socks \ {s} : socks'[x] = socks[x] /\ fd'[x] = fd[x]
    BY <1>1 DEF table
  <2> QED BY <1>1, <1>2, <2>1, <2>2, <2>3, ElsewhereAlone
<1> QED BY <1>4, <1>5, <1>6, <1>7, <1>8 DEF NetInv

\* An item is read ahead from a secure connection: nothing is lost, and who had an
\* answer has one still.
LEMMA TakenIn ==
  ASSUME NetTyped, Entries, NothingLost, NEW s \in Socks, s <= made, socks[s] \in {"tls", "none"},
         wire[s] # <<>>, TakeIn(s), wire' = [wire EXCEPT ![s] = Tail(@)],
         UNCHANGED <<table, down, sent, fin, hist>>
  PROVE  /\ wire' \in [Socks -> Seq(Items)] /\ plain' \in [Socks -> Nat]
         /\ Entries' /\ NothingLost'
         /\ \A x \in Socks : HasAnswer(x) => HasAnswer(x)'
<1>1. plain' = [plain EXCEPT ![s] = @ + Weight(Head(wire[s]))]
  BY DEF TakeIn, Weight
<1>2. /\ wire' \in [Socks -> Seq(Items)]
      /\ Weight(Head(wire[s])) \in Nat
      /\ DataIn(s) \in Nat /\ DataIn(s)' \in Nat
      /\ DataIn(s) = DataIn(s)' + Weight(Head(wire[s]))
      /\ \A x \in Socks \ {s} : wire'[x] = wire[x]
  BY ItemTaken
<1>3. /\ plain' \in [Socks -> Nat] /\ plain'[s] = plain[s] + Weight(Head(wire[s]))
      /\ \A x \in Socks \ {s} : plain'[x] = plain[x]
      /\ got[s] \in Nat /\ plain[s] \in Nat /\ plain'[s] \in Nat
  BY <1>1, <1>2 DEF NetTyped
<1>4. Entries'
  <2>1. \A x \in Socks : x > made => x # s
    BY ToldMade DEF Socks, NetTyped
  <2> QED BY <1>2, <1>3, <2>1 DEF Entries, table, hist
<1>5. NothingLost'
  <2>1. got'[s] + plain'[s] + DataIn(s)' = sent'[s].data
    BY <1>2, <1>3 DEF NothingLost, hist
  <2>2. \A x \in Socks \ {s} : got'[x] + plain'[x] + DataIn(x)' = sent'[x].data
    BY <1>2, <1>3 DEF NothingLost, hist, DataIn
  <2>3. \A x \in Socks : x = s => got'[x] + plain'[x] + DataIn(x)' = sent'[x].data
    BY <2>1 DEF DataIn
  <2> QED BY <2>2, <2>3 DEF NothingLost
<1>6. ASSUME NEW x \in Socks, HasAnswer(x) PROVE HasAnswer(x)'
  <2>1. CASE x # s
    BY <1>2, <1>3, <1>6, <2>1 DEF HasAnswer, Over, DataIn
  <2>2. CASE x = s
    <3>1. plain[s] > 0 \/ DataIn(s) > 0 => plain'[s] > 0 \/ DataIn(s)' > 0
      BY <1>2, <1>3
    <3>2. HasAnswer(s)
      BY <1>6, <2>2
    <3>3. HasAnswer(s)'
      BY <3>1, <3>2 DEF HasAnswer, Over
    <3> QED BY <2>2, <3>3 DEF HasAnswer, Over, DataIn
  <2> QED BY <2>1, <2>2
<1> QED BY <1>2, <1>3, <1>4, <1>5, <1>6

LEMMA ReadInStep ==
  ASSUME NetInv, NEW t \in Threads, ReadIn(t)
  PROVE  NetInv'
<1>0. NetTyped /\ Entries /\ Calls /\ NothingLost
  BY DEF NetInv
<1> DEFINE s == Sock(t)
<1>1. /\ UNCHANGED <<table, lock, down, sent, fin, hist, call, told, alone>>
      /\ wire[s] # <<>> /\ TakeIn(s) /\ wire' = [wire EXCEPT ![s] = Tail(@)]
      /\ s \in Socks /\ s <= made /\ socks[s] \in {"tls", "none"}
  BY <1>0 DEF ReadIn, Calls, At, NetTyped, CallType, Sock, Secure
<1>2. /\ wire' \in [Socks -> Seq(Items)] /\ plain' \in [Socks -> Nat]
      /\ Entries' /\ NothingLost'
      /\ \A x \in Socks : HasAnswer(x) => HasAnswer(x)'
  BY <1>0, <1>1, TakenIn
<1>3. NetTyped'
  BY <1>0, <1>1, <1>2 DEF NetTyped, table, hist
<1>4. Calls'
  BY <1>0, <1>1 DEF Calls, Sock, table
<1>5. ASSUME NEW u \in alone' PROVE Alone(u)'
  <2>1. u \in Threads /\ Alone(u)
    BY <1>0, <1>1, <1>5 DEF NetInv, NetTyped
  <2> QED BY <1>0, <1>1, <1>2, <2>1, LeftAlone DEF InCall, Sock, table
<1> QED BY <1>2, <1>3, <1>4, <1>5 DEF NetInv

LEMMA PollInStep ==
  ASSUME NetInv, NEW t \in Threads, PollIn(t)
  PROVE  NetInv'
<1>0. NetTyped /\ Entries /\ Calls /\ NothingLost
  BY DEF NetInv
<1> DEFINE s == Sock(t)
<1>1. /\ UNCHANGED <<table, down, sent, fin, hist, told, alone>> /\ At(t, "pollIn") /\ Readable(s)
      /\ lock' = [lock EXCEPT ![s] = NoThread]
      /\ s \in Socks /\ s <= made /\ socks[s] \in {"tls", "none"}
  BY <1>0 DEF PollIn, Calls, At, NetTyped, CallType, Sock, Secure
<1>2. /\ wire' \in [Socks -> Seq(Items)] /\ plain' \in [Socks -> Nat]
      /\ Entries' /\ NothingLost'
      /\ \A x \in Socks : HasAnswer(x) => HasAnswer(x)'
      /\ call' \in [Threads -> CallType] /\ \A u \in Threads \ {t} : call'[u] = call[u]
      /\ call'[t].at \in {"ready", "pollTry"} /\ call'[t].on = s /\ call'[t].fd = call[t].fd
      /\ call'[t].at = "ready" => HasAnswer(s)'
  <2>1. CASE wire[s] = <<>>
    <3>1. Goto(t, "ready") /\ UNCHANGED <<plain, wire>>
      BY <2>1 DEF PollIn
    <3>2. /\ call' \in [Threads -> CallType] /\ \A u \in Threads \ {t} : call'[u] = call[u]
          /\ call'[t].at = "ready" /\ call'[t].on = s /\ call'[t].fd = call[t].fd
      BY <1>0, <3>1, Goes DEF Places, Polls, Sock
    <3>3. Entries' /\ NothingLost' /\ \A x : HasAnswer(x)' = HasAnswer(x)
      BY <1>0, <1>1, <3>1, Untouched, SameAnswers DEF table, hist
    <3>4. HasAnswer(s)
      BY <1>1, <2>1 DEF Readable, HasAnswer
    <3>5. HasAnswer(s)'
      BY <1>1, <3>4, <3>1, <3>2 DEF HasAnswer, Over, DataIn, Sock
    <3> QED BY <1>0, <3>1, <3>2, <3>3, <3>5 DEF NetTyped
  <2>2. CASE wire[s] # <<>>
    <3>1. TakeIn(s) /\ wire' = [wire EXCEPT ![s] = Tail(@)] /\ Goto(t, "pollTry")
      BY <2>2 DEF PollIn
    <3>2. /\ call' \in [Threads -> CallType] /\ \A u \in Threads \ {t} : call'[u] = call[u]
          /\ call'[t].at = "pollTry" /\ call'[t].on = s /\ call'[t].fd = call[t].fd
      BY <1>0, <3>1, Goes DEF Places, Polls, Sock
    <3>3. /\ wire' \in [Socks -> Seq(Items)] /\ plain' \in [Socks -> Nat]
          /\ Entries' /\ NothingLost'
          /\ \A x \in Socks : HasAnswer(x) => HasAnswer(x)'
      BY <1>0, <1>1, <2>2, <3>1, TakenIn
    <3> QED BY <3>2, <3>3
  <2> QED BY <2>1, <2>2
<1>3. NetTyped'
  BY <1>0, <1>1, <1>2 DEF NetTyped, table, hist
<1>4. Calls'
  <2>1. \A x \in Socks : lock'[x] # NoThread => lock'[x] = lock[x] /\ lock[x] # t
    BY <1>0, <1>1 DEF Calls, NetTyped, NoThread
  <2>2. made' = made /\ socks' = socks /\ made <= made /\ made \in Nat
    BY <1>0, <1>1, ToldMade DEF table
  <2> QED BY <1>0, <1>1, <1>2, <2>1, <2>2, CallsKeep
<1>5. ASSUME NEW u \in alone' PROVE Alone(u)'
  <2>1. u \in Threads /\ Alone(u) /\ told'[u] = told[u]
    BY <1>0, <1>1, <1>5 DEF NetInv, NetTyped
  <2>2. CASE u # t
    BY <1>0, <1>1, <1>2, <2>1, <2>2, LeftAlone DEF InCall, Sock, At, table
  <2>3. CASE u = t
    <3>1. PollsAlone(t)
      BY <1>1, <2>1, <2>3 DEF Alone, At, Polls
    <3>2. PollsAlone(t)'
      <4>1. call'[t].at = "ready" => HasAnswer(call[t].on)'
        BY <1>2 DEF Sock, HasAnswer, Over, DataIn
      <4> QED BY <1>1, <1>2, <3>1, <4>1 DEF PollsAlone, Unshared, InCall, Sock, At, table
    <3>3. \A x \in Socks : told'[t] = x => socks'[x] = socks[x] /\ (HasAnswer(x) => HasAnswer(x)')
      BY <1>1, <1>2 DEF table
    <3> QED BY <1>0, <1>2, <2>1, <2>3, <3>2, <3>3, OwnStays
  <2> QED BY <2>2, <2>3
<1> QED BY <1>2, <1>3, <1>4, <1>5 DEF NetInv

-----------------------------------------------------------------------------
(***************************************************************************)
(* close, and what the peers do.                                           *)
(***************************************************************************)
LEMMA CloseStep ==
  ASSUME NetInv, NEW t \in Threads, Close(t)
  PROVE  NetInv'
<1>0. NetTyped /\ Entries /\ Calls /\ NothingLost
  BY DEF NetInv
<1>1. PICK s \in Socks :
        /\ socks[s] # "none" /\ socks' = [socks EXCEPT ![s] = "none"]
        /\ fd' = [fd EXCEPT ![s] = NoFd] /\ gone' = gone \cup {s}
        /\ UNCHANGED down \/ down' = [down EXCEPT ![s] = TRUE]
        /\ alone' = alone \ {u \in Threads : u # t /\ (told[u] = s \/ Sock(u) = s)}
  BY DEF Close, ShutDown
<1>2. UNCHANGED <<made, lock, plain, peers, got, call, told>> /\ At(t, "idle")
  BY DEF Close
<1>3. /\ socks' \in [Socks -> Kinds] /\ fd' \in [Socks -> Fds \cup {NoFd}] /\ down' \in [Socks -> BOOLEAN]
      /\ socks'[s] = "none" /\ fd'[s] = NoFd
      /\ \A x \in Socks \ {s} : socks'[x] = socks[x] /\ fd'[x] = fd[x]
      /\ \A x \in Socks : down[x] => down'[x]
  BY <1>0, <1>1 DEF NetTyped, Kinds
<1>4. \A x \in Socks : HasAnswer(x) => HasAnswer(x)'
  BY <1>2, <1>3 DEF HasAnswer, Over, DataIn, peers
<1>5. s <= made /\ gone' \subseteq 1..made
  BY <1>0, <1>1 DEF Entries, NetTyped, Socks
<1>6. NetTyped'
  BY <1>0, <1>1, <1>2, <1>3, <1>5 DEF NetTyped, peers
<1>7. Entries'
  BY <1>0, <1>1, <1>2, <1>3 DEF Entries, peers
<1>8. NothingLost'
  BY <1>0, <1>2 DEF NothingLost, DataIn, peers
<1>9. Calls'
  <2>1. \A x \in Socks : socks'[x] = socks[x] \/ socks'[x] = "none"
    BY <1>3
  <2>2. \A u \in Threads : call[u].on \in Socks
    BY <1>0 DEF NetTyped, CallType
  <2> QED BY <1>0, <1>2, <2>1, <2>2 DEF Calls, Sock
<1>10. ASSUME NEW u \in alone' PROVE Alone(u)'
  <2>1. u \in Threads /\ Alone(u) /\ told'[u] = told[u]
    BY <1>0, <1>1, <1>2, <1>10 DEF NetInv, NetTyped
  <2>2. CASE u # t
    <3>1. told[u] # s /\ Sock(u) # s
      BY <1>1, <1>10, <2>1, <2>2
    <3> QED BY <1>0, <1>2, <1>3, <1>4, <2>1, <3>1, LeftAlone DEF InCall, Sock
  <2>3. CASE u = t
    <3>1. call'[t].at \notin Polls
      BY <1>2 DEF At, Polls
    <3>2. \A x \in Socks : told'[t] = x =>
            socks'[x] = "none" \/ (socks'[x] = socks[x] /\ (HasAnswer(x) => HasAnswer(x)'))
      BY <1>3, <1>4
    <3> QED BY <1>0, <1>2, <2>1, <2>3, <3>1, <3>2, OwnStays
  <2> QED BY <2>2, <2>3
<1> QED BY <1>6, <1>7, <1>8, <1>9, <1>10 DEF NetInv

\* What is not a step of a thread leaves the calls, and who is alone, as they are.
LEMMA PeerStep ==
  ASSUME NetInv, UNCHANGED <<table, lock, call, told, alone>>, NetTyped',
         \A x \in Socks : HasAnswer(x) => HasAnswer(x)'
  PROVE  Calls' /\ \A u \in alone' : Alone(u)'
<1>1. NetTyped /\ Calls
  BY DEF NetInv
<1>2. Calls'
  BY <1>1 DEF Calls, Sock, table
<1>3. ASSUME NEW u \in alone PROVE Alone(u)'
  <2>1. u \in Threads /\ Alone(u)
    BY <1>1 DEF NetInv, NetTyped
  <2> QED BY <1>1, <2>1, LeftAlone DEF InCall, Sock, table
<1> QED BY <1>2, <1>3

LEMMA PeerSendsStep ==
  ASSUME NetInv, NEW s \in Socks, PeerSends(s)
  PROVE  NetInv'
<1>0. NetTyped /\ Entries /\ Calls /\ NothingLost
  BY DEF NetInv
<1>1. PICK item \in Items :
        /\ item = "data" \/ socks[s] = "tls"
        /\ wire' = [wire EXCEPT ![s] = Append(@, item)]
        /\ sent' = [sent EXCEPT ![s][item] = @ + 1]
  BY DEF PeerSends, Items
<1>2. UNCHANGED <<table, conns, fin, hist, call, told, alone>> /\ socks[s] \in {"stream", "tls"}
  BY DEF PeerSends
<1>3. /\ wire[s] \in Seq(Items) /\ Append(wire[s], item) \in Seq(Items)
      /\ wire' \in [Socks -> Seq(Items)] /\ wire'[s] = Append(wire[s], item)
      /\ \A x \in Socks \ {s} : wire'[x] = wire[x]
  BY <1>0, <1>1 DEF NetTyped
<1>4. /\ sent' \in [Socks -> [data : Nat, ticket : Nat]]
      /\ sent'[s].data = sent[s].data + Weight(item) /\ sent[s].data \in Nat
      /\ \A x \in Socks \ {s} : sent'[x] = sent[x]
  BY <1>0, <1>1 DEF NetTyped, Items, Weight
<1>5. /\ DataIn(s) \in Nat /\ Weight(item) \in Nat
      /\ DataIn(s)' = DataIn(s) + Weight(item)
  BY <1>3, ItemsAppend, ItemsFinite DEF DataIn, Weight
<1>6. NetTyped'
  BY <1>0, <1>2, <1>3, <1>4 DEF NetTyped, table, conns, hist
<1>7. Entries'
  <2>1. s <= made
    BY <1>0, <1>2 DEF Entries
  <2>2. socks[s] = "stream" => \A i \in DOMAIN wire'[s] : wire'[s][i] = "data"
    <3>1. ASSUME socks[s] = "stream" PROVE \A i \in DOMAIN wire'[s] : wire'[s][i] = "data"
      <4>1. item = "data" /\ \A i \in DOMAIN wire[s] : wire[s][i] = "data"
        BY <1>0, <1>1, <3>1 DEF Entries
      <4>2. /\ DOMAIN wire[s] = 1..Len(wire[s]) /\ Len(wire[s]) \in Nat
            /\ DOMAIN wire'[s] = 1..Len(wire[s]) + 1
            /\ \A i \in 1..Len(wire[s]) : wire'[s][i] = wire[s][i]
            /\ wire'[s][Len(wire[s]) + 1] = item
        BY <1>3
      <4> QED BY <4>1, <4>2
    <3> QED BY <3>1
  <2> QED BY <1>0, <1>2, <1>3, <2>1, <2>2, WireChanges DEF table, conns, hist
<1>8. NothingLost'
  <2>1. got'[s] + plain'[s] + DataIn(s)' = sent'[s].data
    <3>1. got[s] + plain[s] + DataIn(s) = sent[s].data /\ got[s] \in Nat /\ plain[s] \in Nat
      BY <1>0 DEF NothingLost, NetTyped
    <3> QED BY <1>2, <1>4, <1>5, <3>1 DEF conns, hist
  <2>2. \A x \in Socks \ {s} : got'[x] + plain'[x] + DataIn(x)' = sent'[x].data
    BY <1>0, <1>2, <1>3, <1>4 DEF NothingLost, DataIn, conns, hist
  <2>3. \A x \in Socks : x = s => got'[x] + plain'[x] + DataIn(x)' = sent'[x].data
    BY <2>1 DEF DataIn
  <2> QED BY <2>2, <2>3 DEF NothingLost
<1>9. ASSUME NEW x \in Socks, HasAnswer(x) PROVE HasAnswer(x)'
  <2>1. CASE x # s
    BY <1>2, <1>3, <1>9, <2>1 DEF HasAnswer, Over, DataIn, conns
  <2>2. CASE x = s
    <3>1. DataIn(s) > 0 => DataIn(s)' > 0
      BY <1>5
    <3>2. HasAnswer(s)
      BY <1>9, <2>2
    <3>3. HasAnswer(s)'
      BY <1>2, <3>1, <3>2 DEF HasAnswer, Over, conns
    <3> QED BY <2>2, <3>3 DEF HasAnswer, Over, DataIn
  <2> QED BY <2>1, <2>2
<1>10. Calls' /\ \A u \in alone' : Alone(u)'
  BY <1>2, <1>6, <1>9, PeerStep DEF conns
<1> QED BY <1>6, <1>7, <1>8, <1>10 DEF NetInv

LEMMA PeerClosesStep ==
  ASSUME NetInv, NEW s \in Socks, PeerCloses(s)
  PROVE  NetInv'
<1>0. NetTyped /\ Entries /\ Calls /\ NothingLost
  BY DEF NetInv
<1>1. /\ fin' = [fin EXCEPT ![s] = TRUE]
      /\ UNCHANGED <<table, conns, wire, sent, hist, call, told, alone>>
  BY DEF PeerCloses
<1>2. fin' \in [Socks -> BOOLEAN] /\ \A x \in Socks : fin[x] => fin'[x]
  BY <1>0, <1>1 DEF NetTyped
<1>3. NetTyped'
  BY <1>0, <1>1, <1>2 DEF NetTyped, table, conns, hist
<1>4. Entries' /\ NothingLost'
  BY <1>0, <1>1, Untouched DEF table, conns, hist
<1>5. \A x \in Socks : HasAnswer(x) => HasAnswer(x)'
  BY <1>1, <1>2 DEF HasAnswer, Over, DataIn, conns
<1>6. Calls' /\ \A u \in alone' : Alone(u)'
  BY <1>1, <1>3, <1>5, PeerStep DEF conns
<1> QED BY <1>3, <1>4, <1>6 DEF NetInv

-----------------------------------------------------------------------------
(***************************************************************************)
(* The invariant holds at the start, and every step keeps it.              *)
(***************************************************************************)
LEMMA NetStarts == Init => NetInv
<1> SUFFICES ASSUME Init PROVE NetInv
  OBVIOUS
<1>1. Idle \in CallType /\ 1 \in Socks
  BY NetAssumption DEF Idle, CallType, Places, Socks
<1>2. 0 \in 0..MaxSocks /\ 0 \in 0..0 /\ <<>> \in Seq(Items) /\ [data |-> 0, ticket |-> 0] \in [data : Nat, ticket : Nat]
  BY NetAssumption
<1>3. NetTyped
  BY <1>1, <1>2 DEF Init, NetTyped, Kinds
<1>4. Entries
  BY NetAssumption DEF Init, Entries, Socks, NoFd
<1>5. Calls
  BY DEF Init, Calls, Idle, Sock, Secure
<1>6. NothingLost
  BY NoItems DEF Init, NothingLost, DataIn
<1> QED BY <1>3, <1>4, <1>5, <1>6 DEF NetInv, Init

LEMMA NetSteps == NetInv /\ [Next]_vars => NetInv'
<1> SUFFICES ASSUME NetInv, [Next]_vars PROVE NetInv'
  OBVIOUS
<1>1. ASSUME NEW t \in Threads, Call(t) PROVE NetInv'
  BY <1>1, OpenStep, CallAcceptStep, CallTlsStep, CallTransferStep, CallPollStep, CloseStep DEF Call
<1>2. ASSUME NEW t \in Threads, Step(t) PROVE NetInv'
  <2>1. CASE Swap(t) \/ Recv(t) \/ Send(t) \/ ReadIn(t) \/ RecvTls(t) \/ SendTls(t)
    BY <2>1, SwapStep, RecvStep, SendStep, ReadInStep, RecvTlsStep, SendTlsStep
  <2>2. CASE PollLast(t) \/ PollTry(t) \/ PollReady(t) \/ PollWait(t) \/ PollTake(t) \/ PollIn(t)
    BY <2>2, PollLastStep, PollTryStep, PollReadyStep, PollWaitStep, PollTakeStep, PollInStep
  <2> QED BY <1>2, <2>1, <2>2 DEF Step
<1>3. ASSUME NEW t \in Threads, TakeLock(t) \/ Accept(t) \/ Handshake(t) PROVE NetInv'
  BY <1>3, TakeLockStep, AcceptStep, HandshakeStep
<1>4. ASSUME NEW s \in Socks, PeerSends(s) \/ PeerCloses(s) PROVE NetInv'
  BY <1>4, PeerSendsStep, PeerClosesStep
<1>5. CASE Leave
  BY <1>5, LeaveStep
<1>6. CASE UNCHANGED vars
  <2>1. UNCHANGED <<table, conns, peers, hist, call, told, alone>>
    BY <1>6 DEF vars
  <2>2. /\ NetTyped' /\ Entries' /\ NothingLost' /\ \A x \in Socks : HasAnswer(x) => HasAnswer(x)'
    BY <2>1, Untouched, SameAnswers DEF NetInv, NetTyped, table, conns, peers, hist
  <2>3. Calls' /\ \A u \in alone' : Alone(u)'
    BY <2>1, <2>2, PeerStep DEF conns
  <2> QED BY <2>2, <2>3 DEF NetInv
<1> QED BY <1>1, <1>2, <1>3, <1>4, <1>5, <1>6 DEF Next

-----------------------------------------------------------------------------
\* Whatever threads, sockets and descriptors there are, a thread's calls and the
\* peers leave the table, the connections and the calls consistent.
THEOREM NetInvariant == Spec => []NetInv
BY NetStarts, NetSteps, PTL DEF Spec

\* No call that was under way brings a closed handle back: not the tls_connect whose
\* handshake went on on a clone, not an accept or an insert.
THEOREM ClosedForGood == Spec => []ClosedStaysClosed
<1>1. NetInv => ClosedStaysClosed
  BY NetAssumption DEF NetInv, NetTyped, Entries, ClosedStaysClosed, Socks
<1> QED BY <1>1, NetInvariant, PTL

\* recv gives the program each data item the peer sent once, also what poll and
\* process_new_packets read ahead and what a plain recv took beside a handshake.
THEOREM AllReceivedOnce == Spec => []NothingLost
<1>1. NetInv => NothingLost
  BY DEF NetInv
<1> QED BY <1>1, NetInvariant, PTL

\* A poll's yes holds until somebody receives: for a thread that has had the
\* connection to itself, a recv has an answer, whatever the peer sends.
THEOREM PollsAreTrue == Spec => []PollIsTrue
<1>1. NetInv => PollIsTrue
  BY DEF NetInv, PollIsTrue, Alone, ToldAlone
<1> QED BY <1>1, NetInvariant, PTL
=============================================================================
