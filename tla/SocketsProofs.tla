---------------------------- MODULE SocketsProofs ----------------------------
(***************************************************************************)
(* Proofs about Sockets: numbers keep their owners, threads keep to their  *)
(* own sockets until these are closed, and connects tell the truth.        *)
(*                                                                         *)
(* Almost every step changes one thread and, at most, what a socket can    *)
(* read or how it blocks; "Moves" says what such a step may do to a        *)
(* thread.  The steps that change who owns a number are creating,          *)
(* accepting and the two halves of closing, and each is treated apart.     *)
(***************************************************************************)
EXTENDS Sockets, TLAPS

PCs == {"idle", "fetch", "select", "waiting", "refetch", "act", "stuck",
        "connect", "check", "recheck", "done", "unset"}

KernelType ==
  /\ descriptor \in [Files -> Numbers \cup {None}]
  /\ table \in [Numbers -> Files \cup {None}]
  /\ closing \subseteq Files

SocketType ==
  /\ queue \in [Files -> 0..MaxQueue]
  /\ link \in [Files -> {"no", "under way", "yes", "refused"}]
  /\ blocking \in [Files -> BOOLEAN]

ThreadType ==
  /\ pc \in [Threads -> PCs]
  /\ op \in [Threads -> Functions \cup {None}]
  /\ file \in [Threads -> Files \cup {None}]
  /\ handle \in [Threads -> Numbers \cup {None}]
  /\ left \in [Threads -> Nat \cup {None}]
  /\ answer \in [Threads -> {"not connected", "connected", "failed"}]
  /\ inside \in [Threads -> Files \cup {None}]

(* A thread has a descriptor while it is in a function, and a socket while it
   blocks. *)
AtWork ==
  \A t \in Threads :
    /\ pc[t] = "idle" <=> file[t] = None
    /\ handle[t] # None => pc[t] # "idle"
    /\ pc[t] = "stuck" => inside[t] # None

(* Between the two system calls of a close. *)
Closer(t) == pc[t] = "unset" \/ (pc[t] = "act" /\ op[t] = "close")

(* The lock of the descriptor admits one closer, and the number it gives back
   is still the one of its own socket. *)
CloserOwns ==
  /\ \A t \in Threads : Closer(t) =>
       /\ op[t] = "close" /\ handle[t] # None
       /\ file[t] \in closing
       /\ table[handle[t]] = file[t]
       /\ pc[t] = "act" => descriptor[file[t]] = None
  /\ \A t, u \in Threads : Closer(t) /\ Closer(u) /\ file[t] = file[u] => t = u

(* Past its first system call a connect has the number of its own socket,
   and that socket is being connected, unless it was closed. *)
ConnectHolds ==
  \A t \in Threads :
    /\ op[t] = "connect" /\ pc[t] \notin {"idle", "fetch"} /\ descriptor[file[t]] # None
         => handle[t] # None
    /\ pc[t] \in {"check", "recheck"} /\ descriptor[file[t]] # None => link[file[t]] # "no"
    /\ pc[t] = "recheck" /\ descriptor[file[t]] # None /\ answer[t] = "connected"
         => link[file[t]] = "yes"

Inv ==
  /\ KernelType /\ SocketType /\ ThreadType
  /\ OneOwner /\ StrayOnlyWhenClosed
  /\ AtWork /\ CloserOwns /\ ConnectHolds

(* The parts of the type invariant are the type invariant. *)
LEMMA TypeParts == TypeOK <=> KernelType /\ SocketType /\ ThreadType
  BY DEF TypeOK, KernelType, SocketType, ThreadType, PCs

-----------------------------------------------------------------------------
(* What a step of a thread may do to it. *)

(* A step of t that changes no other thread and no ownership. *)
Alone(t) ==
  /\ ThreadType'
  /\ UNCHANGED kernel
  /\ \A u \in Threads \ {t} :
       /\ pc'[u] = pc[u] /\ op'[u] = op[u] /\ file'[u] = file[u]
       /\ handle'[u] = handle[u] /\ answer'[u] = answer[u] /\ inside'[u] = inside[u]

(* Such a step that keeps what the invariant says of t, and does not begin a
   close. *)
Moves(t) ==
  /\ Alone(t)
  /\ file'[t] \in {None, file[t]}
  /\ handle'[t] \in {None, handle[t], descriptor[file[t]]}
  /\ pc'[t] = "idle" <=> file'[t] = None
  /\ pc'[t] = "idle" => handle'[t] = None
  /\ pc'[t] = "stuck" => inside'[t] # None
  /\ pc'[t] # "unset"
  /\ ~(pc'[t] = "act" /\ op'[t] = "close")
  /\ op'[t] = "connect" /\ pc'[t] \notin {"idle", "fetch"}
       => handle'[t] # None \/ descriptor[file[t]] = None
  /\ pc'[t] \in {"check", "recheck"} /\ descriptor[file[t]] # None => link'[file[t]] # "no"
  /\ pc'[t] = "recheck" /\ descriptor[file[t]] # None /\ answer'[t] = "connected"
       => link'[file[t]] = "yes"

(* Links come up or are refused and do not go back. *)
LinkGrows ==
  \A f \in Files : link'[f] = link[f] \/ link[f] = "no"
                   \/ (link[f] = "under way" /\ link'[f] # "no")

(* A function that returns leaves its thread idle. *)
LEMMA ReturnMoves ==
  ASSUME NEW t \in Threads, Inv, Return(t), UNCHANGED kernel
  PROVE  Moves(t) /\ pc'[t] = "idle"
<1>1. ThreadType'
  BY DEF Inv, ThreadType, Return, Goto, PCs
<1>2. Alone(t)
  <2>1. \A u \in Threads \ {t} :
          /\ pc'[u] = pc[u] /\ op'[u] = op[u] /\ file'[u] = file[u]
          /\ handle'[u] = handle[u] /\ answer'[u] = answer[u] /\ inside'[u] = inside[u]
    BY DEF Inv, ThreadType, Return, Goto
  <2> QED
    BY <1>1, <2>1 DEF Alone
<1>3. pc'[t] = "idle" /\ file'[t] = None /\ handle'[t] = None
  BY DEF Inv, ThreadType, Return, Goto
<1> QED
  BY <1>2, <1>3 DEF Moves

(* A function that goes on keeps what it has. *)
LEMMA ContinueMoves ==
  ASSUME NEW t \in Threads, NEW where \in PCs, Inv, Continue(t, where), UNCHANGED kernel,
         pc[t] # "idle", where \notin {"idle", "stuck", "unset", "check", "recheck"},
         where = "act" => op[t] # "close",
         op[t] = "connect" /\ where # "fetch" => handle[t] # None \/ descriptor[file[t]] = None
  PROVE  Moves(t)
<1>1. ThreadType'
  BY DEF Inv, ThreadType, Continue, Goto
<1> QED
  BY <1>1 DEF Inv, ThreadType, AtWork, Continue, Goto, Moves, Alone

(* A function that reads the number has the number of its own socket. *)
LEMMA FetchMoves ==
  ASSUME NEW t \in Threads, NEW next \in {"select", "act"}, Inv, Fetch(t, next),
         UNCHANGED kernel, pc[t] # "idle", op[t] # "close"
  PROVE  Moves(t)
<1>1. CASE descriptor[file[t]] = None
  BY <1>1, ReturnMoves DEF Fetch
<1>2. CASE descriptor[file[t]] # None
  <2>1. file[t] \in Files /\ descriptor[file[t]] \in Numbers
    <3>1. file[t] # None
      BY DEF Inv, AtWork
    <3>2. file[t] \in Files
      BY <3>1 DEF Inv, ThreadType
    <3> QED
      BY <3>2, <1>2 DEF Inv, KernelType
  <2>3. /\ pc' = [pc EXCEPT ![t] = next]
        /\ handle' = [handle EXCEPT ![t] = descriptor[file[t]]]
        /\ UNCHANGED <<op, file, left, answer, inside>>
    BY <1>2 DEF Fetch, Goto
  <2>2. ThreadType'
    <3>1. next \in PCs
      BY DEF PCs
    <3> QED
      BY <2>1, <2>3, <3>1 DEF Inv, ThreadType
  <2>4. \A u \in Threads \ {t} :
          /\ pc'[u] = pc[u] /\ op'[u] = op[u] /\ file'[u] = file[u]
          /\ handle'[u] = handle[u] /\ answer'[u] = answer[u] /\ inside'[u] = inside[u]
    BY <2>3 DEF Inv, ThreadType
  <2>5. /\ pc'[t] = next /\ handle'[t] = descriptor[file[t]] /\ file'[t] = file[t] /\ op'[t] = op[t]
    BY <2>3 DEF Inv, ThreadType
  <2>6. file[t] # None /\ descriptor[file[t]] # None
    BY <1>2 DEF Inv, AtWork
  <2>7. Alone(t)
    BY <2>2, <2>4 DEF Alone
  <2> QED
    BY <2>5, <2>6, <2>7 DEF Moves
<1> QED
  BY <1>1, <1>2

(* A thread that blocks in recv() or accept() is inside a socket. *)
LEMMA BlockMoves ==
  ASSUME NEW t \in Threads, NEW s \in Files, Inv, Block(t, s), UNCHANGED kernel,
         pc[t] # "idle", op[t] # "connect"
  PROVE  Moves(t)
<1>1. ThreadType'
  BY DEF Inv, ThreadType, Block, Goto, PCs
<1> QED
  BY <1>1, NoneAssumption DEF Inv, ThreadType, AtWork, Block, Goto, Moves, Alone

-----------------------------------------------------------------------------
(* Which socket a system call acts on. *)

(* A number a thread holds stands for a socket or for nothing. *)
LEMMA SocketIsFile ==
  ASSUME NEW t \in Threads, Inv
  PROVE  Socket(t) \in Files \cup {None}
  BY DEF Inv, ThreadType, KernelType, Socket

(* A thread in a function holds its own socket's number, or none, or its
   descriptor was closed. *)
LEMMA OwnSocket ==
  ASSUME NEW t \in Threads, Inv, handle[t] # None, descriptor[file[t]] # None
  PROVE  /\ Socket(t) = file[t]
         /\ file[t] \in Files
<1>0. file[t] # None
  BY DEF Inv, AtWork
<1>1. file[t] \in Files
  BY <1>0 DEF Inv, ThreadType
<1>2. Socket(t) = file[t]
  BY DEF Inv, StrayOnlyWhenClosed
<1> QED
  BY <1>1, <1>2

-----------------------------------------------------------------------------
(* The invariant along the steps of one thread. *)

(* A step that moves one thread keeps everybody's ownership. *)
LEMMA MovesKeep ==
  ASSUME NEW t \in Threads, Inv, Moves(t), SocketType', LinkGrows
  PROVE  Inv'
<1> USE DEF Moves, Alone, kernel
<1>1. KernelType' /\ ThreadType'
  BY DEF Inv, KernelType
<1>2. OneOwner'
  BY DEF Inv, OneOwner
<1>3. \A u \in Threads : file'[u] \in {None, file[u]}
                         /\ handle'[u] \in {None, handle[u], descriptor[file[u]]}
  OBVIOUS
<1>4. AtWork'
  BY DEF Inv, AtWork
<1>5. StrayOnlyWhenClosed'
  <2> SUFFICES ASSUME NEW u \in Threads, handle'[u] # None, descriptor[file'[u]] # None
               PROVE  Socket(u)' = file'[u]
    BY DEF StrayOnlyWhenClosed
  <2>0. file'[u] # None
    BY <1>4 DEF AtWork
  <2>a. file'[u] = file[u]
    BY <2>0, <1>3
  <2>1. file'[u] = file[u] /\ file[u] \in Files
    BY <2>0, <2>a DEF Inv, ThreadType
  <2>2. CASE handle'[u] = handle[u]
    BY <2>1, <2>2 DEF Inv, StrayOnlyWhenClosed, Socket
  <2>3. CASE handle'[u] = descriptor[file[u]]
    BY <2>1, <2>3 DEF Inv, OneOwner, Socket
  <2> QED
    BY <1>3, <2>2, <2>3
<1>6. \A u \in Threads : Closer(u)' => u # t /\ Closer(u)
  BY DEF Closer
<1>7. CloserOwns'
  <2>1. \A u \in Threads : Closer(u)' =>
          /\ op'[u] = op[u] /\ handle'[u] = handle[u]
          /\ file'[u] = file[u] /\ pc'[u] = pc[u]
    BY <1>6
  <2>2. UNCHANGED <<descriptor, table, closing>>
    OBVIOUS
  <2>3. \A u \in Threads : Closer(u)' =>
       /\ op'[u] = "close" /\ handle'[u] # None
       /\ file'[u] \in closing'
       /\ table'[handle'[u]] = file'[u]
       /\ pc'[u] = "act" => descriptor'[file'[u]] = None
    <3> SUFFICES ASSUME NEW u \in Threads, Closer(u)'
                 PROVE  /\ op'[u] = "close" /\ handle'[u] # None
                        /\ file'[u] \in closing'
                        /\ table'[handle'[u]] = file'[u]
                        /\ pc'[u] = "act" => descriptor'[file'[u]] = None
      OBVIOUS
    <3>1. /\ op[u] = "close" /\ handle[u] # None
          /\ file[u] \in closing
          /\ table[handle[u]] = file[u]
          /\ pc[u] = "act" => descriptor[file[u]] = None
      BY <1>6 DEF Inv, CloserOwns
    <3> QED
      BY <3>1, <2>1, <2>2
  <2>4. \A u, v \in Threads : Closer(u)' /\ Closer(v)' /\ file'[u] = file'[v] => u = v
    BY <1>6, <2>1 DEF Inv, CloserOwns
  <2> QED
    BY <2>3, <2>4 DEF CloserOwns
<1>8. ConnectHolds'
  <2> SUFFICES ASSUME NEW u \in Threads
      PROVE  /\ op'[u] = "connect" /\ pc'[u] \notin {"idle", "fetch"}
                /\ descriptor[file'[u]] # None => handle'[u] # None
             /\ pc'[u] \in {"check", "recheck"} /\ descriptor[file'[u]] # None
                => link'[file'[u]] # "no"
             /\ pc'[u] = "recheck" /\ descriptor[file'[u]] # None
                /\ answer'[u] = "connected" => link'[file'[u]] = "yes"
    BY DEF ConnectHolds
  <2>1. CASE u = t
    BY <2>1, <1>1 DEF ThreadType
  <2>2. CASE u # t
    <3>1. /\ pc'[u] = pc[u] /\ op'[u] = op[u] /\ file'[u] = file[u]
          /\ handle'[u] = handle[u] /\ answer'[u] = answer[u] /\ descriptor' = descriptor
      BY <2>2
    <3> HIDE DEF Moves, Alone, kernel
    <3>2. pc[u] # "idle" => file[u] \in Files
      <4>1. pc[u] # "idle" => file[u] # None
        BY DEF Inv, AtWork
      <4>2. file[u] \in Files \cup {None}
        BY DEF Inv, ThreadType
      <4> QED
        BY <4>1, <4>2
    <3>3. file[u] \in Files => link'[file[u]] = link[file[u]] \/ link[file[u]] = "no"
                              \/ (link[file[u]] = "under way" /\ link'[file[u]] # "no")
      BY DEF LinkGrows
    <3>4. /\ op[u] = "connect" /\ pc[u] \notin {"idle", "fetch"} /\ descriptor[file[u]] # None
               => handle[u] # None
          /\ pc[u] \in {"check", "recheck"} /\ descriptor[file[u]] # None => link[file[u]] # "no"
          /\ pc[u] = "recheck" /\ descriptor[file[u]] # None /\ answer[u] = "connected"
               => link[file[u]] = "yes"
      BY DEF Inv, ConnectHolds
    <3> QED
      BY <3>1, <3>2, <3>3, <3>4
  <2> QED
    BY <2>1, <2>2
<1> QED
  BY <1>1, <1>2, <1>4, <1>5, <1>7, <1>8 DEF Inv

-----------------------------------------------------------------------------
(* The steps of one thread that own nothing. *)

(* A step that leaves the sockets alone leaves their types and links alone. *)
LEMMA SameSockets ==
  ASSUME Inv, UNCHANGED sockets
  PROVE  SocketType' /\ LinkGrows
  BY DEF Inv, SocketType, LinkGrows, sockets

(* One slice less is still a number of slices. *)
LEMMA SliceCounts ==
  ASSUME NEW t \in Threads, Inv, left[t] # 0,
         left' = [left EXCEPT ![t] = IF @ = None THEN None ELSE @ - 1]
  PROVE  left' \in [Threads -> Nat \cup {None}]
<1>1. left \in [Threads -> Nat \cup {None}]
  BY DEF Inv, ThreadType
<1>2. ASSUME left[t] # None
      PROVE  left[t] - 1 \in Nat
  <2>1. left[t] \in Nat
    BY <1>1, <1>2
  <2> QED
    BY <2>1
<1>3. (IF left[t] = None THEN None ELSE left[t] - 1) \in Nat \cup {None}
  BY <1>2
<1> QED
  BY <1>1, <1>3

(* Waiting reads the number, gives it back or goes on with it. *)
LEMMA PollMoves ==
  ASSUME NEW t \in Threads, Inv, Poll(t) \/ FetchOnce(t) \/ Look(t)
  PROVE  Moves(t) /\ UNCHANGED sockets
<1>1. ASSUME StartPoll(t) \/ Refetch(t) \/ FetchOnce(t)
      PROVE  Moves(t) /\ UNCHANGED sockets
  <2>1. pc[t] # "idle" /\ op[t] # "close" /\ UNCHANGED <<kernel, sockets>>
    BY <1>1 DEF StartPoll, Refetch, FetchOnce, At, Waits, Functions
  <2>2. \E next \in {"select", "act"} : Fetch(t, next)
    BY <1>1 DEF StartPoll, Refetch, FetchOnce
  <2> QED
    BY <2>1, <2>2, FetchMoves
<1>2. ASSUME PollSelect(t)
      PROVE  Moves(t) /\ UNCHANGED sockets
  <2>1. /\ pc[t] # "idle" /\ op[t] \notin {"close", "connect"}
        /\ UNCHANGED <<kernel, sockets>>
    BY <1>2 DEF PollSelect, At, Waits
  <2>2. CASE Return(t)
    BY <2>1, <2>2, ReturnMoves
  <2>3. CASE Continue(t, "refetch")
    BY <2>1, <2>3, ContinueMoves DEF PCs
  <2>4. ASSUME left[t] # 0,
               left' = [left EXCEPT ![t] = IF @ = None THEN None ELSE @ - 1],
               Goto(t, "fetch"),
               UNCHANGED <<op, file, handle, answer, inside>>
        PROVE  Moves(t)
    <3>1. left' \in [Threads -> Nat \cup {None}]
      BY <2>4, SliceCounts
    <3>2. ThreadType'
      BY <2>4, <3>1 DEF Inv, ThreadType, Goto, PCs
    <3> QED
      BY <2>1, <2>4, <3>2 DEF Inv, ThreadType, AtWork, Goto, Moves, Alone
  <2> QED
    BY <1>2, <2>1, <2>2, <2>3, <2>4 DEF PollSelect, SliceEnds
<1>3. ASSUME Look(t)
      PROVE  Moves(t) /\ UNCHANGED sockets
  <2>1. /\ pc[t] # "idle" /\ op[t] \notin {"close", "connect"}
        /\ UNCHANGED <<kernel, sockets>>
        /\ Return(t) \/ Continue(t, "act")
    BY <1>3 DEF Look, At
  <2> QED
    BY <2>1, ReturnMoves, ContinueMoves DEF PCs
<1> QED
  BY <1>1, <1>2, <1>3 DEF Poll

(* A read of a stream waits inside the socket that it chose. *)
LEMMA SelectMoves ==
  ASSUME NEW t \in Threads, Inv, Select(t) \/ Selected(t)
  PROVE  Moves(t) /\ UNCHANGED sockets
<1>1. /\ pc[t] # "idle" /\ op[t] = "read"
      /\ UNCHANGED <<kernel, sockets>>
  BY DEF Select, Selected, At
<1>2. CASE Return(t)
  BY <1>1, <1>2, ReturnMoves
<1>3. ASSUME NEW where \in {"waiting", "act"}, NEW i \in Files \cup {None},
             Goto(t, where), inside' = [inside EXCEPT ![t] = i],
             UNCHANGED <<op, file, handle, left, answer>>
      PROVE  Moves(t)
  <2>1. ThreadType'
    BY <1>3 DEF Inv, ThreadType, Goto, PCs
  <2> QED
    BY <1>1, <1>3, <2>1 DEF Inv, ThreadType, AtWork, Goto, Moves, Alone
<1>4. Socket(t) \in Files \cup {None}
  BY SocketIsFile
<1> QED
  BY <1>1, <1>2, <1>3, <1>4 DEF Select, Selected

(* recv() takes at most one thing from the queue of some socket. *)
LEMMA ReceiveMoves ==
  ASSUME NEW t \in Threads, NEW peek \in BOOLEAN, Inv, Receive(t, peek),
         pc[t] # "idle", op[t] # "connect"
  PROVE  Moves(t) /\ SocketType' /\ LinkGrows
<1> DEFINE s == Socket(t)
<1>1. s \in Files \cup {None} /\ UNCHANGED kernel /\ UNCHANGED <<link, blocking>>
  BY SocketIsFile DEF Receive
<1>2. \/ Return(t) /\ UNCHANGED queue
      \/ s # None /\ Block(t, s) /\ UNCHANGED queue
      \/ /\ s # None /\ queue[s] > 0 /\ Return(t)
         /\ queue' = [queue EXCEPT ![s] = IF peek THEN @ ELSE @ - 1]
  BY DEF Receive
<1> HIDE DEF s
<1>3. Moves(t)
  BY <1>1, <1>2, ReturnMoves, BlockMoves
<1>4. queue' \in [Files -> 0..MaxQueue]
  <2>1. queue \in [Files -> 0..MaxQueue]
    BY DEF Inv, SocketType
  <2>2. ASSUME s # None, queue[s] > 0,
               queue' = [queue EXCEPT ![s] = IF peek THEN @ ELSE @ - 1]
        PROVE  queue' \in [Files -> 0..MaxQueue]
    BY <1>1, <2>1, <2>2, BoundAssumption
  <2> QED
    BY <1>2, <2>1, <2>2
<1> QED
  BY <1>1, <1>3, <1>4 DEF Inv, SocketType, LinkGrows

(* Every reading function ends in recv(). *)
LEMMA ReadMoves ==
  ASSUME NEW t \in Threads, Inv,
         \/ PeekDatagram(t) \/ ReceiveDatagram(t) \/ RecvConnectedDatagram(t)
         \/ AvailableStream(t) \/ ReadSocket(t) \/ ReceiveStream(t)
  PROVE  Moves(t) /\ SocketType' /\ LinkGrows
<1>1. /\ pc[t] # "idle" /\ op[t] # "connect"
      /\ Receive(t, TRUE) \/ Receive(t, FALSE)
  BY DEF PeekDatagram, ReceiveDatagram, RecvConnectedDatagram,
         AvailableStream, ReadSocket, ReceiveStream, At
<1> QED
  BY <1>1, ReceiveMoves

(* A thread that was blocked returns with what came. *)
LEMMA UnblockMoves ==
  ASSUME NEW t \in Threads, Inv, Unblock(t)
  PROVE  Moves(t) /\ SocketType' /\ LinkGrows
<1>1. pc[t] = "stuck" /\ Return(t) /\ UNCHANGED kernel /\ UNCHANGED <<link, blocking>>
  BY DEF Unblock, At
<1>2. inside[t] \in Files
  <2>1. inside[t] # None
    BY <1>1 DEF Inv, AtWork
  <2> QED
    BY <2>1 DEF Inv, ThreadType
<1>3. queue' \in [Files -> 0..MaxQueue]
  <2>1. queue \in [Files -> 0..MaxQueue]
    BY DEF Inv, SocketType
  <2>2. ASSUME queue[inside[t]] > 0, NEW n \in {0, 1},
               queue' = [queue EXCEPT ![inside[t]] = @ - n]
        PROVE  queue' \in [Files -> 0..MaxQueue]
    BY <1>2, <2>1, <2>2, BoundAssumption
  <2> QED
    BY <2>1, <2>2 DEF Unblock
<1> QED
  BY <1>1, <1>3, ReturnMoves DEF Inv, SocketType, LinkGrows

(* Sending returns, or reads the number again. *)
LEMMA SendMoves ==
  ASSUME NEW t \in Threads, Inv, Send(t)
  PROVE  Moves(t) /\ UNCHANGED sockets
<1>1. /\ pc[t] # "idle" /\ op[t] = "send" /\ UNCHANGED <<kernel, sockets>>
      /\ Return(t) \/ Continue(t, "fetch")
  BY DEF Send, SendDatagram, SendConnectedDatagram, WriteSocket, SendStream, SendOnce, At
<1> QED
  BY <1>1, ReturnMoves, ContinueMoves DEF PCs

-----------------------------------------------------------------------------
(* The steps of a connect. *)

(* The types of a step that ends a connect or goes on with it. *)
LEMMA ConnectStepType ==
  ASSUME NEW t \in Threads, NEW where \in {"done", "check", "recheck"}, Inv,
         Goto(t, where), UNCHANGED <<kernel, op, file, inside>>,
         handle' \in [Threads -> Numbers \cup {None}],
         left' \in [Threads -> Nat \cup {None}],
         answer' \in [Threads -> {"not connected", "connected", "failed"}],
         \A u \in Threads \ {t} : handle'[u] = handle[u] /\ answer'[u] = answer[u],
         handle'[t] \in {None, handle[t], descriptor[file[t]]},
         op[t] = "connect", pc[t] # "idle",
         handle'[t] # None \/ descriptor[file[t]] = None,
         where \in {"check", "recheck"} /\ descriptor[file[t]] # None => link'[file[t]] # "no",
         where = "recheck" /\ descriptor[file[t]] # None /\ answer'[t] = "connected"
           => link'[file[t]] = "yes"
  PROVE  Moves(t)
<1>1. ThreadType'
  BY DEF Inv, ThreadType, Goto, PCs
<1>2. Alone(t)
  BY <1>1 DEF Inv, ThreadType, Goto, Alone
<1>3. pc'[t] = where /\ file'[t] = file[t] /\ op'[t] = op[t] /\ inside'[t] = inside[t]
  BY DEF Inv, ThreadType, Goto
<1>4. file[t] # None
  BY DEF Inv, AtWork
<1> QED
  BY <1>2, <1>3, <1>4 DEF Moves

(* START and connect(). *)
LEMMA ConnectStartMoves ==
  ASSUME NEW t \in Threads, Inv, ConnectStart(t)
  PROVE  Moves(t) /\ SocketType' /\ LinkGrows
<1>1. /\ op[t] = "connect" /\ pc[t] = "act"
      /\ UNCHANGED kernel /\ UNCHANGED <<queue, link>>
  BY DEF ConnectStart, At
<1>2. handle[t] # None \/ descriptor[file[t]] = None
  BY <1>1 DEF Inv, ConnectHolds
<1>3. ThreadType
  BY DEF Inv
<1>4. ASSUME Conclude(t), Answer(t, "failed"), UNCHANGED <<handle, blocking>>
      PROVE  Moves(t) /\ SocketType' /\ LinkGrows
  <2>1. /\ answer' \in [Threads -> {"not connected", "connected", "failed"}]
        /\ \A u \in Threads \ {t} : answer'[u] = answer[u]
        /\ Goto(t, "done") /\ UNCHANGED <<op, file, left, inside>>
    BY <1>3, <1>4 DEF ThreadType, Answer, Conclude
  <2>2. Moves(t)
    BY <1>1, <1>2, <1>3, <1>4, <2>1, ConnectStepType DEF ThreadType
  <2> QED
    BY <1>1, <1>4, <2>2 DEF Inv, SocketType, LinkGrows
<1>5. ASSUME Socket(t) # None, Continue(t, "connect"),
             blocking' = [blocking EXCEPT ![Socket(t)] = FALSE]
      PROVE  Moves(t) /\ SocketType' /\ LinkGrows
  <2>1. handle[t] # None
    BY <1>5 DEF Socket
  <2>2. Moves(t)
    BY <1>1, <1>5, <2>1, ContinueMoves DEF PCs
  <2> QED
    BY <1>1, <1>5, <2>2 DEF Inv, SocketType, LinkGrows
<1> QED
  BY <1>4, <1>5 DEF ConnectStart

(* connect() fails, succeeds at once or is under way. *)
LEMMA ConnectMoves ==
  ASSUME NEW t \in Threads, Inv, Connect(t)
  PROVE  Moves(t) /\ SocketType' /\ LinkGrows
<1>1. /\ op[t] = "connect" /\ pc[t] = "connect"
      /\ UNCHANGED kernel /\ UNCHANGED <<queue, blocking>>
  BY DEF Connect, At
<1>2. handle[t] # None \/ descriptor[file[t]] = None
  BY <1>1 DEF Inv, ConnectHolds
<1>3. ThreadType /\ SocketType
  BY DEF Inv
<1>4. ASSUME NEW a \in {"connected", "failed"}, Conclude(t), Answer(t, a), UNCHANGED handle
      PROVE  Moves(t)
  <2>1. /\ answer' \in [Threads -> {"not connected", "connected", "failed"}]
        /\ \A u \in Threads \ {t} : answer'[u] = answer[u]
        /\ Goto(t, "done") /\ UNCHANGED <<op, file, left, inside>>
    BY <1>3, <1>4 DEF ThreadType, Answer, Conclude
  <2> QED
    BY <1>1, <1>2, <1>3, <1>4, <2>1, ConnectStepType DEF ThreadType
<1>5. CASE Conclude(t) /\ Answer(t, "failed") /\ UNCHANGED <<handle, link>>
  BY <1>1, <1>3, <1>4, <1>5 DEF SocketType, LinkGrows
<1>6. ASSUME NEW l \in {"yes", "under way"}, Socket(t) # None, link[Socket(t)] = "no",
             link' = [link EXCEPT ![Socket(t)] = l]
      PROVE  SocketType' /\ LinkGrows
  BY <1>1, <1>3, <1>6, SocketIsFile DEF SocketType, LinkGrows
<1>7. ASSUME Socket(t) # None, link' = [link EXCEPT ![Socket(t)] = "under way"],
             Continue(t, "check")
      PROVE  Moves(t)
  <2>1. descriptor[file[t]] # None => link'[file[t]] # "no"
    <3> SUFFICES ASSUME descriptor[file[t]] # None
                 PROVE  link'[file[t]] # "no"
      OBVIOUS
    <3>1. Socket(t) = file[t] /\ file[t] \in Files
      BY <1>2, OwnSocket
    <3> QED
      BY <1>3, <1>7, <3>1 DEF SocketType
  <2>2. Goto(t, "check") /\ UNCHANGED <<op, file, handle, left, answer, inside>>
    BY <1>7 DEF Continue
  <2> QED
    BY <1>1, <1>2, <1>3, <2>1, <2>2, ConnectStepType DEF ThreadType
<1> QED
  BY <1>1, <1>4, <1>5, <1>6, <1>7 DEF Connect

(* CHECK: what select() says of the socket the number has. *)
LEMMA ConnectCheckMoves ==
  ASSUME NEW t \in Threads, Inv, ConnectCheck(t)
  PROVE  Moves(t) /\ UNCHANGED sockets
<1>1. /\ op[t] = "connect" /\ pc[t] = "check" /\ Goto(t, "recheck")
      /\ UNCHANGED <<kernel, sockets, op, file, handle, left, inside>>
  BY DEF ConnectCheck, At
<1>2. handle[t] # None \/ descriptor[file[t]] = None
  BY <1>1 DEF Inv, ConnectHolds
<1>3. ThreadType
  BY DEF Inv
<1>4. PICK a \in {"not connected", "connected", "failed"} : Answer(t, a)
  BY DEF ConnectCheck
<1>5. /\ answer' \in [Threads -> {"not connected", "connected", "failed"}]
      /\ \A u \in Threads \ {t} : answer'[u] = answer[u]
      /\ answer'[t] = a
  BY <1>3, <1>4 DEF ThreadType, Answer
<1>6. link' = link
  BY <1>1 DEF sockets
<1>7. descriptor[file[t]] # None => link'[file[t]] # "no"
  BY <1>1, <1>6 DEF Inv, ConnectHolds
<1>8. ASSUME descriptor[file[t]] # None, a = "connected"
      PROVE  link'[file[t]] = "yes"
  <2>1. Socket(t) = file[t] /\ file[t] \in Files
    BY <1>2, <1>8, OwnSocket
  <2>2. Answer(t, "connected") /\ ~Answer(t, "failed") /\ ~Answer(t, "not connected")
    BY <1>3, <1>4, <1>8 DEF Answer, ThreadType
  <2>3. link[file[t]] \in {"yes", "no"}
    BY <2>1, <2>2 DEF ConnectCheck
  <2> QED
    BY <1>6, <1>7, <1>8, <2>3
<1>9. Moves(t)
  BY <1>1, <1>2, <1>3, <1>5, <1>7, <1>8, ConnectStepType DEF ThreadType
<1> QED
  BY <1>1, <1>9

(* The number is read again after CHECK. *)
LEMMA ConnectRecheckMoves ==
  ASSUME NEW t \in Threads, Inv, ConnectRecheck(t)
  PROVE  Moves(t) /\ UNCHANGED sockets
<1> DEFINE n == descriptor[file[t]]
<1>1. /\ op[t] = "connect" /\ pc[t] = "recheck"
      /\ UNCHANGED <<kernel, sockets>>
      /\ handle' = [handle EXCEPT ![t] = n]
  BY DEF ConnectRecheck, At
<1>2. ThreadType /\ KernelType
  BY DEF Inv
<1>3. file[t] \in Files
  <2>1. file[t] # None
    BY <1>1 DEF Inv, AtWork
  <2> QED
    BY <1>2, <2>1 DEF ThreadType
<1>4. n \in Numbers \cup {None}
  BY <1>2, <1>3 DEF KernelType
<1>5. /\ handle' \in [Threads -> Numbers \cup {None}]
      /\ handle'[t] = n
      /\ \A u \in Threads \ {t} : handle'[u] = handle[u]
  BY <1>1, <1>2, <1>4 DEF ThreadType
<1>6. UNCHANGED <<op, file, inside>>
  BY DEF ConnectRecheck, Conclude, AfterCheck
<1>7. left' \in [Threads -> Nat \cup {None}]
  <2>1. left \in [Threads -> Nat \cup {None}]
    BY <1>2 DEF ThreadType
  <2>2. \/ left' = left
        \/ left[t] # 0 /\ left' = [left EXCEPT ![t] = IF @ = None THEN None ELSE @ - 1]
    BY DEF ConnectRecheck, Conclude, AfterCheck
  <2> QED
    BY <2>1, <2>2, SliceCounts
<1>8. /\ answer' \in [Threads -> {"not connected", "connected", "failed"}]
      /\ \A u \in Threads \ {t} : answer'[u] = answer[u]
  BY <1>2 DEF ThreadType, ConnectRecheck, Answer
<1>9. PICK where \in {"done", "check"} : Goto(t, where)
  BY DEF ConnectRecheck, Conclude, AfterCheck
<1>10. n # None => link'[file[t]] # "no"
  BY <1>1 DEF Inv, ConnectHolds, sockets
<1> HIDE DEF n
<1>11. Moves(t)
  BY <1>1, <1>5, <1>6, <1>7, <1>8, <1>9, <1>10, ConnectStepType DEF n
<1> QED
  BY <1>1, <1>11

(* DONE changes how one socket blocks. *)
LEMMA ConnectDoneMoves ==
  ASSUME NEW t \in Threads, Inv, ConnectDone(t)
  PROVE  Moves(t) /\ SocketType' /\ LinkGrows
<1>1. Return(t) /\ UNCHANGED kernel /\ UNCHANGED <<queue, link>>
  BY DEF ConnectDone
<1>2. blocking' \in [Files -> BOOLEAN]
  BY DEF ConnectDone
<1> QED
  BY <1>1, <1>2, ReturnMoves DEF Inv, SocketType, LinkGrows

(* A connect keeps the invariant. *)
LEMMA ConnectStepKeeps ==
  ASSUME NEW t \in Threads, Inv, ConnectStep(t)
  PROVE  Inv'
  BY ConnectStartMoves, ConnectMoves, ConnectCheckMoves, ConnectRecheckMoves,
     ConnectDoneMoves, SameSockets, MovesKeep DEF ConnectStep

-----------------------------------------------------------------------------
(* The steps that change who owns a number, or begin something. *)

(* A call begins with a descriptor, at the read of its number. *)
LEMMA CallKeeps ==
  ASSUME NEW t \in Threads, NEW f \in Files, NEW u \in Uses[t], Inv, Call(t, f, u[1], u[2])
  PROVE  Inv'
<1>1. u[1] \in Functions /\ u[2] \in Nat \cup {None}
  BY UsesAssumption
<1>2. /\ pc[t] = "idle" /\ UNCHANGED <<kernel, sockets, handle, answer, inside>>
      /\ Goto(t, "fetch") /\ file' = [file EXCEPT ![t] = f]
      /\ op' = [op EXCEPT ![t] = u[1]] /\ left' = [left EXCEPT ![t] = u[2]]
  BY DEF Call
<1>3. ThreadType'
  BY <1>1, <1>2 DEF Inv, ThreadType, Goto, PCs
<1>4. KernelType' /\ SocketType' /\ OneOwner'
  BY <1>2 DEF Inv, KernelType, SocketType, OneOwner, kernel, sockets
<1>5. /\ pc'[t] = "fetch" /\ file'[t] = f /\ handle'[t] = None
      /\ \A v \in Threads \ {t} :
           /\ pc'[v] = pc[v] /\ op'[v] = op[v] /\ file'[v] = file[v]
           /\ handle'[v] = handle[v] /\ answer'[v] = answer[v] /\ inside'[v] = inside[v]
  <2>1. handle[t] = None
    BY <1>2 DEF Inv, AtWork
  <2> QED
    BY <1>2, <2>1 DEF Inv, ThreadType, Goto
<1>6. AtWork'
  BY <1>5, NoneAssumption DEF Inv, AtWork
<1>7. UNCHANGED <<descriptor, table, closing, link>>
  BY <1>2 DEF kernel, sockets
<1>8. StrayOnlyWhenClosed'
  BY <1>5, <1>7 DEF Inv, StrayOnlyWhenClosed, Socket
<1>9. CloserOwns'
  <2>1. \A v \in Threads : Closer(v)' => v # t /\ Closer(v)
    BY <1>5 DEF Closer
  <2> QED
    BY <1>5, <1>7, <2>1 DEF Inv, CloserOwns
<1>10. ConnectHolds'
  BY <1>5, <1>7 DEF Inv, ConnectHolds
<1> QED
  BY <1>3, <1>4, <1>6, <1>8, <1>9, <1>10 DEF Inv

(* A thread that a step leaves alone, and one that returns. *)
Rests(u) ==
  /\ pc'[u] = pc[u] /\ op'[u] = op[u] /\ file'[u] = file[u]
  /\ handle'[u] = handle[u] /\ answer'[u] = answer[u] /\ inside'[u] = inside[u]

Returns(u) == pc'[u] = "idle" /\ file'[u] = None /\ handle'[u] = None

(* Return is what its name says, for the types of the threads too. *)
LEMMA ReturnReturns ==
  ASSUME NEW t \in Threads, Inv, Return(t)
  PROVE  ThreadType' /\ \A u \in Threads : Rests(u) \/ Returns(u)
<1>1. ThreadType'
  BY DEF Inv, ThreadType, Return, Goto, PCs
<1>2. Returns(t)
  BY DEF Inv, ThreadType, Return, Goto, Returns
<1>3. \A u \in Threads \ {t} : Rests(u)
  BY DEF Inv, ThreadType, Return, Goto, Rests
<1> QED
  BY <1>1, <1>2, <1>3

(* Threads that rest or return stay at work or become idle. *)
LEMMA RestsAtWork ==
  ASSUME Inv, \A u \in Threads : Rests(u) \/ Returns(u)
  PROVE  AtWork'
<1> SUFFICES ASSUME NEW u \in Threads
             PROVE  /\ pc'[u] = "idle" <=> file'[u] = None
                    /\ handle'[u] # None => pc'[u] # "idle"
                    /\ pc'[u] = "stuck" => inside'[u] # None
  BY DEF AtWork
<1>1. CASE Rests(u)
  BY <1>1 DEF Inv, AtWork, Rests
<1>2. CASE Returns(u)
  BY <1>2 DEF Returns
<1> QED
  BY <1>1, <1>2

(* A new socket takes a number nobody has, for a descriptor nobody uses. *)
LEMMA NewSocketKeeps ==
  ASSUME NEW f \in Files, NEW n \in Numbers, Inv, Fresh(f), NewSocket(f, n),
         closing' = closing, ThreadType', SocketType',
         \A u \in Threads : Rests(u) \/ Returns(u),
         \A g \in Files \ {f} : link'[g] = link[g]
  PROVE  Inv'
<1>1. /\ table[n] = None /\ descriptor[f] = None
      /\ table' = [table EXCEPT ![n] = f]
      /\ descriptor' = [descriptor EXCEPT ![f] = n]
      /\ \A m \in Numbers : table[m] # f
      /\ \A u \in Threads : file[u] # f
  BY DEF Fresh, Open, NewSocket, Lowest
<1>2. KernelType /\ f # None /\ n # None
  BY NoneAssumption DEF Inv
<1>3. KernelType'
  BY <1>1, <1>2 DEF KernelType
<1>4. /\ descriptor'[f] = n /\ table'[n] = f
      /\ \A g \in Files \ {f} : descriptor'[g] = descriptor[g]
      /\ \A m \in Numbers \ {n} : table'[m] = table[m]
  BY <1>1, <1>2 DEF KernelType
<1>5. OneOwner'
  <2>1. ASSUME NEW g \in Files, descriptor'[g] # None
        PROVE  table'[descriptor'[g]] = g
    <3>1. CASE g = f
      BY <1>4, <3>1
    <3>2. CASE g # f
      <4>1. descriptor'[g] = descriptor[g] /\ descriptor[g] \in Numbers
        BY <1>2, <1>4, <2>1, <3>2 DEF KernelType
      <4>2. table[descriptor[g]] = g /\ g # None
        BY <2>1, <4>1, NoneAssumption DEF Inv, OneOwner
      <4>3. descriptor[g] # n
        BY <1>1, <4>2
      <4> QED
        BY <1>4, <4>1, <4>2, <4>3
    <3> QED
      BY <3>1, <3>2
  <2>2. ASSUME NEW m \in Numbers, NEW k \in Numbers, table'[m] = table'[k], table'[m] # None
        PROVE  m = k
    <3>1. CASE m # n /\ k # n
      BY <1>4, <2>2, <3>1 DEF Inv, OneOwner
    <3>2. CASE m = n \/ k = n
      BY <1>1, <1>4, <2>2, <3>2
    <3> QED
      BY <3>1, <3>2
  <2> QED
    BY <2>1, <2>2 DEF OneOwner
<1>6. AtWork'
  BY RestsAtWork
<1>7. ASSUME NEW u \in Threads, pc'[u] # "idle"
      PROVE  /\ Rests(u) /\ file[u] \in Files /\ file[u] # f
             /\ descriptor'[file[u]] = descriptor[file[u]]
             /\ link'[file[u]] = link[file[u]]
  <2>1. Rests(u)
    BY <1>7 DEF Returns
  <2>2. file[u] # None
    BY <1>7, <2>1 DEF Inv, AtWork, Rests
  <2>3. file[u] \in Files
    BY <2>2 DEF Inv, ThreadType
  <2> QED
    BY <1>1, <1>4, <2>1, <2>3
<1>8. \A u \in Threads : handle'[u] # None => pc'[u] # "idle"
  BY <1>6 DEF AtWork
<1>9. ASSUME NEW u \in Threads, handle'[u] # None, Socket(u) # None
      PROVE  Socket(u)' = Socket(u) /\ handle[u] # n
  <2>1. Rests(u)
    BY <1>7, <1>8, <1>9
  <2>2. handle[u] # None /\ handle'[u] = handle[u]
    BY <1>9, <2>1 DEF Rests
  <2>3. handle[u] \in Numbers /\ table[handle[u]] # None
    BY <1>9, <2>2 DEF Inv, ThreadType, Socket
  <2>4. handle[u] # n
    BY <1>1, <2>3
  <2> QED
    BY <1>4, <2>2, <2>3, <2>4 DEF Socket
<1>10. StrayOnlyWhenClosed'
  <2> SUFFICES ASSUME NEW u \in Threads, handle'[u] # None, descriptor'[file'[u]] # None
               PROVE  Socket(u)' = file'[u]
    BY DEF StrayOnlyWhenClosed
  <2>1. pc'[u] # "idle"
    BY <1>8
  <2>2. Rests(u) /\ file[u] \in Files /\ descriptor'[file[u]] = descriptor[file[u]]
    BY <1>7, <2>1
  <2>3. Socket(u) = file[u] /\ file[u] # None
    BY <2>2, NoneAssumption DEF Inv, StrayOnlyWhenClosed, Rests
  <2> QED
    BY <1>9, <2>2, <2>3 DEF Rests
<1>11. CloserOwns'
  <2>1. ASSUME NEW u \in Threads, Closer(u)'
        PROVE  Closer(u) /\ Rests(u) /\ descriptor'[file[u]] = descriptor[file[u]]
               /\ file[u] \in Files
    <3>1. pc'[u] # "idle"
      BY <2>1 DEF Closer
    <3> QED
      BY <1>7, <2>1, <3>1 DEF Closer, Rests
  <2>2. ASSUME NEW u \in Threads, Closer(u)'
        PROVE  /\ op'[u] = "close" /\ handle'[u] # None
               /\ file'[u] \in closing'
               /\ table'[handle'[u]] = file'[u]
               /\ pc'[u] = "act" => descriptor'[file'[u]] = None
    <3>1. /\ op[u] = "close" /\ handle[u] # None
          /\ file[u] \in closing
          /\ table[handle[u]] = file[u]
          /\ pc[u] = "act" => descriptor[file[u]] = None
      BY <2>1, <2>2 DEF Inv, CloserOwns
    <3>2. Socket(u) = file[u] /\ file[u] # None /\ handle'[u] = handle[u]
      BY <2>1, <2>2, <3>1, NoneAssumption DEF Socket, Rests
    <3>3. Socket(u)' = file[u]
      BY <1>9, <3>1, <3>2
    <3>4. table'[handle'[u]] = file[u]
      BY <3>1, <3>2, <3>3 DEF Socket
    <3> QED
      BY <2>1, <2>2, <3>1, <3>4 DEF Rests
  <2>3. \A u, v \in Threads : Closer(u)' /\ Closer(v)' /\ file'[u] = file'[v] => u = v
    BY <2>1 DEF Inv, CloserOwns, Rests
  <2> QED
    BY <2>2, <2>3 DEF CloserOwns
<1>12. ConnectHolds'
  <2> SUFFICES ASSUME NEW u \in Threads, pc'[u] # "idle"
      PROVE  /\ op'[u] = "connect" /\ pc'[u] \notin {"idle", "fetch"}
                /\ descriptor'[file'[u]] # None => handle'[u] # None
             /\ pc'[u] \in {"check", "recheck"} /\ descriptor'[file'[u]] # None
                => link'[file'[u]] # "no"
             /\ pc'[u] = "recheck" /\ descriptor'[file'[u]] # None
                /\ answer'[u] = "connected" => link'[file'[u]] = "yes"
    BY DEF ConnectHolds
  <2> QED
    BY <1>7 DEF Inv, ConnectHolds, Rests
<1> QED
  BY <1>3, <1>5, <1>6, <1>10, <1>11, <1>12 DEF Inv

(* Creating a socket. *)
LEMMA CreateKeeps ==
  ASSUME NEW f \in Files, Inv, CreateSocket(f)
  PROVE  Inv'
<1>1. PICK n \in Numbers : NewSocket(f, n)
  BY DEF CreateSocket
<1>2. /\ Fresh(f) /\ closing' = closing
      /\ UNCHANGED sockets
      /\ UNCHANGED <<pc, op, file, handle, left, answer, inside>>
  BY DEF CreateSocket, thread
<1>3. ThreadType' /\ SocketType' /\ link' = link
  BY <1>2 DEF Inv, ThreadType, SocketType, sockets
<1>4. \A u \in Threads : Rests(u)
  BY <1>2 DEF Rests
<1> QED
  BY <1>1, <1>2, <1>3, <1>4, NewSocketKeeps

(* Accepting creates a socket, gets no number, blocks or fails. *)
LEMMA AcceptFromKeeps ==
  ASSUME NEW t \in Threads, NEW s \in Files, Inv, AcceptFrom(t, s)
  PROVE  Inv'
<1>1. Return(t) /\ queue[s] > 0
  BY DEF AcceptFrom
<1>2. CASE UNCHANGED <<kernel, sockets>>
  BY <1>1, <1>2, ReturnMoves, SameSockets, MovesKeep
<1>3. ASSUME NEW n \in Numbers, NEW f \in Files, Fresh(f), NewSocket(f, n),
             queue' = [queue EXCEPT ![s] = @ - 1], link' = [link EXCEPT ![f] = "yes"],
             UNCHANGED <<closing, blocking>>
      PROVE  Inv'
  <2>1. SocketType
    BY DEF Inv
  <2>2. queue' \in [Files -> 0..MaxQueue]
    <3>1. queue \in [Files -> 0..MaxQueue]
      BY <2>1 DEF SocketType
    <3>2. queue[s] > 0 /\ queue' = [queue EXCEPT ![s] = @ - 1]
      BY <1>1, <1>3
    <3> QED
      BY <3>1, <3>2, BoundAssumption
  <2>3. SocketType' /\ \A g \in Files \ {f} : link'[g] = link[g]
    BY <1>3, <2>1, <2>2 DEF SocketType
  <2> QED
    BY <1>1, <1>3, <2>3, ReturnReturns, NewSocketKeeps
<1> QED
  BY <1>2, <1>3 DEF AcceptFrom

(* A connection is accepted, at once or out of a wait, or the call fails. *)
LEMMA AcceptKeeps ==
  ASSUME NEW t \in Threads, Inv, AcceptSocket(t)
  PROVE  Inv'
<1>1. pc[t] # "idle" /\ op[t] = "accept"
  BY DEF AcceptSocket, At
<1>2. ASSUME NEW s \in Files, Block(t, s), UNCHANGED <<kernel, sockets>>
      PROVE  Inv'
  BY <1>1, <1>2, BlockMoves, SameSockets, MovesKeep
<1>3. ASSUME Return(t), UNCHANGED <<kernel, sockets>>
      PROVE  Inv'
  BY <1>3, ReturnMoves, SameSockets, MovesKeep
<1>4. CASE pc[t] = "stuck" /\ AcceptFrom(t, inside[t])
  <2>1. inside[t] # None
    BY <1>4 DEF Inv, AtWork
  <2>2. inside[t] \in Files
    BY <2>1 DEF Inv, ThreadType
  <2> QED
    BY <1>4, <2>2, AcceptFromKeeps
<1>5. Socket(t) \in Files \cup {None}
  BY SocketIsFile
<1> QED
  BY <1>2, <1>3, <1>4, <1>5, AcceptFromKeeps DEF AcceptSocket, At

-----------------------------------------------------------------------------
(* Closing. *)

(* The lock is taken by one thread, which has read the number. *)
LEMMA CloseBeginKeeps ==
  ASSUME NEW t \in Threads, Inv, CloseBegin(t)
  PROVE  Inv'
<1>1. /\ pc[t] = "fetch" /\ op[t] = "close" /\ file[t] \notin closing
      /\ Fetch(t, "unset")
      /\ closing' = IF descriptor[file[t]] = None THEN closing ELSE closing \cup {file[t]}
      /\ UNCHANGED <<descriptor, table>> /\ UNCHANGED sockets
  BY DEF CloseBegin, At, sockets
<1>2. CASE descriptor[file[t]] = None
  <2>1. Return(t) /\ UNCHANGED kernel
    BY <1>1, <1>2 DEF Fetch, kernel
  <2> QED
    BY <1>1, <2>1, ReturnMoves, SameSockets, MovesKeep
<1>3. CASE descriptor[file[t]] # None
  <2>1. file[t] \in Files
    <3>1. file[t] # None
      BY <1>1 DEF Inv, AtWork
    <3> QED
      BY <3>1 DEF Inv, ThreadType
  <2>2. descriptor[file[t]] \in Numbers
    BY <1>3, <2>1 DEF Inv, KernelType
  <2>3. /\ handle' = [handle EXCEPT ![t] = descriptor[file[t]]]
        /\ pc' = [pc EXCEPT ![t] = "unset"]
        /\ UNCHANGED <<op, file, left, answer, inside>>
        /\ closing' = closing \cup {file[t]}
    BY <1>1, <1>3 DEF Fetch, Goto
  <2>4. ThreadType'
    BY <2>2, <2>3 DEF Inv, ThreadType, PCs
  <2>5. /\ pc'[t] = "unset" /\ handle'[t] = descriptor[file[t]]
        /\ \A u \in Threads \ {t} : pc'[u] = pc[u] /\ handle'[u] = handle[u]
    BY <2>3 DEF Inv, ThreadType
  <2>6. KernelType' /\ SocketType' /\ OneOwner'
    BY <1>1, <2>1, <2>3 DEF Inv, KernelType, SocketType, OneOwner, sockets
  <2>7. AtWork'
    BY <1>1, <2>3, <2>5 DEF Inv, AtWork
  <2>8. table[descriptor[file[t]]] = file[t]
    BY <1>3, <2>1 DEF Inv, OneOwner
  <2>9. StrayOnlyWhenClosed'
    BY <1>1, <2>3, <2>5, <2>8 DEF Inv, StrayOnlyWhenClosed, Socket
  <2>10. CloserOwns'
    <3>1. \A u \in Threads \ {t} : Closer(u)' => Closer(u)
      BY <2>3, <2>5 DEF Closer
    <3>2. \A u \in Threads : Closer(u)' =>
            /\ op'[u] = "close" /\ handle'[u] # None
            /\ file'[u] \in closing'
            /\ table'[handle'[u]] = file'[u]
            /\ pc'[u] = "act" => descriptor'[file'[u]] = None
      BY <1>1, <1>3, <2>3, <2>5, <2>8, <3>1 DEF Inv, CloserOwns
    <3>3. \A u \in Threads \ {t} : Closer(u)' => file[u] # file[t]
      BY <1>1, <3>1 DEF Inv, CloserOwns
    <3>4. \A u, v \in Threads : Closer(u)' /\ Closer(v)' /\ file'[u] = file'[v] => u = v
      BY <2>3, <3>1, <3>3 DEF Inv, CloserOwns
    <3> QED
      BY <3>2, <3>4 DEF CloserOwns
  <2>11. ConnectHolds'
    BY <1>1, <2>3, <2>5 DEF Inv, ConnectHolds, sockets
  <2> QED
    BY <2>4, <2>6, <2>7, <2>9, <2>10, <2>11 DEF Inv
<1> QED
  BY <1>2, <1>3

(* The descriptor is emptied. *)
LEMMA UnsetKeeps ==
  ASSUME NEW t \in Threads, Inv, pc[t] = "unset", Unset(file[t]), Continue(t, "act"),
         UNCHANGED <<table, closing, sockets>>
  PROVE  Inv'
<1>1. /\ Closer(t) /\ op[t] = "close" /\ handle[t] # None
      /\ file[t] \in closing /\ table[handle[t]] = file[t]
  BY DEF Inv, CloserOwns, Closer
<1>2. /\ descriptor' = [descriptor EXCEPT ![file[t]] = None]
      /\ pc' = [pc EXCEPT ![t] = "act"]
      /\ UNCHANGED <<op, file, handle, left, answer, inside, table, closing, link>>
      /\ UNCHANGED sockets
  BY DEF Unset, Continue, Goto, sockets
<1>3. ThreadType'
  BY <1>2 DEF Inv, ThreadType, PCs
<1>4. KernelType' /\ SocketType'
  BY <1>2 DEF Inv, KernelType, SocketType, sockets
<1>5. file[t] \in Files
  BY <1>1 DEF Inv, KernelType
<1>6. /\ descriptor'[file[t]] = None
      /\ \A g \in Files \ {file[t]} : descriptor'[g] = descriptor[g]
      /\ pc'[t] = "act"
      /\ \A u \in Threads \ {t} : pc'[u] = pc[u]
  BY <1>2, <1>5 DEF Inv, KernelType, ThreadType
<1>7. OneOwner'
  BY <1>2, <1>6 DEF Inv, OneOwner
<1>8. AtWork'
  BY <1>1, <1>2, <1>6 DEF Inv, AtWork
<1>9. \A u \in Threads : file[u] \in Files \cup {None}
  BY DEF Inv, ThreadType
<1>10. \A u \in Threads : pc[u] # "idle" => file[u] \in Files
  BY <1>9 DEF Inv, AtWork
<1>11. \A u \in Threads : pc[u] # "idle" /\ descriptor'[file[u]] # None
         => descriptor'[file[u]] = descriptor[file[u]]
  BY <1>6, <1>10
<1>12. \A u \in Threads : pc'[u] = "idle" <=> pc[u] = "idle"
  BY <1>6
<1>13. StrayOnlyWhenClosed'
  <2> SUFFICES ASSUME NEW u \in Threads, handle'[u] # None, descriptor'[file'[u]] # None
               PROVE  Socket(u)' = file'[u]
    BY DEF StrayOnlyWhenClosed
  <2>1. pc[u] # "idle" /\ file'[u] = file[u] /\ handle[u] # None
    BY <1>2 DEF Inv, AtWork
  <2>2. Socket(u) = file[u]
    BY <1>2, <1>11, <2>1 DEF Inv, StrayOnlyWhenClosed
  <2> QED
    BY <1>2, <2>1, <2>2 DEF Socket
<1>14. CloserOwns'
  <2>1. \A u \in Threads : Closer(u)' => Closer(u)
    BY <1>1, <1>2, <1>6 DEF Closer
  <2>2. \A u \in Threads \ {t} : Closer(u)' => file[u] # file[t]
    BY <1>1, <2>1 DEF Inv, CloserOwns
  <2>3. ASSUME NEW u \in Threads, Closer(u)'
        PROVE  /\ op'[u] = "close" /\ handle'[u] # None
               /\ file'[u] \in closing'
               /\ table'[handle'[u]] = file'[u]
               /\ pc'[u] = "act" => descriptor'[file'[u]] = None
    <3>1. CASE u = t
      BY <1>1, <1>2, <1>6, <3>1
    <3>2. CASE u # t
      <4>1. /\ op[u] = "close" /\ handle[u] # None
            /\ file[u] \in closing
            /\ table[handle[u]] = file[u]
            /\ pc[u] = "act" => descriptor[file[u]] = None
        BY <2>1, <2>3 DEF Inv, CloserOwns
      <4>2. pc[u] # "idle" /\ pc'[u] = pc[u]
        BY <1>6, <2>1, <2>3, <3>2 DEF Closer
      <4> QED
        BY <1>2, <1>11, <4>1, <4>2
    <3> QED
      BY <3>1, <3>2
  <2>4. \A u, v \in Threads : Closer(u)' /\ Closer(v)' /\ file'[u] = file'[v] => u = v
    BY <1>2, <2>1 DEF Inv, CloserOwns
  <2> QED
    BY <2>3, <2>4 DEF CloserOwns
<1>15. ConnectHolds'
  <2> SUFFICES ASSUME NEW u \in Threads, pc'[u] # "idle"
      PROVE  /\ op'[u] = "connect" /\ pc'[u] \notin {"idle", "fetch"}
                /\ descriptor'[file'[u]] # None => handle'[u] # None
             /\ pc'[u] \in {"check", "recheck"} /\ descriptor'[file'[u]] # None
                => link'[file'[u]] # "no"
             /\ pc'[u] = "recheck" /\ descriptor'[file'[u]] # None
                /\ answer'[u] = "connected" => link'[file'[u]] = "yes"
    BY DEF ConnectHolds
  <2>1. CASE u = t
    BY <1>1, <1>2, <1>6, <2>1
  <2>2. CASE u # t
    BY <1>2, <1>6, <1>11, <1>12, <2>2 DEF Inv, ConnectHolds
  <2> QED
    BY <2>1, <2>2
<1> QED
  BY <1>3, <1>4, <1>7, <1>8, <1>13, <1>14, <1>15 DEF Inv

(* The number is given back: it was still the one of the closed socket. *)
LEMMA GiveBackKeeps ==
  ASSUME NEW t \in Threads, Inv, pc[t] = "act", op[t] = "close", GiveBack(handle[t]),
         closing' = closing \ {file[t]}, Return(t), UNCHANGED descriptor
  PROVE  Inv'
<1> DEFINE n == handle[t]
           f == file[t]
<1>1. /\ Closer(t) /\ n # None /\ f \in closing /\ table[n] = f /\ descriptor[f] = None
  BY DEF Inv, CloserOwns, Closer
<1>2. n \in Numbers /\ f \in Files /\ f # None
  BY <1>1, NoneAssumption DEF Inv, ThreadType, KernelType
<1>3. /\ table' = [table EXCEPT ![n] = None]
      /\ queue' = [g \in Files |-> IF g = f /\ ~Used(g) THEN 0 ELSE queue[g]]
      /\ link' = [g \in Files |-> IF g = f THEN "no" ELSE link[g]]
      /\ blocking' = [g \in Files |-> blocking[g] \/ g = f]
  BY <1>1 DEF GiveBack
<1>4. ThreadType' /\ \A u \in Threads : Rests(u) \/ Returns(u)
  BY ReturnReturns
<1>5. Returns(t) /\ \A u \in Threads \ {t} : Rests(u)
  BY DEF Inv, ThreadType, Return, Goto, Returns, Rests
<1> HIDE DEF n, f
<1>6. KernelType'
  BY <1>1, <1>2, <1>3 DEF Inv, KernelType, f
<1>7. SocketType'
  <2>1. queue' \in [Files -> 0..MaxQueue]
    <3>0. 0 \in 0..MaxQueue
      BY BoundAssumption
    <3>1. queue \in [Files -> 0..MaxQueue]
      BY DEF Inv, SocketType
    <3>2. \A g \in Files : (IF g = f /\ ~Used(g) THEN 0 ELSE queue[g]) \in 0..MaxQueue
      BY <3>0, <3>1, Zenon
    <3> QED
      BY <1>3, <3>2, Zenon
  <2>2. link' \in [Files -> {"no", "under way", "yes", "refused"}]
    BY <1>3 DEF Inv, SocketType
  <2>3. blocking' \in [Files -> BOOLEAN]
    BY <1>3
  <2> QED
    BY <2>1, <2>2, <2>3 DEF SocketType
<1>8. table'[n] = None /\ \A m \in Numbers \ {n} : table'[m] = table[m]
  BY <1>2, <1>3 DEF Inv, KernelType
<1>9. OneOwner'
  <2>1. ASSUME NEW g \in Files, descriptor[g] # None
        PROVE  descriptor[g] \in Numbers /\ descriptor[g] # n /\ table[descriptor[g]] = g
    BY <1>1, <2>1 DEF Inv, KernelType, OneOwner
  <2>2. \A g \in Files : descriptor'[g] # None => table'[descriptor'[g]] = g
    BY <1>8, <2>1
  <2>3. \A m, k \in Numbers : table'[m] = table'[k] /\ table'[m] # None => m = k
    BY <1>8 DEF Inv, OneOwner
  <2> QED
    BY <2>2, <2>3 DEF OneOwner
<1>10. AtWork'
  BY <1>4, RestsAtWork
<1>11. ASSUME NEW u \in Threads, pc'[u] # "idle"
       PROVE  Rests(u) /\ u # t /\ file[u] \in Files
  <2>1. u # t /\ Rests(u)
    BY <1>5, <1>11 DEF Returns
  <2>2. file[u] # None
    BY <1>11, <2>1 DEF Inv, AtWork, Rests
  <2> QED
    BY <2>1, <2>2 DEF Inv, ThreadType
<1>12. ASSUME NEW u \in Threads, pc'[u] # "idle", handle[u] # None, table[handle[u]] # f
       PROVE  table'[handle[u]] = table[handle[u]]
  <2>1. handle[u] \in Numbers
    BY <1>12 DEF Inv, ThreadType
  <2> QED
    BY <1>1, <1>8, <1>12, <2>1
<1>13. StrayOnlyWhenClosed'
  <2> SUFFICES ASSUME NEW u \in Threads, handle'[u] # None, descriptor'[file'[u]] # None
               PROVE  Socket(u)' = file'[u]
    BY DEF StrayOnlyWhenClosed
  <2>1. pc'[u] # "idle"
    BY <1>10 DEF AtWork
  <2>2. Rests(u)
    BY <1>11, <2>1
  <2>3. handle'[u] = handle[u] /\ file'[u] = file[u]
    BY <2>2 DEF Rests
  <2>4. handle[u] # None /\ Socket(u) = file[u] /\ file[u] # f
    BY <1>1, <2>3 DEF Inv, StrayOnlyWhenClosed
  <2>5. table'[handle[u]] = table[handle[u]]
    BY <1>12, <2>1, <2>4 DEF Socket
  <2> QED
    BY <2>3, <2>4, <2>5 DEF Socket
<1>14. CloserOwns'
  <2>1. ASSUME NEW u \in Threads, Closer(u)'
        PROVE  pc'[u] # "idle" /\ Closer(u) /\ Rests(u) /\ u # t
    <3>1. pc'[u] # "idle"
      BY <2>1 DEF Closer
    <3> QED
      BY <1>11, <2>1, <3>1 DEF Closer, Rests
  <2>2. ASSUME NEW u \in Threads, Closer(u)'
        PROVE  /\ op'[u] = "close" /\ handle'[u] # None
               /\ file'[u] \in closing'
               /\ table'[handle'[u]] = file'[u]
               /\ pc'[u] = "act" => descriptor'[file'[u]] = None
    <3>1. /\ op[u] = "close" /\ handle[u] # None
          /\ file[u] \in closing
          /\ table[handle[u]] = file[u]
          /\ pc[u] = "act" => descriptor[file[u]] = None
      BY <2>1, <2>2 DEF Inv, CloserOwns
    <3>2. file[u] # f
      BY <1>1, <2>1, <2>2 DEF Inv, CloserOwns, f
    <3>3. table'[handle[u]] = file[u]
      BY <1>12, <2>1, <2>2, <3>1, <3>2
    <3> QED
      BY <2>1, <2>2, <3>1, <3>2, <3>3 DEF Rests, f
  <2>3. \A u, v \in Threads : Closer(u)' /\ Closer(v)' /\ file'[u] = file'[v] => u = v
    BY <2>1 DEF Inv, CloserOwns, Rests
  <2> QED
    BY <2>2, <2>3 DEF CloserOwns
<1>15. ConnectHolds'
  <2> SUFFICES ASSUME NEW u \in Threads, pc'[u] # "idle"
      PROVE  /\ op'[u] = "connect" /\ pc'[u] \notin {"idle", "fetch"}
                /\ descriptor'[file'[u]] # None => handle'[u] # None
             /\ pc'[u] \in {"check", "recheck"} /\ descriptor'[file'[u]] # None
                => link'[file'[u]] # "no"
             /\ pc'[u] = "recheck" /\ descriptor'[file'[u]] # None
                /\ answer'[u] = "connected" => link'[file'[u]] = "yes"
    BY DEF ConnectHolds
  <2>1. Rests(u) /\ file[u] \in Files
    BY <1>11
  <2>2. descriptor'[file[u]] # None => link'[file[u]] = link[file[u]]
    BY <1>1, <1>3, <2>1
  <2> QED
    BY <2>1, <2>2 DEF Inv, ConnectHolds, Rests
<1> QED
  BY <1>4, <1>6, <1>7, <1>9, <1>10, <1>13, <1>14, <1>15 DEF Inv

-----------------------------------------------------------------------------
(* The network, and the whole of Next. *)

(* What the network does, and a step in which nothing happens, changes no
   thread and no ownership. *)
LEMMA NetworkKeeps ==
  ASSUME Inv, UNCHANGED <<kernel, thread>>, SocketType', LinkGrows
  PROVE  Inv'
<1> USE DEF kernel, thread
<1>1. KernelType' /\ ThreadType'
  BY DEF Inv, KernelType, ThreadType
<1>2. OneOwner' /\ AtWork'
  BY DEF Inv, OneOwner, AtWork
<1>3. StrayOnlyWhenClosed'
  BY DEF Inv, StrayOnlyWhenClosed, Socket
<1>4. CloserOwns'
  BY DEF Inv, CloserOwns, Closer
<1>5. ConnectHolds'
  <2>1. \A t \in Threads : pc[t] # "idle" => file[t] \in Files
    BY DEF Inv, AtWork, ThreadType
  <2> QED
    BY <2>1 DEF Inv, ConnectHolds, LinkGrows
<1> QED
  BY <1>1, <1>2, <1>3, <1>4, <1>5 DEF Inv

(* Something arrives. *)
LEMMA ArriveKeeps ==
  ASSUME NEW f \in Files, Inv, Arrive(f)
  PROVE  Inv'
<1>1. queue \in [Files -> 0..MaxQueue] /\ queue[f] < MaxQueue
  BY DEF Inv, SocketType, Arrive
<1>2. queue' \in [Files -> 0..MaxQueue]
  <2>1. queue[f] + 1 \in 0..MaxQueue
    BY <1>1, BoundAssumption
  <2> QED
    BY <1>1, <2>1 DEF Arrive
<1>3. SocketType' /\ LinkGrows
  BY <1>2 DEF Inv, SocketType, LinkGrows, Arrive
<1> QED
  BY <1>3, NetworkKeeps DEF Arrive

(* The peer answers. *)
LEMMA PeerAnswersKeeps ==
  ASSUME NEW f \in Files, Inv, PeerAnswers(f)
  PROVE  Inv'
<1>1. PICK l \in {"yes", "refused"} : link' = [link EXCEPT ![f] = l]
  BY DEF PeerAnswers
<1>2. SocketType' /\ LinkGrows
  BY <1>1 DEF Inv, SocketType, LinkGrows, PeerAnswers
<1> QED
  BY <1>2, NetworkKeeps DEF PeerAnswers

(* Reading in all its forms. *)
LEMMA ReadKeeps ==
  ASSUME NEW t \in Threads, Inv, Read(t)
  PROVE  Inv'
<1>1. CASE Look(t)
  BY <1>1, PollMoves, SameSockets, MovesKeep
<1>2. CASE Unblock(t)
  BY <1>2, UnblockMoves, MovesKeep
<1>3. CASE AcceptSocket(t)
  BY <1>3, AcceptKeeps
<1>4. CASE \/ PeekDatagram(t) \/ ReceiveDatagram(t) \/ RecvConnectedDatagram(t)
           \/ AvailableStream(t) \/ ReadSocket(t) \/ ReceiveStream(t)
  BY <1>4, ReadMoves, MovesKeep
<1>5. CASE Select(t) \/ Selected(t)
  BY <1>5, SelectMoves, SameSockets, MovesKeep
<1> QED
  BY <1>1, <1>2, <1>3, <1>4, <1>5 DEF Read

(* Closing, in its two halves. *)
LEMMA CloseKeeps ==
  ASSUME NEW t \in Threads, Inv, Close(t)
  PROVE  Inv'
<1>1. CASE CloseBegin(t)
  BY <1>1, CloseBeginKeeps
<1>2. ASSUME At(t, "unset", {"close"}), Unset(file[t]), Continue(t, "act"),
             UNCHANGED <<table, closing, sockets>>
      PROVE  Inv'
  BY <1>2, UnsetKeeps DEF At
<1>3. ASSUME At(t, "act", {"close"}), GiveBack(handle[t]),
             closing' = closing \ {file[t]}, Return(t), UNCHANGED descriptor
      PROVE  Inv'
  BY <1>3, GiveBackKeeps DEF At
<1> QED
  BY <1>1, <1>2, <1>3 DEF Close, SocketClose

(* Every step keeps the invariant. *)
LEMMA NextKeeps == Inv /\ [Next]_vars => Inv'
<1> SUFFICES ASSUME Inv, [Next]_vars PROVE Inv'
  OBVIOUS
<1>1. ASSUME NEW f \in Files, CreateSocket(f) \/ Arrive(f) \/ PeerAnswers(f)
      PROVE  Inv'
  BY <1>1, CreateKeeps, ArriveKeeps, PeerAnswersKeeps
<1>2. ASSUME NEW t \in Threads, Step(t)
      PROVE  Inv'
  <2>1. CASE Poll(t) \/ FetchOnce(t)
    BY <2>1, PollMoves, SameSockets, MovesKeep
  <2>2. CASE Send(t)
    BY <2>2, SendMoves, SameSockets, MovesKeep
  <2> QED
    BY <1>2, <2>1, <2>2, ReadKeeps, ConnectStepKeeps, CloseKeeps DEF Step
<1>3. ASSUME NEW t \in Threads, NEW f \in Files, NEW u \in Uses[t],
             Call(t, f, u[1], u[2])
      PROVE  Inv'
  BY <1>3, CallKeeps
<1>4. CASE UNCHANGED vars
  <2>1. UNCHANGED <<kernel, thread>> /\ UNCHANGED sockets
    BY <1>4 DEF vars
  <2> QED
    BY <2>1, SameSockets, NetworkKeeps
<1> QED
  BY <1>1, <1>2, <1>3, <1>4 DEF Next

(* At first no socket exists and every thread is idle. *)
LEMMA InitHolds == Init => Inv
<1> SUFFICES ASSUME Init PROVE Inv
  OBVIOUS
<1>1. KernelType /\ ThreadType
  BY DEF Init, KernelType, ThreadType, PCs
<1>2. SocketType
  <2>1. 0 \in 0..MaxQueue
    BY BoundAssumption
  <2> QED
    BY <2>1 DEF Init, SocketType
<1>3. OneOwner /\ StrayOnlyWhenClosed
  BY DEF Init, OneOwner, StrayOnlyWhenClosed
<1>4. AtWork /\ CloserOwns /\ ConnectHolds
  BY DEF Init, AtWork, CloserOwns, Closer, ConnectHolds
<1> QED
  BY <1>1, <1>2, <1>3, <1>4 DEF Inv

(* The invariant holds in every state, whatever the threads, the descriptors
   and the numbers. *)
THEOREM Invariance == Spec => []Inv
<1>1. Inv /\ [Next]_vars => Inv'
  BY NextKeeps
<1> QED
  BY InitHolds, <1>1, PTL DEF Spec

-----------------------------------------------------------------------------
(* The properties. *)

(* Descriptors, kernel, sockets and threads stay in their types. *)
THEOREM TypeCorrect == Spec => []TypeOK
<1>1. Inv => TypeOK
  BY TypeParts DEF Inv
<1> QED
  BY Invariance, <1>1, PTL

(* No close takes a number that was given to another socket meanwhile. *)
THEOREM KeepsOwner == Spec => []OneOwner
<1>1. Inv => OneOwner
  BY DEF Inv
<1> QED
  BY Invariance, <1>1, PTL

(* A thread works on a socket that is not its own only after a close that fell
   between its read of the number and its system call. *)
THEOREM KeepsToOwn == Spec => []StrayOnlyWhenClosed
<1>1. Inv => StrayOnlyWhenClosed
  BY DEF Inv
<1> QED
  BY Invariance, <1>1, PTL

(* A step of a thread sends that thread somewhere, and no other. *)
LEMMA OthersRest ==
  ASSUME NEW t \in Threads, Inv, Step(t)
  PROVE  \A u \in Threads \ {t} : pc'[u] = pc[u]
<1>1. CASE Poll(t) \/ FetchOnce(t) \/ Look(t)
  BY <1>1, PollMoves DEF Moves, Alone
<1>2. CASE \/ PeekDatagram(t) \/ ReceiveDatagram(t) \/ RecvConnectedDatagram(t)
           \/ AvailableStream(t) \/ ReadSocket(t) \/ ReceiveStream(t)
  BY <1>2, ReadMoves DEF Moves, Alone
<1>3. CASE Unblock(t)
  BY <1>3, UnblockMoves DEF Moves, Alone
<1>4. CASE AcceptSocket(t)
  BY <1>4 DEF AcceptSocket, AcceptFrom, Block, Return, Goto, Inv, ThreadType
<1>5. CASE Send(t)
  BY <1>5, SendMoves DEF Moves, Alone
<1>6. CASE ConnectStep(t)
  BY <1>6, ConnectStartMoves, ConnectMoves, ConnectCheckMoves, ConnectRecheckMoves,
     ConnectDoneMoves DEF ConnectStep, Moves, Alone
<1>7. CASE Close(t)
  BY <1>7 DEF Close, CloseBegin, SocketClose, Fetch, Continue, Return, Goto, Inv, ThreadType
<1>8. CASE Select(t) \/ Selected(t)
  BY <1>8, SelectMoves DEF Moves, Alone
<1> QED
  BY <1>1, <1>2, <1>3, <1>4, <1>5, <1>6, <1>7, <1>8 DEF Step, Read

(* Whoever is elsewhere after a step, and was not idle, made the step. *)
LEMMA OwnStep ==
  ASSUME Inv, [Next]_vars, NEW t \in Threads, pc'[t] # pc[t], pc[t] # "idle"
  PROVE  Step(t)
<1>1. ASSUME NEW u \in Threads, Step(u)
      PROVE  u = t
  BY <1>1, OthersRest
<1>2. ASSUME NEW u \in Threads, NEW f \in Files, NEW v \in Uses[u], Call(u, f, v[1], v[2])
      PROVE  FALSE
  BY <1>2 DEF Call, Goto, Inv, ThreadType
<1>3. ASSUME NEW f \in Files, CreateSocket(f) \/ Arrive(f) \/ PeerAnswers(f)
      PROVE  FALSE
  BY <1>3 DEF CreateSocket, Arrive, PeerAnswers, thread
<1>4. ~ UNCHANGED vars
  BY DEF vars, thread
<1> QED
  BY <1>1, <1>2, <1>3, <1>4 DEF Next

(* A connect concludes that it is connected from its own socket. *)
LEMMA TruthfulStep ==
  ASSUME Inv, [Next]_vars, NEW t \in Threads,
         pc[t] = "recheck", pc'[t] = "done", answer'[t] = "connected"
  PROVE  descriptor[file[t]] # None /\ link[file[t]] = "yes"
<1>1. Step(t)
  BY OwnStep
<1>2. ConnectRecheck(t)
  BY <1>1 DEF Step, Poll, StartPoll, PollSelect, Refetch, FetchOnce, Read, PeekDatagram,
              ReceiveDatagram, RecvConnectedDatagram, Look, AvailableStream, Select, Selected,
              ReadSocket, ReceiveStream, Unblock, AcceptSocket, Send, SendDatagram,
              SendConnectedDatagram, WriteSocket, SendStream, SendOnce, ConnectStep,
              ConnectStart, Connect, ConnectCheck, ConnectDone, Close, CloseBegin,
              SocketClose, At
<1>3. descriptor[file[t]] # None
  BY <1>2 DEF ConnectRecheck, Answer, Inv, ThreadType
<1>4. answer[t] = "connected"
  BY <1>2, <1>3 DEF ConnectRecheck
<1> QED
  BY <1>3, <1>4 DEF Inv, ConnectHolds

(* select() may look at any socket that has the number, but a connect says
   that it is connected only when it is. *)
THEOREM ConnectTruth == Spec => ConnectedIsConnected
<1>1. Inv /\ [Next]_vars =>
        [\A t \in Threads :
           pc[t] = "recheck" /\ pc'[t] = "done" /\ answer'[t] = "connected"
             => descriptor[file[t]] # None /\ link[file[t]] = "yes"]_vars
  BY TruthfulStep
<1> QED
  BY Invariance, <1>1, PTL DEF Spec, ConnectedIsConnected

(* A connect that returns from past its first system call has cleaned up. *)
LEMMA RestoringStep ==
  ASSUME Inv, [Next]_vars, NEW t \in Threads, pc[t] \notin {"idle", "fetch"},
         op[t] = "connect", pc'[t] = "idle", descriptor[file[t]] # None
  PROVE  blocking'[file[t]]
<1>1. Step(t)
  BY OwnStep
<1>2. ConnectStep(t)
  BY <1>1 DEF Step, Poll, StartPoll, PollSelect, Refetch, FetchOnce, Read, PeekDatagram,
              ReceiveDatagram, RecvConnectedDatagram, Look, AvailableStream, Select, Selected,
              ReadSocket, ReceiveStream, Unblock, AcceptSocket, Send, SendDatagram,
              SendConnectedDatagram, WriteSocket, SendStream, SendOnce, Close, CloseBegin,
              SocketClose, At, Waits
<1>3. ConnectDone(t)
  BY <1>2 DEF ConnectStep, ConnectStart, Connect, ConnectCheck, ConnectRecheck, AfterCheck,
              Conclude, Continue, Goto, Inv, ThreadType
<1>4. handle[t] # None
  BY DEF Inv, ConnectHolds
<1>5. Socket(t) = file[t] /\ file[t] \in Files
  BY <1>4, OwnSocket
<1> QED
  BY <1>3, <1>5 DEF ConnectDone

(* However a connect ended, and whatever the other threads did, a socket that
   is still open blocks again. *)
THEOREM ConnectRestored == Spec => ConnectRestores
<1>1. Inv /\ [Next]_vars =>
        [\A t \in Threads :
           pc[t] \notin {"idle", "fetch"} /\ op[t] = "connect" /\ pc'[t] = "idle"
           /\ descriptor[file[t]] # None => blocking'[file[t]]]_vars
  BY RestoringStep
<1> QED
  BY Invariance, <1>1, PTL DEF Spec, ConnectRestores

=============================================================================
