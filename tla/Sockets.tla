------------------------------- MODULE Sockets -------------------------------
(***************************************************************************)
(* OSNetworkSystem: the native sockets under SipdroidSocket.  A Java       *)
(* FileDescriptor holds a number, the kernel's table says which socket the *)
(* number stands for, and a number that was closed is given out again.     *)
(*                                                                         *)
(* The functions take no lock.  They read the number from the descriptor   *)
(* and hand it to a system call, and another thread may close the socket   *)
(* in between or while they wait, so that every read of the number and     *)
(* every system call is a step of its own.  A wait is not always told of a *)
(* close: so those of datagrams, of accept() and of connect() are cut into *)
(* slices (100 ms), after each of which the number is read again.  The     *)
(* others are not: a read of a stream waits in one select() or one recv(), *)
(* as long as it is told, on the number that it read once.                 *)
(*                                                                         *)
(* Only datagram sockets have a Java class in this repository; the stream  *)
(* functions are closed the same way here.                                 *)
(***************************************************************************)
EXTENDS Integers

CONSTANTS
  Files,               \* FileDescriptor objects
  Threads,
  Numbers,             \* the numbers the kernel may give to a socket
  None,                \* -1 in a descriptor, "free" in the table
  Uses,                \* the functions a thread calls, with the slices their
                       \* timeouts last, None for ever
  MaxQueue             \* bound: datagrams, connections or bytes that wait

(* These wait in pollSelectWait(). *)
Waits == {"receive", "accept"}

(* Functions that differ in a system call only are of one kind: "receive" are
   the datagram functions; "look" is availableStreamImpl() and "read" the two
   that end in readSocketDirectImpl(). *)
Functions == Waits \cup {"look", "read", "receiveStream", "connect", "send", "close"}

ASSUME NoneAssumption  == None \notin Files \cup Numbers \cup Nat
ASSUME UsesAssumption  == Uses \in [Threads -> SUBSET (Functions \X (Nat \cup {None}))]
ASSUME NumbersAssumption == Numbers \subseteq Nat \ {0}      \* 0 counts as -1
ASSUME BoundAssumption == MaxQueue \in Nat

VARIABLES
  descriptor,          \* FileDescriptor.descriptor
  table,               \* the kernel: the descriptor whose socket a number is
  closing,             \* descriptors locked by PlainDatagramSocketImpl.close()
  queue,               \* what a socket can read
  link,                \* how far the connection of a socket is
  blocking,            \* FIONBIO
  pc, op, file,        \* where a thread is, in what, on which descriptor
  handle,              \* the number it has read
  left,                \* the slices it may still wait; None for ever
  answer,              \* what sockConnectWithTimeout() said last
  inside               \* the socket it waits or blocks in, in one system call

kernel  == <<descriptor, table, closing>>
sockets == <<queue, link, blocking>>
thread  == <<pc, op, file, handle, left, answer, inside>>
vars    == <<kernel, sockets, thread>>

TypeOK ==
  /\ descriptor \in [Files -> Numbers \cup {None}]
  /\ table \in [Numbers -> Files \cup {None}]
  /\ closing \subseteq Files
  /\ queue \in [Files -> 0..MaxQueue]
  /\ link \in [Files -> {"no", "under way", "yes", "refused"}]
  /\ blocking \in [Files -> BOOLEAN]
  /\ pc \in [Threads -> {"idle", "fetch", "select", "waiting", "refetch", "act", "stuck",
                         "connect", "check", "recheck", "done", "unset"}]
  /\ op \in [Threads -> Functions \cup {None}]
  /\ file \in [Threads -> Files \cup {None}]
  /\ handle \in [Threads -> Numbers \cup {None}]
  /\ left \in [Threads -> Nat \cup {None}]
  /\ answer \in [Threads -> {"not connected", "connected", "failed"}]
  /\ inside \in [Threads -> Files \cup {None}]

Init ==
  /\ descriptor = [f \in Files |-> None]
  /\ table = [n \in Numbers |-> None]
  /\ closing = {}
  /\ queue = [f \in Files |-> 0]
  /\ link = [f \in Files |-> "no"]
  /\ blocking = [f \in Files |-> TRUE]
  /\ pc = [t \in Threads |-> "idle"]
  /\ op = [t \in Threads |-> None]
  /\ file = [t \in Threads |-> None]
  /\ handle = [t \in Threads |-> None]
  /\ left = [t \in Threads |-> None]
  /\ answer = [t \in Threads |-> "not connected"]
  /\ inside = [t \in Threads |-> None]

-----------------------------------------------------------------------------
(* Steps of a thread. *)

Goto(t, where) == pc' = [pc EXCEPT ![t] = where]

(* The function returns or throws; its caller goes its own way. *)
Return(t) ==
  /\ Goto(t, "idle")
  /\ op' = [op EXCEPT ![t] = None]
  /\ file' = [file EXCEPT ![t] = None]
  /\ handle' = [handle EXCEPT ![t] = None]
  /\ left' = [left EXCEPT ![t] = None]
  /\ answer' = [answer EXCEPT ![t] = "not connected"]
  /\ inside' = [inside EXCEPT ![t] = None]

Continue(t, where) ==
  Goto(t, where) /\ UNCHANGED <<op, file, handle, left, answer, inside>>

At(t, where, functions) == pc[t] = where /\ op[t] \in functions

(* A system call on a number acts on the socket that has it by now. *)
Socket(t) == IF handle[t] = None THEN None ELSE table[handle[t]]

Open(f) == \E n \in Numbers : table[n] = f

(* jniGetFDFromFileDescriptor() and the test for 0 and -1 that follows. *)
Fetch(t, next) ==
  IF descriptor[file[t]] = None
    THEN Return(t)
    ELSE /\ handle' = [handle EXCEPT ![t] = descriptor[file[t]]]
         /\ Goto(t, next)
         /\ UNCHANGED <<op, file, left, answer, inside>>

(* A new socket gets the lowest number that is free. *)
Lowest(n) == table[n] = None /\ \A m \in Numbers : m < n => table[m] # None

NewSocket(f, n) ==
  /\ Lowest(n)
  /\ table' = [table EXCEPT ![n] = f]
  /\ descriptor' = [descriptor EXCEPT ![f] = n]

(* A FileDescriptor no socket was created for yet: one that was closed is
   dropped by all who know it and never opened again. *)
Fresh(f) ==
  /\ descriptor[f] = None
  /\ ~Open(f)
  /\ \A t \in Threads : f \notin {file[t], inside[t]}

(* createSocketImpl() is a system call and a store in the descriptor. *)
CreateSocket(f) ==
  /\ Fresh(f)
  /\ \E n \in Numbers : NewSocket(f, n)
  /\ UNCHANGED <<closing, sockets, thread>>

(* Some code calls a function for a descriptor it knows. *)
Call(t, f, o, slices) ==
  /\ pc[t] = "idle"
  /\ descriptor[f] # None
  /\ op' = [op EXCEPT ![t] = o]
  /\ file' = [file EXCEPT ![t] = f]
  /\ left' = [left EXCEPT ![t] = slices]
  /\ Goto(t, "fetch")
  /\ UNCHANGED <<kernel, sockets, handle, answer, inside>>

-----------------------------------------------------------------------------
(* Waiting for a socket to have something to read. *)

(* Faulty variant of StartPoll: the number is read before the loop only. *)
StartPollOnce(t) ==
  /\ At(t, "fetch", Waits)
  /\ IF handle[t] = None THEN Fetch(t, "select") ELSE Continue(t, "select")
  /\ UNCHANGED <<kernel, sockets>>

(* The head of the loop in pollSelectWait(). *)
StartPoll(t) ==
  /\ At(t, "fetch", Waits)
  /\ Fetch(t, "select")
  /\ UNCHANGED <<kernel, sockets>>

(* Faulty variant of SliceEnds: the time left is not computed again. *)
SliceEndsUncounted(t) == IF left[t] = 0 THEN Return(t) ELSE Continue(t, "fetch")

(* The slice is over and the wait goes on, with the number read again, until
   the time is up. *)
SliceEnds(t) ==
  IF left[t] = 0
    THEN Return(t)
    ELSE /\ left' = [left EXCEPT ![t] = IF @ = None THEN None ELSE @ - 1]
         /\ Goto(t, "fetch")
         /\ UNCHANGED <<op, file, handle, answer, inside>>

(* selectWait() of a slice and what pollSelectWait() does with its answer.
   A number that is free is an error if it is free when the wait begins; a
   wait that is under way is not told of a close. *)
PollSelect(t) ==
  /\ At(t, "select", Waits)
  /\ LET s == Socket(t) IN
     \/ s = None /\ Return(t)
     \/ s # None /\ queue[s] > 0 /\ Continue(t, "refetch")
     \/ (s # None => queue[s] = 0) /\ SliceEnds(t)
  /\ UNCHANGED <<kernel, sockets>>

(* The callers of pollSelectWait() read the number once more. *)
Refetch(t) ==
  /\ At(t, "refetch", Waits)
  /\ Fetch(t, "act")
  /\ UNCHANGED <<kernel, sockets>>

(* The functions that do not poll read the number once. *)
FetchOnce(t) ==
  /\ At(t, "fetch", Functions \ (Waits \cup {"close"}))
  /\ Fetch(t, IF op[t] \in {"look", "read"} THEN "select" ELSE "act")
  /\ UNCHANGED <<kernel, sockets>>

-----------------------------------------------------------------------------
(* Reading. *)

(* The thread blocks in the system call. *)
Block(t, s) ==
  /\ Goto(t, "stuck")
  /\ inside' = [inside EXCEPT ![t] = s]
  /\ UNCHANGED <<op, file, handle, left, answer>>

(* recv(): what waits at the socket, unless MSG_PEEK leaves it there, or an
   error, if the number is free or the call would block. *)
Receive(t, peek) ==
  /\ LET s == Socket(t) IN
     \/ /\ s # None /\ queue[s] > 0
        /\ queue' = [queue EXCEPT ![s] = IF peek THEN @ ELSE @ - 1]
        /\ Return(t)
     \/ s # None /\ queue[s] = 0 /\ blocking[s] /\ Block(t, s) /\ UNCHANGED queue
     \/ (s # None => queue[s] = 0 /\ ~blocking[s]) /\ Return(t) /\ UNCHANGED queue
  /\ UNCHANGED <<kernel, link, blocking>>

PeekDatagram(t)          == At(t, "act", {"receive"}) /\ Receive(t, TRUE)
ReceiveDatagram(t)       == At(t, "act", {"receive"}) /\ Receive(t, FALSE)
RecvConnectedDatagram(t) == At(t, "act", {"receive"}) /\ Receive(t, FALSE)

(* availableStreamImpl() looks for a microsecond, and does not read the number
   again before recv(). *)
Look(t) ==
  /\ At(t, "select", {"look"})
  /\ LET s == Socket(t) IN
     \/ s # None /\ queue[s] > 0 /\ Continue(t, "act")
     \/ (s # None => queue[s] = 0) /\ Return(t)
  /\ UNCHANGED <<kernel, sockets>>

(* readSocketDirectImpl() waits in one select() for the socket that the number
   is now, ... *)
Select(t) ==
  /\ At(t, "select", {"read"})
  /\ LET s == Socket(t) IN
     \/ s = None /\ Return(t)
     \/ /\ s # None
        /\ Goto(t, "waiting")
        /\ inside' = [inside EXCEPT ![t] = s]
        /\ UNCHANGED <<op, file, handle, left, answer>>
  /\ UNCHANGED <<kernel, sockets>>

(* ... for as long as it is told and whoever closes it, and then takes what the
   socket has that the number is by then. *)
Selected(t) ==
  /\ At(t, "waiting", {"read"})
  /\ \/ /\ queue[inside[t]] > 0
        /\ Goto(t, "act")
        /\ inside' = [inside EXCEPT ![t] = None]
        /\ UNCHANGED <<op, file, handle, left, answer>>
     \/ left[t] # None /\ Return(t)
  /\ UNCHANGED <<kernel, sockets>>

AvailableStream(t) == At(t, "act", {"look"}) /\ Receive(t, TRUE)
ReadSocket(t)      == At(t, "act", {"read"}) /\ Receive(t, FALSE)

(* receiveStreamImpl(): SO_RCVTIMEO is set on the number and recv() called, here
   in one step, so that the timeout is that of the socket that is read. *)
ReceiveStream(t) == At(t, "act", {"receiveStream"}) /\ Receive(t, FALSE)

(* A thread that blocks in recv() is not told of a close either: it stays in
   the socket, which lives on without a number. *)
Unblock(t) ==
  /\ At(t, "stuck", {"receive", "look", "read", "receiveStream"})
  /\ \/ /\ queue[inside[t]] > 0
        /\ \E n \in {0, 1} : queue' = [queue EXCEPT ![inside[t]] = @ - n]
     \/ op[t] = "receiveStream" /\ left[t] # None /\ UNCHANGED queue
  /\ Return(t)
  /\ UNCHANGED <<kernel, link, blocking>>

(* accept(): the connection becomes a socket of its own, or gets no number. *)
AcceptFrom(t, s) ==
  /\ queue[s] > 0
  /\ \/ \E n \in Numbers, f \in Files :
          /\ Fresh(f) /\ NewSocket(f, n)
          /\ queue' = [queue EXCEPT ![s] = @ - 1]
          /\ link' = [link EXCEPT ![f] = "yes"]
          /\ UNCHANGED <<closing, blocking>>
     \/ UNCHANGED <<kernel, sockets>>
  /\ Return(t)

AcceptSocket(t) ==
  \/ /\ At(t, "act", {"accept"})
     /\ LET s == Socket(t) IN
        \/ s # None /\ AcceptFrom(t, s)
        \/ /\ s # None /\ queue[s] = 0 /\ blocking[s]
           /\ Block(t, s)
           /\ UNCHANGED <<kernel, sockets>>
        \/ /\ s # None => queue[s] = 0 /\ ~blocking[s]
           /\ Return(t)
           /\ UNCHANGED <<kernel, sockets>>
  \/ At(t, "stuck", {"accept"}) /\ AcceptFrom(t, inside[t])

-----------------------------------------------------------------------------
(* Sending: the network takes what the socket the number has by now sends. *)

SendOnce(t) ==
  /\ At(t, "act", {"send"})
  /\ Return(t)
  /\ UNCHANGED <<kernel, sockets>>

SendDatagram(t)          == SendOnce(t)
SendConnectedDatagram(t) == SendOnce(t)
WriteSocket(t)           == SendOnce(t)

(* sendStreamImpl(): as long as a part is left, or a socket that does not
   block is full, the number is read again and the rest is sent. *)
SendStream(t) ==
  \/ SendOnce(t)
  \/ /\ At(t, "act", {"send"})
     /\ Socket(t) # None
     /\ Continue(t, "fetch")
     /\ UNCHANGED <<kernel, sockets>>

-----------------------------------------------------------------------------
(* connectStreamWithTimeoutSocketImpl() and the steps START, CHECK and DONE
   of sockConnectWithTimeout(). *)

(* The step before has ended the connect, well or not; DONE is to come. *)
Conclude(t) == Goto(t, "done") /\ UNCHANGED <<op, file, left, inside>>

Answer(t, a) == answer' = [answer EXCEPT ![t] = a]

(* START: the socket is put into non-blocking mode ... *)
ConnectStart(t) ==
  /\ At(t, "act", {"connect"})
  /\ LET s == Socket(t) IN
     \/ s = None /\ Conclude(t) /\ Answer(t, "failed") /\ UNCHANGED <<handle, blocking>>
     \/ /\ s # None
        /\ blocking' = [blocking EXCEPT ![s] = FALSE]
        /\ Continue(t, "connect")
  /\ UNCHANGED <<kernel, queue, link>>

(* ... and connect() succeeds, fails or is under way. *)
Connect(t) ==
  /\ At(t, "connect", {"connect"})
  /\ LET s == Socket(t) IN
     \/ Conclude(t) /\ Answer(t, "failed") /\ UNCHANGED <<handle, link>>
     \/ /\ s # None /\ link[s] = "no"
        /\ \/ /\ link' = [link EXCEPT ![s] = "yes"]
              /\ Conclude(t) /\ Answer(t, "connected") /\ UNCHANGED handle
           \/ /\ link' = [link EXCEPT ![s] = "under way"]
              /\ Continue(t, "check")
  /\ UNCHANGED <<kernel, queue, blocking>>

(* CHECK: select() for a slice.  A socket that is not connected and not being
   connected can be written and has no error, which counts as connected. *)
ConnectCheck(t) ==
  /\ At(t, "check", {"connect"})
  /\ LET s == Socket(t) IN
     \/ s # None /\ link[s] \in {"yes", "no"} /\ Answer(t, "connected")
     \/ (s # None => link[s] = "refused") /\ Answer(t, "failed")
     \/ (s # None => link[s] = "under way") /\ Answer(t, "not connected")
  /\ Goto(t, "recheck")
  /\ UNCHANGED <<kernel, sockets, op, file, handle, left, inside>>

(* What the answer of CHECK leads to: the end, or another slice. *)
AfterCheck(t) ==
  \/ /\ answer[t] # "not connected" \/ left[t] = 0
     /\ Conclude(t)
  \/ /\ answer[t] = "not connected" /\ left[t] # 0
     /\ left' = [left EXCEPT ![t] = IF @ = None THEN None ELSE @ - 1]
     /\ Goto(t, "check")
     /\ UNCHANGED <<op, file, inside>>

(* Faulty variant of ConnectRecheck: what CHECK said is believed. *)
ConnectBelieve(t) ==
  /\ At(t, "recheck", {"connect"})
  /\ AfterCheck(t)
  /\ UNCHANGED <<kernel, sockets, handle, answer>>

(* "some platforms seem to think they are connected if the socket is closed
   on them": the number is read again before the answer counts. *)
ConnectRecheck(t) ==
  LET n == descriptor[file[t]] IN
  /\ At(t, "recheck", {"connect"})
  /\ handle' = [handle EXCEPT ![t] = n]
  /\ IF n = None
       THEN Conclude(t) /\ Answer(t, "failed")
       ELSE AfterCheck(t) /\ UNCHANGED answer
  /\ UNCHANGED <<kernel, sockets>>

(* Faulty variant of ConnectDone: only a connection that came up is cleaned up. *)
ConnectDoneIfUp(t) ==
  /\ At(t, "done", {"connect"})
  /\ Return(t)
  /\ blocking' = [f \in Files |-> blocking[f] \/ (f = Socket(t) /\ answer[t] = "connected")]
  /\ UNCHANGED <<kernel, queue, link>>

(* DONE: the socket the number has by now is put back into blocking mode. *)
ConnectDone(t) ==
  /\ At(t, "done", {"connect"})
  /\ Return(t)
  /\ blocking' = [f \in Files |-> blocking[f] \/ f = Socket(t)]
  /\ UNCHANGED <<kernel, queue, link>>

-----------------------------------------------------------------------------
(* Closing. *)

(* Faulty variant of CloseBegin: no lock. *)
CloseUnlocked(t) ==
  /\ At(t, "fetch", {"close"})
  /\ Fetch(t, "unset")
  /\ UNCHANGED <<kernel, sockets>>

(* PlainDatagramSocketImpl.close(), synchronized on the descriptor: a second
   close finds it invalid. *)
CloseBegin(t) ==
  /\ At(t, "fetch", {"close"})
  /\ file[t] \notin closing
  /\ Fetch(t, "unset")
  /\ closing' = IF descriptor[file[t]] = None THEN closing ELSE closing \cup {file[t]}
  /\ UNCHANGED <<descriptor, table, sockets>>

Unset(f) == descriptor' = [descriptor EXCEPT ![f] = None]

Used(f) == \E t \in Threads : inside[t] = f

(* The number is free and the socket gone, unless a thread is still in it. *)
GiveBack(n) ==
  LET s == table[n] IN
  /\ table' = [table EXCEPT ![n] = None]
  /\ queue' = [f \in Files |-> IF f = s /\ ~Used(f) THEN 0 ELSE queue[f]]
  /\ link' = [f \in Files |-> IF f = s THEN "no" ELSE link[f]]
  /\ blocking' = [f \in Files |-> blocking[f] \/ f = s]

(* Faulty variant of SocketClose: the number is given back before the
   descriptor is emptied. *)
SocketCloseFirst(t) ==
  \/ /\ At(t, "unset", {"close"})
     /\ GiveBack(handle[t])
     /\ Continue(t, "act")
     /\ UNCHANGED <<descriptor, closing>>
  \/ /\ At(t, "act", {"close"})
     /\ Unset(file[t])
     /\ closing' = closing \ {file[t]}
     /\ Return(t)
     /\ UNCHANGED <<table, sockets>>

(* socketCloseImpl(): the descriptor is emptied first, and then the number is
   given back. *)
SocketClose(t) ==
  \/ /\ At(t, "unset", {"close"})
     /\ Unset(file[t])
     /\ Continue(t, "act")
     /\ UNCHANGED <<table, closing, sockets>>
  \/ /\ At(t, "act", {"close"})
     /\ GiveBack(handle[t])
     /\ closing' = closing \ {file[t]}
     /\ Return(t)
     /\ UNCHANGED descriptor

-----------------------------------------------------------------------------
(* The network. *)

(* A datagram, a connection or bytes arrive at a socket that exists. *)
Arrive(f) ==
  /\ Open(f) \/ Used(f)
  /\ queue[f] < MaxQueue
  /\ queue' = [queue EXCEPT ![f] = @ + 1]
  /\ UNCHANGED <<kernel, link, blocking, thread>>

(* The peer answers a connection that is under way. *)
PeerAnswers(f) ==
  /\ Open(f)
  /\ link[f] = "under way"
  /\ \E l \in {"yes", "refused"} : link' = [link EXCEPT ![f] = l]
  /\ UNCHANGED <<kernel, queue, blocking, thread>>

-----------------------------------------------------------------------------
Poll(t) == StartPoll(t) \/ PollSelect(t) \/ Refetch(t)

Read(t) ==
  \/ PeekDatagram(t) \/ ReceiveDatagram(t) \/ RecvConnectedDatagram(t)
  \/ Look(t) \/ AvailableStream(t) \/ Select(t) \/ Selected(t) \/ ReadSocket(t)
  \/ ReceiveStream(t)
  \/ Unblock(t) \/ AcceptSocket(t)

Send(t) == SendDatagram(t) \/ SendConnectedDatagram(t) \/ WriteSocket(t) \/ SendStream(t)

ConnectStep(t) ==
  ConnectStart(t) \/ Connect(t) \/ ConnectCheck(t) \/ ConnectRecheck(t) \/ ConnectDone(t)

Close(t) == CloseBegin(t) \/ SocketClose(t)

Step(t) == Poll(t) \/ FetchOnce(t) \/ Read(t) \/ Send(t) \/ ConnectStep(t) \/ Close(t)

Next ==
  \/ \E f \in Files : CreateSocket(f) \/ Arrive(f) \/ PeerAnswers(f)
  \/ \E t \in Threads : Step(t) \/ \E f \in Files : \E u \in Uses[t] : Call(t, f, u[1], u[2])

(* A thread that is in a function goes on. *)
Spec == Init /\ [][Next]_vars /\ \A t \in Threads : WF_vars(Step(t))

-----------------------------------------------------------------------------
(* Properties. *)

(* A number belongs to one descriptor, and the socket of a descriptor that
   holds a number is the one it was created with: no close, and no second
   close, ever took a number that was given to somebody else. *)
OneOwner ==
  /\ \A f \in Files : descriptor[f] # None => table[descriptor[f]] = f
  /\ \A m, n \in Numbers : table[m] = table[n] /\ table[m] # None => m = n

(* A number a thread holds is the one of its own socket until its descriptor is
   closed: data of another socket, or a send, a connect or a close on it, can
   only come of a close that fell between the read of the number and the
   system call. *)
StrayOnlyWhenClosed ==
  \A t \in Threads :
    handle[t] # None => descriptor[file[t]] = None \/ Socket(t) = file[t]

(* A connection that was waited for is reported up only when the descriptor
   is open and its own socket is connected, although select() looked at
   whatever socket the number had. *)
ConnectedIsConnected ==
  [][\A t \in Threads :
       pc[t] = "recheck" /\ pc'[t] = "done" /\ answer'[t] = "connected"
         => descriptor[file[t]] # None /\ link[file[t]] = "yes"]_vars

(* "the caller must always end the process by calling the function with
   step = SOCKET_STEP_DONE": a connect leaves a socket that is still open in
   blocking mode, however it ended and whatever other threads did. *)
ConnectRestores ==
  [][\A t \in Threads :
       pc[t] \notin {"idle", "fetch"} /\ op[t] = "connect" /\ pc'[t] = "idle"
       /\ descriptor[file[t]] # None => blocking'[file[t]]]_vars

Waiting(t) == /\ op[t] \in Waits \cup {"connect"}
              /\ pc[t] \in {"fetch", "select", "refetch", "check", "recheck"}

(* A thread that waits in slices for a socket returns when the socket is closed,
   even when its number stands for a socket that is quiet.  The reads of streams
   do not wait in slices, and no recv() does. *)
CloseEndsWait ==
  \A t \in Threads : Waiting(t) /\ descriptor[file[t]] = None ~> pc[t] = "idle"

(* A wait with a timeout ends, unless it blocks in the recv() after it. *)
TimedWaitEnds ==
  \A t \in Threads : Waiting(t) /\ left[t] # None ~> pc[t] \in {"idle", "stuck"}

=============================================================================
