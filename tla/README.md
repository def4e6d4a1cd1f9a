# ETalk in TLA+

ETalk is an Android SIP phone: the SIP stack of MjSip (`org.zoolu.sip`,
`org.zoolu.net`, `org.zoolu.tools`), the user agent, engine and media of Sipdroid
(`com.zhy.dialtong.sipua`), the screens of the app around them, all in Java, and
native code in C and C++ under `jni/`: the sockets of the Java side and the speech
codecs. This directory models how a call is set up, modified and ended over a
network that loses and reorders messages, how the phone shows it to its user, how
the account is kept registered, how threads share native sockets, and how the
codecs compute and code what is said. Java paths below are relative to
`src/Etalk_SE_fragment/src/`, native ones to `src/Etalk_SE_fragment/jni/`.

## The system

    user, network changes, alarms                  (main thread)
        |
    SipdroidEngine ---- RegisterAgent     UserAgent ---- Call --- media --- codecs
        |                    |                            |         |       (jni)
        |                    |                    (Extended)InviteDialog
        |                    |                            |         |
        |             TransactionClient     Invite-/Ack-/TransactionClient/Server
        |                    |                            |         |
        |                    +------- SipProvider --------+---- Timer
        |                                 |                         |
    Receiver (alarms)          UDP/TCP reader threads        one timer thread
                                          |
                               OSNetworkSystem (jni): sockets

| Part | State | Operations | Hard because | What makes it correct |
|---|---|---|---|---|
| Timer service (`zoolu/tools/Timer`, `InnerTimerST`) | `active`, `listener`, the task queue of one static `java.util.Timer` | `start`, `halt`, `onInnerTimeout` | `halt` and the timer thread meet between a test and a call | a halted timer is silent, the thread survives, a started timer fires |
| Client transaction (`sip/transaction/TransactionClient`) | status, three timers, `transaction_listener`, an entry in the listener table | `request`, `onReceivedMessage`, `onTimeout`, `terminate` | receive thread, timer thread and owner race on unlocked fields | one outcome is reported; retransmission ends; the table entry goes |
| INVITE transactions (`InviteTransactionClient/Server`, `AckTransactionClient/Server`, `TransactionServer`) | status, timers, last response | as above, and `respondWith`, `listen` | retransmission, lost ACK | every wait ends or is legal; no message is offered twice |
| Dialog (`sip/dialog/Dialog`, `InviteDialog`) | `status`, CSeq numbers, `invite_ts`, `ack_ts`, `ack_req` | `listen`, `invite`, `reInvite`, `ring`, `accept`, `refuse`, `cancel`, `bye`, nine callbacks | crossing INVITE, CANCEL, BYE, ACK; callbacks that do not say which transaction they are about | the two parties agree; a closed dialog stays closed; BYE closes |
| Dispatch (`sip/provider/SipProvider`) | listener table, TCP connections | `processReceivedMessage`, `addSipProviderListener`, `addConnection` | transaction, dialog and method listeners in this order | each message finds its transaction or dialog |
| Registration (`RegisterAgent`, half of `SipdroidEngine`, alarms of `Receiver`) | `CurrentState`, `attempts`, `t`, wake locks, alarm, `expire_time` | `register`, `unregister`, `expire`, `registerMore`, `halt`, response and timeout callbacks, nested retry | three threads; results of transactions given up; locks taken after the call that needs them | no operation is stuck; locks are released; a registered account is renewed |
| Call layer (`UserAgent`, `Call`, `ExtendedCall`, `Receiver`) | `call_state`, `call`, `call_transfer` of each account; the state and call that the phone shows | `call`, `listen`, `hangup`, `accept`, hold, call callbacks | commands of the user on threads of their own, several accounts, hang-up in every state of the dialog | the phone shows the agent that gets the commands; an idle phone listens; a call is not disturbed nor left behind |
| Native sockets (`OSNetworkSystem.cpp`, `PlainDatagramSocketImpl`) | the kernel's descriptors, the number in each `FileDescriptor`, blocking mode | create, wait, receive, send, connect, close | a close on another thread, numbers that are given out again | a number is closed once, a call does not reach another socket, a wait ends |
| Arithmetic of BV16 (`bx16_fixedp`) | `Overflow`, `Carry` | 40 basic operators, double precision multiplication and division | saturation, the smallest word, carry and borrow | results are exact, saturated or flagged, and as precise as promised |
| SILK bit stream (`silk/src`) | range coder, payload under construction, state kept between packets | `SDK_Encode`, `SDK_Decode`, `search_for_LBRR` | encoder and decoder must agree to the bit; damaged and lost packets | what arrives whole is heard as it was encoded, whatever was lost before |
| Extended dialog, subscriptions, connection table, parser, headers, SDP, media loops, other codecs, STUN, UI | | | | see "What is not modelled" |

`PROJECT.json` lists every part with its status and, under "hazards", each
place where one of the difficulties bites, with the properties that cover it, or
what they leave out.

## The modules

### Timer, TransactionClient

`Timer` is the timer service exactly as it is cut by the thread switches it
allows: `RunTask` is the test of `onInnerTimeout()`, `Call` the call that follows
it, `CallNull` the same call when `halt()` has cleared the field meanwhile
(nothing catches the exception and the only timer thread is gone), `Return` the
two assignments after it. `haltedAt` and `fired` are history variables. When a
task is due is abstracted to "any scheduled task may be next".

`TransactionClient` is one non-INVITE client transaction used by three threads.
`rx` and `tx` are the program counters of the receive and of the timer thread
inside `onReceivedMessage()` and `onTimeout()`, `owner` that of `terminate()`. A
handler is cut wherever another thread can see or change what was read: after
the test of the status, after the timers are halted, between the test of
`transaction_listener` and its use, before it is reset. Its timers behave as
`Timer` says. A null pointer on the receive thread is swallowed by
`SipProvider.processReceivedMessage()` (`TellNobody`), one inside `onTimeout()`
by its own handler (`TellNoTimeout`), one in `Timer` by nobody (`Die`).

### InviteDialog, CallAgreement

`InviteDialog` is a call: two dialogs, all their transactions and the network.
The CSeq number of a request names it and its transaction, so that a transaction
table is a function from party and number. `cseq`, `remote`, `invite_ts`,
`ack_ts` and `ack_req` are the fields of the same names. One action per call of
the user (`Listen` ... `Bye`), per message a handler takes (`InviteToListener`
... `ByeAgain`, dispatched in the order SipProvider looks for transaction, dialog
and method listener) and per timer (`Retransmit` ... `AckTimeout`). A handler is
one step; the windows inside one are what the two modules above are about.
A message nobody takes, and one from whose handler the code returns without an
effect, leaves the network in `Lose`, which is also how a message is lost.
Duplicates come from the retransmission timers, reordering from `net` being a
set.

What the code checks, the model checks, and no more: that `verifyStatus()` of an
INVITE in the dialog is ignored, that an ACK is taken whatever its CSeq, that a
success is not compared with the INVITE pending, is all in the actions.

`CallAgreement` is the promise of a call to its users, in terms of four variables:
ring only after a call, up only after acceptance, accepted handshake over only
after the caller has heard, over for good. `InviteDialog` maps its state to it
(`CallerPhase`, `CalleePhase`) and `AgreementKept` states the implementation.

### RegisterAgent

The account, `SipdroidEngine` around it, the counting wake lock `wl`, the lock of
a retry `dim` (`pwl` or `wwl`, of which one is held at a time), the alarm and
`expire_time` of `Receiver`. A call of the engine on the main thread is cut into
`Begin` (up to the termination of an operation of the opposite kind), `Rollback`
(the timeout it reports for it), `Enter` (the test of the state), `Send` and
`Acquire` (the wake lock, taken after `register()` has returned). Responses and
timeouts are taken (`Answer`, `TimeOut`) before they are reported (`OnSuccess`,
`OnChallenge`, `OnFailure`, `OnTimeout`), so that the main thread can come in
between: none of the callbacks looks at which transaction it is about. The retry
inside `onUaRegistrationFailure()` is part of the callback it is made from
(`Retry`). An expiration is "none", "short" (at most the 15 s by which the alarm
comes early) or "long".

### UserAgent

The phone above its dialogs: the `UserAgent` of each account, its `Call`, the call
that a transfer makes, and what `Receiver` and `SipdroidEngine` show of them to
the user. A dialog is reduced to what its callbacks can still say ("waiting",
"invited", "inviting", "call", ...), as `InviteDialog` has it.

Nothing but `changeStatus()` is locked, so a callback or a command is as many steps
as it has places where another thread may come between what it reads and what it
changes, or between two changes. `at` is where the receive thread of an account is
in a callback: an incoming call is `TestPhone` (`UserAgent.java:554`), `AssignAgent`
(561), `ShowIncoming` (562), `Unanswerable` or `LaunchMedia` (564-579); an answer is
`OnCallAccepted` (the test at 642), `ShowAccepted` (646) and `LaunchMedia` (657), or
`RejectAccepted` (643) and `EndCallback`, with which all callbacks end that make the
phone idle. `calling` is where `call()` is: `Place` (the test at 276), `CloseFirst`
(`hangup()` up to its change of the status), `ClearFirst` (372), `ShowOutgoing` (284),
`Dial` (300-326). `ending` has the accounts of which a hang-up or a timeout is about
to change the status, `accepting` those whose `accept()` is between 384 and 386.
`commands` and `modifying` are threads of the user that have not run yet; what they
find may not be what was shown when the key was pressed.

Merged into one step, and so not interleaved with one another: `changeStatus()`
with the `listen()` of every agent that `Receiver.onState()` calls under its lock;
`listen()` with its own test of the status; `busy()` with the `listen()` after it;
the making of `ua` the engine's with the test at 276; `launchMediaApplication()`,
whose test of `audio_app` and start of it are not locked either. Two agents in
`changeStatus()` at once, each of which listens for the other, can wait for each
other for ever: that is outside the model too.

`Orphan` is a callback of a call that is not the current one any more, which the
code ignores. Two history variables name what cannot be promised. `raced`: a
command or a callback went on in a state it was not meant for, above all because
the phone became idle while another thread was between two of its steps
(`UnderWay`); it is reset when the phone becomes idle and no thread is. `lost`: a
call ended without telling its agent. What the code does in those windows is in the
model: a hang-up between 642 and 646 leaves the phone in a call with a `Call` that
waits, one between 284 and 300 sends the INVITE from an idle phone, one between 646
and 657 starts audio on it. What holds there as well is that an idle phone has idle
agents.

`CallUndisturbed` says that what happens on other accounts, transfers included,
changes nothing of the call the phone is in. Two things may, and are named in it: a
callback that found the phone idle before the call was shown, and a transfer whose
own call is over, since an answer to it hangs up (643).

What the code does and a reader may not expect is in the actions: a second call
to an account that is busy gets "busy" once, and a third no answer, since the
`listen()` that follows returns at once; `onCallClosed()` is never called for the
current call.

### Sockets

`OSNetworkSystem` between threads that share a `FileDescriptor`. The kernel
(`kernel`: which numbers are open, what each was given out for, what can be read)
gives out the lowest free number. A call of a thread is cut wherever the code
reads the number again or calls the kernel: `StartPoll`, `PollSelect`,
`SliceEnds`, `Refetch` for what waits in slices, `FetchOnce` for what does not,
`Look` for the microsecond of `availableStreamImpl()`, `Select` and `Selected` for the
wait of `readSocketDirectImpl()`, which is not cut and goes on whoever closes the
socket; then the system call of its function (`ReceiveDatagram` ... `SendStream`), the
steps of a connect with a timeout (`ConnectStart` ... `ConnectRecheck`), and
`CloseBegin`, `Unset`, `GiveBack` of a close. A datagram that another thread has
taken after `select()` leaves its reader blocked beyond its timeout ("stuck"), and
an operation on a number that was given out again (a "stray" one) is in the model
with what it does to its victim. `CloseEndsWait` is about the waits that are sliced:
neither that of `readSocketDirectImpl()` nor any `recv()` is among them.
`receiveStreamImpl()` sets `SO_RCVTIMEO` by one system call and receives by another:
they are one step here, so that a timeout which a number given out again in between
leaves with another socket is not in the model.

The JNI names of this file are those of `org.sipdroid.net.impl`, and the Java class
is now `com.zhy.dialtong.sipua.net.impl`: where they cannot be bound the phone
uses `DatagramSocket`. The model is of the file as it is called by the Java code.

### BasicOp, SaturatingDsp, Dsp

`BasicOp` has the basic operators of BV16 as functions from operands to a value
and the flag they set, for words of any width (16 and 32 bits in the code), and
the double precision format of `oper_32b.c` above them. `SaturatingDsp` is the
promise of an accumulator: it holds the exact sum, or it is saturated, or
`Overflow` and `Carry` say what `L_sat()` needs. `Dsp` is one that is used with the
operators that accumulate, and implements it (`IdealSpec`). `L_sub_c()` is the
exception that the model states: it misses the overflow of x - y when that is
the smallest word and there is no carry, and of 0 - y when y is the smallest word
and there is one, and leaves `Overflow` as it was.

### RangeCoder, PulseCoder, SilkStream, FramePipe

`RangeCoder` is `SKP_Silk_range_coder.c` as operators on its structure, for bytes
of any width, with all its errors and every branch of the normalization.
`PulseCoder` is the excitation: blocks as binary trees, scaled down until no sum
of any level exceeds its table, the escape symbol, lower bits and signs. A block can
be announced as scaled down at most `MAX_SHIFTS` times, the bits of the longest
payload: an announcement takes a bit or more, and one that lies beyond the payload is
an error at the end of the frame, up to which the code goes on counting.
`SilkStream` is an encoder, a network and a decoder: a frame is the symbols of
`SKP_Silk_encode_parameters()`, a packet is wrapped up and copied out if there is
room, with redundancy behind it if there is room for that, may be lost, found too
long or replaced by a stray one, and is decoded frame by frame by what the code
knows at each symbol and nothing else. An error does what
`SKP_Silk_decode_frame()` does, to the sampling rate and not to the codebook.
`FramePipe` is the promise (`PipeSpec`): what arrives as it was sent is heard frame by
frame as it was encoded, whatever was lost before, with the one exception that the
code has. A damaged packet may leave the decoder astray for one rate, that which it
goes back to: packets of this rate are then misread though they are intact
(`Misread`), until one of another rate puts the decoder right. In `SilkStream` that is
`Astray`, a codebook that is not the one of the rate, and `BookFitsRate` says that it
does not happen. The misread packet is decoded by the same steps as a damaged one,
and what comes out is any frame.

The symbols that are coded alike (gains of the later subframes, the stages of the
NLSF path, the filters of the pitch) are stood for by one; the rate level is any
(the encoder takes the cheapest); a frame has as many blocks at every rate. The
comment on `bits_to_store` says 1 to 9 bits; it is 2 to 10. The model follows the
contract of the SDK; the app's own `silk8_jni.cpp` encodes one frame per packet,
without redundancy, drops the packet when the encoder returns an error, and calls
the decoder once per packet, so that it hears only the first frame of a longer
packet of its peer.

Names that begin a comment with "Faulty variant of" are plausible mistakes used
to test that the properties can fail; no specification uses them.

## What the runs check

| Run | Question | Result |
|---|---|---|
| `timer` | halts and expirations of three timers in every order | the early half of the promise of `halt()` holds (`EarlyHaltSilences`), the thread dies only in the window (`DeadOnlyByLateHalt`), timers fire (`StartedFires`) |
| `transaction` | outcome, table entry and retransmission between three threads | hold: `OutcomeIsReported`, `OneOutcomeUnlessRace`, `TableIsCleared`, `RetransmissionEnds` |
| `call_ends` | do the two dialogs agree, and do the waits for ACK and BYE end? | hold: the refinement `AgreementKept`, `AnswerEnds`, `ByeCloses` |
| `call_modified` | re-INVITEs from both sides at once, and a proxy that may reject a BYE | hold: what each wait rests on (`AnswerIsRepeated`, `InviteIsPending`, `ByeIsPending`), and three action properties |
| `bye_crossed` | does a BYE close the dialog although the peer re-invites? | violated |
| `register` | three calls of the engine against any registrar and network | nothing is stuck (`ProgressIsCarried`, `InProgressEnds`), locks are released (`RestsUnlocked`, `DimNeedsWake`), a registered account is renewed (`RegisteredIsRenewed`) if more than 15 s were granted |
| `phone` | two accounts, their dialogs and the user | hold: `PhoneShowsAgent`, `IdleListens`, `ShownCallExists`, `CallUndisturbed`, with `raced` and `lost` as said above |
| `phone_left` | is a call that was hung up over? | violated |
| `sockets` | threads that use, connect and close two sockets on two numbers | hold: `OneOwner`, `StrayOnlyWhenClosed`, `ConnectedIsConnected`, `ConnectRestores`, `CloseEndsWait`, `TimedWaitEnds` |
| `arithmetic` | every operand of every operator, and a long use of the accumulator | hold: `IdealSpec`, `ShiftsScale`, `FractionsAgree` |
| `silk` | every kind of packet over every kind of network | hold: the refinement `PipeSpec`, `IntervalIsNormal`, `CarryStaysInside`, `RedundancyFound` |
| `silk_revert` | does an error leave the decoder at its old rate? | violated |

The findings, with the comment or check each one contradicts, are in
`PROJECT.json`. An INVITE that crosses a BYE takes the dialog out of D_BYEING, and
the answer to the BYE is not taken any more (`bye_crossed`). `hangup()` in
D_ACCEPTED and D_ReINVITING, or while an INVITE is being answered, ends the call for
its agent only: the dialog comes up afterwards and nobody listens to it
(`phone_left`). After a damaged packet of another sampling rate the SILK decoder goes
back to its old rate with the codebook of the other one, and decodes intact
packets wrongly until the rate changes (`silk_revert`); these are the exception of
`FramePipe`.

The models show more of this kind that no run asks for: a `halt()` inside the
window of the timer thread is too late, and can end that thread (which is what
`DeadOnlyByLateHalt` allows); a provisional response can revive a terminated
transaction; a lost ACK of a refusal leaves its dialog in D_REFUSED; a failed BYE
leads to D_CALL, where the comment on `onTransFailureResponse()` says D_CLOSE; a late
ACK of an earlier answer confirms a later one; a CANCEL that is never answered leaves
its dialog in D_INVITING; an
expiration of 15 s or less is never renewed; `unregister()` during a registration
retries the registration.

The property `ByeCloses` holds in `call_ends`, where nobody may re-INVITE and no proxy
rejects a BYE, and is refuted in `bye_crossed`, where the callee may re-INVITE.
`FractionsAgree` bounds the errors in units of the last place: `Mpy_32` within -7 and
+2, `Mpy_32_16` within -2 and +1, and `Div_32` within -72 and +4, which is the "24
bits precision" of `oper_32b.c:13` once a Word32 has 32 bits. On words of 6 bits the
lower bound of `Div_32` says nothing, and no quotient there is exceeded at all:
that a quotient can be exceeded by a unit or two shows from 16 bits on. The bounds for the real
width are those of the theorem `FractionsAlwaysAgree`.

### Bounds

* `Timers`: three, for one that is halted, one that runs and one that waits. The
  theorems hold for any set.
* `TransactionClient` has no bound: the model is finite as it is.
* `CallerRequests`, `CalleeRequests`: the requests with a number of their own. 2 and
  1 are an INVITE with a re-INVITE or BYE of the caller and a re-INVITE or BYE of
  the callee, which is what every crossing described above needs. The theorems
  hold for any number.
* `MaxInFlight`: messages under way at a time. A message sent beyond it is lost,
  which a run of the real network may do too, so no order of deliveries among the
  messages that do arrive is missed by removing others first; a bound of 2 already
  lets any two messages overtake each other. The theorems hold for any value.
* `MaxAttempts` 1 in place of 3: the counter only matters at its limit.
  `MaxLive`: three transactions that wait at a time (one of the main thread, one
  of a retry, one of a challenge). A step that needs one more is not taken until
  another has ended. `MaxCalls`: three calls of the engine, enough for an
  operation, its opposite and one in the window of either.
* The phone has two accounts, as many as it takes for one to disturb the other, and
  `MaxThreads`: two threads of the user, a timer or a pending hang-up at once, besides
  the receive thread of each account. TLC does not tell states apart by `orphans`
  (`WithoutOrphans`), which only `Orphan` reads, and, once a thread came too late,
  follows only states without a waiting command or a transfer (`FewOnceRaced`), until
  the phone has come to rest. One REFER is served at a time. The theorems have none
  of these bounds but the last.
* Two threads, two descriptors, two numbers: one that waits and one that closes
  and opens another socket under the same number; one datagram in a queue.
  `Uses` names the functions each thread calls. The theorems hold for any sets.
* Words of 3 and 6 bits in place of 16 and 32: the code's constants are powers of
  the width, and every operand of every operator is tried. The theorems about the
  accumulator hold for every width.
* Bytes of 2 bits in place of 8, blocks of 4 pulses in place of 16, two blocks a
  frame, two frames a packet. The tables are strictly increasing like those of
  the codec, except for the empty intervals that its shell tables have too, for
  children above the limit of the level below. 40 bytes of buffer and 44 of room
  are so few that the encoder overflows, packets are too long for the decoder,
  and redundancy finds no room, besides the packets for which none of this
  happens. The stray packets are all of up to four bytes, and the long ones that
  are constant but for one byte.

### Fairness and deadlock

A running timer expires (`WF` on the timeouts of a call and of a registration;
`SF` on each timer of `TransactionClient`, because the thread serves other timers
in between and the queue of `java.util.Timer` is ordered by time). A thread that
is inside a handler or a native function goes on (`WF` on its steps): a slice of
a wait ends by itself. Nothing is assumed of users, of the network or of the
registrar: no message need ever arrive. The SILK stream and the phone have safety
properties only. Deadlock is checked for the timer service, the registration, the
phone, the sockets, the accumulator and the stream, which never stop; a call that is over and a
transaction that is cleared do stop, so it is off for them.

## What is proved

TLAPS checks every theorem for all values of the constants, under the assumptions
named in the modules that declare them (`BoundAssumption`, `PeersAssumption`, ...),
which TLC evaluates in the runs. The type invariants of the timer, the
transaction, the registration, the sockets and the accumulator are proved and need
no run.

* `TransactionProofs`, of the timers. `EarlyHaltSilences` is not inductive: that a halted timer has not
  fired says nothing about a thread that is about to call it. `IInv` adds that a
  timer halted early has no listener and does not run, that the thread runs one
  task at a time, and that only `halt()` clears the listener of a running task.
* `InviteDialogProofs`. `IInv == TypeOK /\ Numbers /\ Waits /\ Served /\ Answers`:
  the numbers a handler dereferences are not 0; each waiting status has the
  transaction that its end depends on (`Waits`, the conjunction of
  `AnswerIsRepeated`, `InviteIsPending` and `ByeIsPending`, which are inductive
  together with the first part); an INVITE is served at most once and in order;
  and a final response or a completed client implies that the peer has answered
  that very INVITE (`Answers`, over the messages in flight as well as the state,
  without which `CallNeedsAnswer` is not provable). From it follow the three
  invariants and the action properties `CloseIsFinal`, `InviteOfferedOnce` and
  `CallNeedsAnswer`.
  The refinement is at the end of the module: `Agreed` says who may be in which phase before the
  caller has joined, and which messages may be under way before that; with `IInv`
  every step of `InviteDialog` is a step of `CallAgreement` or leaves its variables
  alone, so that `Spec => AgreementKept`.
* `RegisterAgentProofs`. Type correctness, with `attempts` bounded by `MaxAttempts`,
  `ProgressIsCarried` and `DimNeedsWake` are inductive together. The renewal needs
  in addition that a deadline implies an alarm, and the assumption that the
  registrar grants "long" expirations only: `Renew` of a "short" one sets no
  alarm. `RestsUnlocked` follows from `Balanced`: unless a callback came late or the
  wake lock was stale (`late`, `stale`, the two races that a lock outlives), there is
  one operation at a time, it is carried by exactly one thing (a transaction, a
  result or a step of the main thread), and exactly one lock is held for it. That
  no two REGISTER transactions wait at a time (`OneTransaction`) comes with it.
* `UserAgentProofs`. `IInv` is `TypeOK`, `PhoneShowsAgent`, `IdleListens` and
  `ShownCallExists` with what the threads may rely on. `OthersAside`: unless a thread came
  too late, an account that is not in the call, or any while the phone is idle, has no
  thread in the middle of anything that would change what is shown, but for a call
  about to ring and the call of a transfer, and its dialog waits. Without it, making
  another account the active one could show a call that its dialog does not have.
  `ThreadsFollow`: a callback that is about to show an accepted or a held call still has
  it, unless another thread is about to end it; one that moves to a transferred call
  has lost the first; a call is answered while it is shown; and one that is being
  placed has no other beside it. `SwitchesToCall`: there is a transferred call to move
  to. `CallUndisturbed` follows from the same invariant.
* `TransactionProofs`, of the transaction. `Apart`: before the threads have met in their windows,
  one of them has told nothing before its call, and after an outcome was told the
  listener is only there for the thread that told it to reset.

* `DspProofs`. The accumulator implements `SaturatingDsp` for words of any width: each
  operator is a lemma about one sum (`Overflow` and `Carry` as the code computes them
  from signs and unsigned comparisons, against the exact integer), and the step
  is by cases on the operator. `ShiftsAlwaysScale`: a loop of doublings, a shift in two
  complements, and the search of `norm_l()` are what they are for, for every count
  and every operand. The provers know nothing of exponents; that 2^(n+1) is twice 2^n
  comes from the cardinality of SUBSET, and what the loops reach is proved by the
  least count for which it would fail. `FractionsAlwaysAgree`: the long division of
  `div_s()` and `div_l()` is the quotient (`LongDivisionIs`); what `Mpy_32` leaves out is
  two roundings, the product of the low halves and that of the last bits
  (`MpyRest`); and Newton's step in `Div_32` (`Newton` names its quantities) gives an
  inverse I of the denominator X with M^2 - 44M <= 4XI <= (M+1)^2 (`InverseBelow`,
  `InverseAbove`), which the product with the numerator turns into the two bounds.
* `SocketsProofs`. Its invariant `Inv` says who owns a number, which descriptors hold it, that a
  closing thread is alone between emptying the descriptor and giving the number
  back, and for each program counter of a connect in which mode it has put its
  socket. The four safety properties of the run follow from it.
* `SilkStreamProofs`, for bytes of at least two bits (`ByteAssumption` of
  `RangeCoder`). By the arithmetic of a division with remainder in place of a
  shift: a symbol with an interval of its own leaves a range of at least one byte of
  resolution (`Normalized`), and base plus range stay below the end of the interval
  (`SumOfSymbol`, `ShiftKeepsEnd`), which is why a carry always meets a byte that
  does not wrap. The decoder's errors of normalization and of a zero interval are
  then unreachable once a symbol is found. Over a stream of any length: the encoder
  stays so (`StreamStaysNormal`), and the decoder that is given what
  `SKP_Silk_range_enc_wrap_up()` leaves, the same tables and any bytes behind it
  returns every symbol and passes its last check (`RoundTrip`). The bytes are read as
  one number; `Lower(e)` is the lower end of the interval of an encoder on that scale,
  `InStep` says that the base of the decoder is the distance of the stream from it,
  `InsideDecodes` that any stream inside the last interval decodes, and
  `WrapUpLiesInside` that the stream which is cut to `bits_to_store` bits, padded with
  ones and followed by anything is such a stream. `WrapUpStaysInside` is the second loop that
  carries.

  Then the frames, for blocks of any size and any number of levels. The tables are
  assumed to be what those of the codec are (`PulseTables`, `IndexTables`): they rise
  from 0 to the largest word; those of the indices leave an interval to every symbol;
  those of the shell coder leave one to a split just if both parts are within the
  limit of the level below. Of a frame it is assumed that its indices are in their
  tables (`FrameAssumption`), and of its pulses that a payload has as many bits as the
  largest is long (`Pulses`; the quantizer limits them to about 64). What has to be proved is
  that no sum of a block that was scaled down is beyond its table at any level
  (`SumsOfBlock`: the sums of a node are those of its children, level by level up the
  tree, and halving ends because `TooMany` is false of a block of zeros), so that each
  symbol that `SKP_Silk_encode_parameters()` codes has an interval (`FrameSymbolsAre`).
  The decoder's side is the harder one, for the payload may be anything: `Sound` says
  of a tree under construction that the sum at every inner node is within the limit of
  its level, and a split keeps it so because the tables have no interval for any other
  (`SplitTree`); after an error nothing is looked up any more. So a frame is decoded
  from any payload (`AnyPayloadDecodes`). Together:
  `SenderInv` and `ReceiverInv` (the coders are normal, the decoder's record is of the
  type that the tables can be looked up with, what lies in a packet are bytes) are
  kept by every step, and give `CarryStaysInside` and `IntervalIsNormal` for every
  network.

* `SilkPipeProofs`, on top of `SilkStreamProofs`. First that the decoder, which knows of
  the stream no more than the tables it looks symbols up in, puts the frame together
  again (`FrameCrosses`). A frame is the
  concatenation of parts (rate, type, gain, NLSF, lag, seed; rate level, sums, shells,
  lower bits, signs; activity, what follows). `Delivers` says that a range decoder
  goes through a part and returns its symbols; each step of the parser has a lemma
  that it reads its part and enters what the encoder took it from, given what the
  steps before it have entered: an escape adds a shift (`EscapesTaken`), the tree of
  a block has the sum of every node whose parent was split (`SplitTakes`, by an order
  in which parents come first), the lower bits double what the shells left behind,
  and a sign is read just where a pulse is not zero. `RunArrives` and
  its kin lift them to loops.

  Last, the stream. `Holds` says that an encoder still has frames to take before its
  payload is complete, `Sealed` that bytes are the payload, with the redundancy behind
  it, and `Ahead` that a decoder has such frames before it. The inductive
  invariant is `StreamInv == SenderInv /\ ReceiverInv /\ PartsInv`: what is in the
  encoder, on the network, and between two calls of the decoder are the frames that
  were put in (`BuildingInv`, `PacketInv`, `PlayingInv`), and the redundancy was
  found (found (`HeardInv`). The properties alone are far from inductive: that a frame is
  heard as it was sent depends on where in the interval the bytes lie that were
  written five frames later. From it follow `RedundancyIsFound` and the
  refinement `StreamIsPipe`, in which a packet that the decoder, astray, misreads is a
  step `PlayDamaged` of the pipe, and a packet that is heard whole shows that the
  codebook is that of its rate again. One assumption was needed that the runs had not shown:
  the decoder stops when no bytes are left, also if more frames were announced, and
  what is left is counted in whole bytes. A frame of less than a byte would be lost;
  `FramesAreLong` says that the NLSF path and the seed take a byte or more (13 and 2
  bits at least with the tables of the codec).

Induction over numbers (the symbols of a stream, the bits of a count) takes a set in
place of the predicate and the least number outside it; the four lemmas for it, and
those about division and powers, stand at the beginning of `SilkStreamProofs` and of
`DspProofs`, so that either can be checked alone.

Model-checked only: the liveness properties (`StartedFires`, `OutcomeIsReported`,
`TableIsCleared`, `RetransmissionEnds`, `AnswerEnds`, `ByeCloses`, `InProgressEnds`,
`CloseEndsWait`, `TimedWaitEnds`), which are out of the prover's reach, as is
`ENABLED`. Every invariant and every safety property over steps that a passing run
checks, and every refinement, is a theorem.

## What is not modelled

* Extended dialog: the authentication retry of an INVITE after a challenge, which
  would double the INVITEs of `InviteDialog`. Subscriptions and the message-waiting
  indication: sequential.
* Of the transactions: the thread windows of `InviteTransactionClient/Server`, for
  which those of `TransactionClient` stand; the TransactionServers of BYE and CANCEL
  stay for the whole call, longer than their clearing time, which only means that
  a copy of a request is answered and not ignored. A CSeq number that `update()` has
  set back is not used again. The call without an offer (`inviteWithoutOffer`,
  `ackWithAnswer`) differs from the others in who sends the ACK.
* Of `SipProvider`: the table of TCP connections, its eviction and its replacement,
  and the leak of the OPTIONS listener of `InviteTransactionServer.listen()`.
* In `RegisterAgent` the 45 s between retries are a free choice between retry and
  none, the nested `register()` of a retry is not cut by other threads, and the
  subscription for waiting messages, keep-alive, DNS and `haltConnections()` are left
  out.
* Of the call layer: the transfer that this phone asks for, INFO, offer and answer,
  and the automatic accept and hang-up.
* Of `OSNetworkSystem`: options, addresses, multicast, `selectImpl()`, inherited
  channels, and `connectWithTimeoutSocketImpl()`, whose context between calls is lost
  (it is released with JNI_ABORT). Only its datagram functions have Java callers.
* Of SILK: bit stream version 4, which `USE_BIT_STREAM_V` does not select; the filters
  HP_A and HP_B, which share the fate of the codebook; concealment.
* The 70 000 lines under `jni/` are for the most part Speex, the analysis and
  synthesis of SILK and BV16, GSM and G.722: filters, searches and tables, whose
  correctness is numerical and audible and not a matter of states and orders. What
  is modelled of them is where they keep a state that two sides must agree on, or
  an arithmetic that everything else rests on; the share of the code that the map
  covers stays small for that reason, about a twentieth.
* Parser, headers, SDP, transports, media loops, STUN and screens have no protocol
  state of this kind.

## Where to go on

1. `InviteTransaction`: client and server of an INVITE with their three threads.
2. `ExtendedInviteDialog`: the authentication retry, attempts, cancel in between.
3. `SipProvider`: connection table, eviction, replacement; listener table.
4. Theorems: each of these with its own inductive invariant; and of the modules there
   are, only liveness is left, for which a prover of `ENABLED` is needed.

## Running

    tlc -config Call.cfg MCInviteDialog.tla        (and so on, see PROJECT.json)
    tlapm InviteDialogProofs.tla
