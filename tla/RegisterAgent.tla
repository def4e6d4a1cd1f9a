---------------------------- MODULE RegisterAgent ----------------------------
(***************************************************************************)
(* The registration of the account: RegisterAgent, the SipdroidEngine that *)
(* drives it and is told of its results, the wake locks the engine holds   *)
(* meanwhile and the alarm of Receiver that renews the registration.       *)
(*                                                                         *)
(* Three threads meet here without a lock: the main thread calls the       *)
(* engine (network changes, the alarm, the user), the receive thread       *)
(* brings responses and the timer thread timeouts.  RegisterAgent looks at *)
(* none of its callbacks to see which transaction it is about.             *)
(*                                                                         *)
(* A call of the engine is cut where another thread can see the state      *)
(* between two of its steps.  A callback is one step once its              *)
(* TransactionClient has chosen to make it (which of two racing outcomes a *)
(* transaction reports is the subject of TransactionClient).               *)
(***************************************************************************)
EXTENDS Naturals

CONSTANTS
  MaxAttempts,         \* RegisterAgent.MAX_ATTEMPTS
  MaxLive,             \* bound: REGISTER transactions waiting at a time
  MaxCalls,            \* bound: calls of the engine
  Pub,                 \* UserAgentProfile.pub: registered over mobile data too
  Expires              \* the expirations the registrar may grant (see Renew)

ASSUME BoundAssumption ==
  MaxAttempts \in Nat /\ MaxLive \in Nat \ {0} /\ MaxCalls \in Nat
ASSUME ServerAssumption == Pub \in BOOLEAN /\ Expires \subseteq {"none", "short", "long"}

Ids == 1..MaxLive
Ops == {"reg", "dereg"}

VARIABLES
  state,               \* RegisterAgent.CurrentState
  attempts,            \* RegisterAgent.attempts
  t,                   \* RegisterAgent.t, 0 for null
  listener,            \* RegisterAgent.listener # null
  trans,               \* what each TransactionClient that still waits asks for
  answer,              \* the response the receive thread is about to report
  expired,             \* is the timer thread about to report a timeout?
  pc, op, halting,     \* where the main thread is, in what, and whether to halt
  wl,                  \* how often the (counting) wake lock is acquired
  dim,                 \* is the screen or Wi-Fi lock of a retry held?
  alarm,               \* is a OneShotAlarm set?
  deadline,            \* Receiver.expire_time # 0
  fast,                \* Receiver.isFast(): may this network be used?
  calls,               \* counter for MaxCalls
  late,                \* history: a result came before the lock was taken
  stale                \* history: a callback of a transaction that was given up

agent    == <<state, attempts, t>>
main     == <<pc, op, halting, calls>>
locks    == <<wl, dim>>
renewal  == <<alarm, deadline>>
history  == <<late, stale>>
vars == <<agent, listener, trans, answer, expired, main, locks, renewal, fast, history>>

States == {"UNDEFINED", "UNREGISTERED", "REGISTERING", "REGISTERED", "DEREGISTERING"}
Pending(o) == IF o = "reg" THEN "REGISTERING" ELSE "DEREGISTERING"
InProgress == state \in {"REGISTERING", "DEREGISTERING"}

NoAnswer == [op |-> "none", says |-> "none"]
Answers  == [op : Ops, says : Expires \cup {"challenge", "refused"}]

TypeOK ==
  /\ state \in States
  /\ attempts \in 0..MaxAttempts
  /\ t \in 0..MaxLive
  /\ trans \in [Ids -> Ops \cup {"free"}]
  /\ answer \in Answers \cup {NoAnswer}
  /\ pc \in {"idle", "rollback", "enter", "send", "acquire", "wait", "halted"}
  /\ op \in Ops
  /\ {expired, listener, halting, dim, alarm, deadline, fast, late, stale} \subseteq BOOLEAN
  /\ {wl, calls} \subseteq Nat

Init ==
  /\ state = "UNDEFINED" /\ attempts = 0 /\ t = 0
  /\ listener = TRUE
  /\ trans = [i \in Ids |-> "free"]
  /\ answer = NoAnswer /\ expired = FALSE
  /\ pc = "idle" /\ op = "reg" /\ halting = FALSE /\ calls = 0
  /\ wl = 0 /\ dim = FALSE
  /\ alarm = FALSE /\ deadline = FALSE
  /\ fast \in BOOLEAN
  /\ late = FALSE /\ stale = FALSE

-----------------------------------------------------------------------------
(* t = new TransactionClient(...); t.request() *)
NewTransaction(o) ==
  \E i \in Ids :
    /\ trans[i] = "free" /\ \A j \in 1..(i - 1) : trans[j] # "free"
    /\ trans' = [trans EXCEPT ![i] = o]
    /\ t' = i

(* Receiver.reRegister(e).  "short" is an expiration of at most the 15 s that
   the alarm comes early: it is cancelled and not set.  While a deadline is
   known only an earlier one replaces it; the alarm, if set, is that deadline's. *)
Renew(e) ==
  /\ deadline' = (e # "none")
  /\ alarm' = (e = "long" /\ (alarm \/ ~deadline))

(* Faulty variant of Release: the lock of the retry is kept. *)
ReleaseWakeOnly ==
  IF wl > 0 THEN wl' = wl - 1 /\ UNCHANGED dim ELSE UNCHANGED locks

(* A result releases the wake lock once, and with it the lock of a retry. *)
Release ==
  IF wl > 0 THEN wl' = wl - 1 /\ dim' = FALSE ELSE UNCHANGED locks

(* onUaRegistrationFailure() without a retry, with attempts set to a. *)
Settle(s, a) ==
  /\ state' = s /\ attempts' = a
  /\ Release
  /\ UNCHANGED <<trans, t>>

(* ... and with one: under a lock that keeps the radio on, register() again
   (or unregister(), where this network may not be used). *)
Retry(s) ==
  LET o == IF fast THEN "reg" ELSE "dereg"
      w == IF wl > 0 THEN wl - 1 ELSE 0
  IN /\ ~dim
     /\ attempts' = 0
     /\ IF o = "reg" \/ s = "UNDEFINED"
          THEN /\ state' = Pending(o)
               /\ NewTransaction(o)
               /\ wl' = w + 1 /\ dim' = TRUE
          ELSE /\ state' = s
               /\ wl' = w
               /\ IF w > 0 THEN dim' = TRUE ELSE dim' = FALSE
               /\ UNCHANGED <<trans, t>>

(* A (de)registration that failed: the state is rolled back to s, the engine
   is told, and the alarm is set to try again in 1000 s. *)
Failed(s, a) ==
  IF listener
    THEN (Settle(s, a) \/ Retry(s)) /\ Renew("long")
    ELSE state' = s /\ attempts' = a /\ UNCHANGED <<trans, t, locks, renewal>>

(* Faulty variant of Gone: only a result of the expected kind releases. *)
GoneHolding(a) ==
  /\ state' = "UNREGISTERED" /\ attempts' = a
  /\ UNCHANGED <<trans, t, locks, renewal>>

(* A result after which the account is simply not registered. *)
Gone(a) ==
  /\ state' = "UNREGISTERED" /\ attempts' = a
  /\ IF listener THEN Release ELSE UNCHANGED locks
  /\ UNCHANGED <<trans, t, renewal>>

(* onTransTimeout().  Out of airplane mode an account that may use mobile data
   is tried again even if it was to be removed. *)
OnTransTimeout ==
  IF state = "REGISTERING" THEN Failed("UNDEFINED", attempts)
  ELSE (Pub /\ Failed("UNDEFINED", attempts)) \/ Gone(attempts)

-----------------------------------------------------------------------------
(* The main thread: register(expire_time) of RegisterAgent, called for
   registration or removal, and what the engine does before and after it. *)

(* The beginning: a running operation of the opposite kind is given up. *)
Begin(o, halt) ==
  /\ pc = "idle" /\ listener /\ calls < MaxCalls
  /\ calls' = calls + 1
  /\ attempts' = 0 /\ op' = o /\ halting' = halt
  /\ IF InProgress /\ state # Pending(o)
       THEN /\ pc' = "rollback"
            /\ trans' = [i \in Ids |-> IF i = t THEN "free" ELSE trans[i]]
            /\ stale' = (stale \/ answer # NoAnswer \/ expired)
       ELSE pc' = "enter" /\ UNCHANGED <<trans, stale>>
  /\ UNCHANGED <<t, listener, answer, expired, locks, fast, late>>

(* engine.register(): on a change of the network, before a call, by the user. *)
Register ==
  /\ Begin(IF fast THEN "reg" ELSE "dereg", FALSE)
  /\ UNCHANGED <<state, renewal>>

(* engine.registerMore() *)
RegisterMore ==
  /\ fast /\ state \notin {"REGISTERED", "REGISTERING"}
  /\ Begin("reg", FALSE)
  /\ UNCHANGED <<state, renewal>>

(* Faulty variant of Expire: the old deadline is kept. *)
ExpireKeepingDeadline ==
  /\ alarm
  /\ Begin(IF fast THEN "reg" ELSE "dereg", FALSE)
  /\ alarm' = FALSE
  /\ state' = IF state = "REGISTERED" THEN "UNREGISTERED" ELSE state
  /\ UNCHANGED deadline

(* engine.expire(): the alarm has gone off. *)
Expire ==
  /\ alarm
  /\ Begin(IF fast THEN "reg" ELSE "dereg", FALSE)
  /\ alarm' = FALSE /\ deadline' = FALSE
  /\ state' = IF state = "REGISTERED" THEN "UNREGISTERED" ELSE state

(* engine.halt() begins with unregister(). *)
Halt ==
  /\ Begin("dereg", TRUE)
  /\ UNCHANGED <<state, renewal>>

(* The given up operation is reported as a timeout, by the main thread. *)
Rollback ==
  /\ pc = "rollback"
  /\ pc' = "enter"
  /\ OnTransTimeout
  /\ UNCHANGED <<listener, answer, expired, op, halting, calls, fast, late, stale>>

Back == pc' = IF halting THEN "wait" ELSE "idle"

(* The test of the state.  A removal needs a registration that is complete or
   unknown, and register() returns false in the midst of the same operation. *)
Enter ==
  /\ pc = "enter"
  /\ IF state \in {"REGISTERED", "UNDEFINED"} \/ (op = "reg" /\ state = "UNREGISTERED")
       THEN state' = Pending(op) /\ pc' = "send"
       ELSE Back /\ UNCHANGED state
  /\ UNCHANGED <<attempts, t, listener, trans, answer, expired, op, halting, calls,
                 locks, renewal, fast, late, stale>>

Send ==
  /\ pc = "send"
  /\ NewTransaction(op)
  /\ pc' = "acquire"
  /\ UNCHANGED <<state, attempts, listener, answer, expired, op, halting, calls,
                 locks, renewal, fast, history>>

(* The engine takes the wake lock only after register() has returned true. *)
Acquire ==
  /\ pc = "acquire"
  /\ wl' = wl + 1
  /\ Back
  /\ UNCHANGED <<agent, listener, trans, answer, expired, op, halting, calls,
                 dim, renewal, fast, history>>

(* The end of engine.halt(), when the account is UNREGISTERED or 2 s are over. *)
HaltDone ==
  /\ pc = "wait"
  /\ pc' = "halted"
  /\ Release
  /\ listener' = FALSE
  /\ UNCHANGED <<agent, trans, answer, expired, op, halting, calls, renewal, fast, history>>

-----------------------------------------------------------------------------
(* The receive thread takes a response; its transaction has ended. *)
Answer(i, says) ==
  /\ trans[i] # "free" /\ answer = NoAnswer /\ pc # "halted"
  /\ answer' = [op |-> trans[i], says |-> says]
  /\ trans' = [trans EXCEPT ![i] = "free"]
  /\ UNCHANGED <<agent, listener, expired, main, locks, renewal, fast, history>>

Reported == late' = (late \/ pc = "acquire")

(* Faulty variant of OnSuccess: an answer to a removal is ignored. *)
OnSuccessOfRegister ==
  /\ answer.says \in Expires
  /\ answer' = NoAnswer /\ Reported
  /\ IF state = "REGISTERING"
       THEN /\ state' = "REGISTERED"
            /\ IF listener THEN Release /\ Renew(answer.says) ELSE UNCHANGED <<locks, renewal>>
            /\ UNCHANGED <<attempts, trans, t>>
       ELSE UNCHANGED <<agent, trans, locks, renewal>>
  /\ UNCHANGED <<listener, expired, main, fast, stale>>

(* onTransSuccessResponse() *)
OnSuccess ==
  /\ answer # NoAnswer /\ answer.says \in Expires
  /\ answer' = NoAnswer /\ Reported
  /\ IF state = "REGISTERING"
       THEN /\ state' = "REGISTERED"
            /\ IF listener THEN Release /\ Renew(answer.says) ELSE UNCHANGED <<locks, renewal>>
            /\ UNCHANGED <<attempts, trans, t>>
       ELSE Gone(attempts)
  /\ UNCHANGED <<listener, expired, main, fast, stale>>

(* onTransFailureResponse() with a challenge that processAuthenticationResponse()
   answers: the same request again, with credentials, as a new transaction. *)
OnChallenge ==
  /\ answer.says = "challenge" /\ attempts < MaxAttempts
  /\ answer' = NoAnswer
  /\ attempts' = attempts + 1
  /\ NewTransaction(answer.op)
  /\ UNCHANGED <<state, listener, expired, main, locks, renewal, fast, late, stale>>

(* ... and with any other failure, or a challenge too many. *)
OnFailure ==
  LET a == IF attempts < MaxAttempts THEN attempts + 1 ELSE attempts IN
  /\ answer.says = "refused" \/ (answer.says = "challenge" /\ attempts = MaxAttempts)
  /\ answer' = NoAnswer /\ Reported
  /\ IF state = "REGISTERING" THEN Failed("UNREGISTERED", a) ELSE Gone(a)
  /\ UNCHANGED <<listener, expired, main, fast, stale>>

(* The timer thread takes the timeout of a transaction, and reports it. *)
TimeOut(i) ==
  /\ trans[i] # "free" /\ ~expired
  /\ expired' = TRUE
  /\ trans' = [trans EXCEPT ![i] = "free"]
  /\ UNCHANGED <<agent, listener, answer, main, locks, renewal, fast, history>>

(* Faulty variant of OnTimeout: a timeout that the agent does not expect to be
   of a registration leaves the state alone. *)
OnTimeoutOfRegister ==
  /\ expired
  /\ expired' = FALSE /\ Reported
  /\ IF state = "REGISTERING" THEN Failed("UNDEFINED", attempts)
     ELSE UNCHANGED <<agent, trans, locks, renewal>>
  /\ UNCHANGED <<listener, answer, main, fast, stale>>

OnTimeout ==
  /\ expired
  /\ expired' = FALSE /\ Reported
  /\ OnTransTimeout
  /\ UNCHANGED <<listener, answer, main, fast, stale>>

(* The phone moves between networks. *)
Roam ==
  /\ fast' = ~fast
  /\ UNCHANGED <<agent, listener, trans, answer, expired, main, locks, renewal, history>>

Call      == Register \/ RegisterMore \/ Expire \/ Halt
MainStep  == Rollback \/ Enter \/ Send \/ Acquire \/ HaltDone
OnAnswer  == OnSuccess \/ OnChallenge \/ OnFailure

Next ==
  \/ Call \/ MainStep \/ OnAnswer \/ OnTimeout \/ Roam
  \/ \E i \in Ids : TimeOut(i)
  \/ \E i \in Ids, says \in Expires \cup {"challenge", "refused"} : Answer(i, says)

(* A call that has begun goes on, a callback is made, and the transaction timer
   ends the wait for a registrar that does not answer. *)
Fairness ==
  /\ WF_vars(MainStep) /\ WF_vars(OnAnswer) /\ WF_vars(OnTimeout)
  /\ \A i \in Ids : WF_vars(TimeOut(i))

Spec == Init /\ [][Next]_vars /\ Fairness

-----------------------------------------------------------------------------
Quiet == pc \in {"idle", "halted"} /\ answer = NoAnswer /\ ~expired
         /\ \A i \in Ids : trans[i] = "free"

(* An operation in progress is carried by a transaction, by a result on its way
   to the agent or by the main thread, whatever callbacks of older transactions
   come in between: the account is never left REGISTERING or DEREGISTERING with
   nothing that could end it (register() would return false for ever). *)
ProgressIsCarried ==
  InProgress =>
    \/ \E i \in Ids : trans[i] # "free"
    \/ answer # NoAnswer \/ expired
    \/ pc \in {"rollback", "send"}

(* ... and it does end, once the engine is not called again. *)
InProgressEnds == InProgress ~> ~InProgress

(* At rest the wake lock of the engine is not held, so that the phone can sleep,
   unless a result overtook the acquisition of its lock (the lock is taken after
   register() has returned) or a callback was made for an operation that had
   been given up and reported already. *)
RestsUnlocked == Quiet => (wl = 0 \/ late \/ stale)

(* The screen or Wi-Fi lock of a retry is never held longer than the wake lock
   it supports: nothing else would release it. *)
DimNeedsWake == dim => wl > 0

(* "Whether it is periodically registering" (the comment on isRegistered()): a
   registered account has an alarm set to renew it.  It has, if the registrar
   grants more than the 15 s by which the alarm comes early. *)
RegisteredIsRenewed == (state = "REGISTERED" /\ listener) => alarm
=============================================================================
