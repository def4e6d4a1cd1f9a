-------------------------- MODULE TransactionProofs --------------------------
(***************************************************************************)
(* The timers, and the client transaction that is built on them.           *)
(*                                                                         *)
(* What the timer service guarantees for any set of timers.                *)
(* EarlyHaltSilences is not inductive: that a halted timer has not fired   *)
(* says nothing of the thread that may be about to call it.  The           *)
(* strengthening IInv ties the thread to the task it runs and the listener *)
(* field to the halts that cleared it.                                     *)
(*                                                                         *)
(* The transaction has no parameter that bounds it, and so the runs        *)
(* already cover it whole; the proofs say why it is so.                    *)
(***************************************************************************)
EXTENDS Timer, TransactionClient, FiniteSetTheorems, TLAPS

-----------------------------------------------------------------------------
(* The timer service. *)

(* halt() was called before the task began. *)
HaltedEarly(t) == haltedAt[t] \cap {"none", "scheduled"} # {}

(* A task that has not begun to run has not fired. *)
UnrunUnfired == \A t \in Timers : task[t] \in {"none", "scheduled"} => fired[t] = 0

(* halt() before the run leaves no listener, so the run is never entered. *)
EarlyHaltCut ==
  \A t \in Timers : HaltedEarly(t) => ~listener[t] /\ task[t] # "running"

(* The thread runs one task at a time, and none while it is idle. *)
ThreadRunsTask ==
  \A t, u \in Timers :
    task[t] = "running" => /\ thread # "idle"
                           /\ task[u] = "running" => t = u

(* Between the test and the call only halt() clears the listener. *)
ClearedByHalt ==
  \A t \in Timers :
    thread = "calling" /\ task[t] = "running" /\ ~listener[t]
      => "running" \in haltedAt[t]

IInv ==
  /\ TimerTypeOK
  /\ UnrunUnfired
  /\ EarlyHaltCut
  /\ ThreadRunsTask
  /\ ClearedByHalt
  /\ EarlyHaltSilences
  /\ DeadOnlyByLateHalt

(* The initial state satisfies the strengthening. *)
LEMMA InitInv == TimerInit => IInv
<1> SUFFICES ASSUME TimerInit PROVE IInv
  OBVIOUS
<1>1. TimerTypeOK
  BY DEF TimerInit, TimerTypeOK, TaskStates
<1>2. UnrunUnfired /\ EarlyHaltCut /\ EarlyHaltSilences
  BY DEF TimerInit, UnrunUnfired, EarlyHaltCut, EarlyHaltSilences, HaltedEarly
<1>3. ThreadRunsTask /\ ClearedByHalt /\ DeadOnlyByLateHalt
  BY DEF TimerInit, ThreadRunsTask, ClearedByHalt, DeadOnlyByLateHalt
<1> QED BY <1>1, <1>2, <1>3 DEF IInv

(* Every step, or none, keeps it. *)
LEMMA NextInv == IInv /\ [TimerNext]_timerVars => IInv'
<1> SUFFICES ASSUME IInv, [TimerNext]_timerVars PROVE IInv'
  OBVIOUS
<1> USE DEF IInv
<1>1. ASSUME NEW t \in Timers, Start(t) PROVE IInv'
  <2>1. TimerTypeOK'
    BY <1>1 DEF Start, TimerTypeOK, TaskStates
  <2>2. UnrunUnfired' /\ EarlyHaltCut' /\ EarlyHaltSilences'
    BY <1>1 DEF Start, TimerTypeOK, UnrunUnfired, EarlyHaltCut, EarlyHaltSilences, HaltedEarly
  <2>3. ThreadRunsTask' /\ ClearedByHalt' /\ DeadOnlyByLateHalt'
    BY <1>1 DEF Start, TimerTypeOK, ThreadRunsTask, ClearedByHalt, DeadOnlyByLateHalt
  <2> QED BY <2>1, <2>2, <2>3
<1>2. ASSUME NEW t \in Timers, Halt(t) PROVE IInv'
  <2>1. TimerTypeOK'
    BY <1>2 DEF Halt, TimerTypeOK, TaskStates
  <2>2. UnrunUnfired'
    BY <1>2 DEF Halt, UnrunUnfired
  <2>3. EarlyHaltCut'
    BY <1>2 DEF Halt, TimerTypeOK, EarlyHaltCut, HaltedEarly
  <2>4. EarlyHaltSilences'
    BY <1>2 DEF Halt, TimerTypeOK, UnrunUnfired, EarlyHaltSilences
  <2>5. ThreadRunsTask' /\ ClearedByHalt' /\ DeadOnlyByLateHalt'
    BY <1>2 DEF Halt, TimerTypeOK, ThreadRunsTask, ClearedByHalt, DeadOnlyByLateHalt
  <2> QED BY <2>1, <2>2, <2>3, <2>4, <2>5
<1>3. ASSUME NEW t \in Timers, RunTask(t) PROVE IInv'
  <2>1. TimerTypeOK'
    BY <1>3 DEF RunTask, TimerTypeOK, TaskStates
  <2>2. UnrunUnfired' /\ EarlyHaltSilences'
    BY <1>3 DEF RunTask, TimerTypeOK, UnrunUnfired, EarlyHaltSilences
  <2>3. EarlyHaltCut'
    BY <1>3 DEF RunTask, TimerTypeOK, EarlyHaltCut, HaltedEarly
  <2>4. ThreadRunsTask'
    BY <1>3 DEF RunTask, TimerTypeOK, ThreadRunsTask
  <2>5. ClearedByHalt' /\ DeadOnlyByLateHalt'
    BY <1>3 DEF RunTask, TimerTypeOK, ThreadRunsTask, ClearedByHalt, DeadOnlyByLateHalt
  <2> QED BY <2>1, <2>2, <2>3, <2>4, <2>5
<1>4. ASSUME NEW t \in Timers, Call(t) PROVE IInv'
  <2>1. TimerTypeOK'
    BY <1>4 DEF Call, TimerTypeOK
  <2>3. UnrunUnfired' /\ EarlyHaltCut' /\ EarlyHaltSilences'
    BY <1>4 DEF Call, TimerTypeOK, UnrunUnfired, EarlyHaltCut, EarlyHaltSilences, HaltedEarly
  <2>4. ThreadRunsTask' /\ ClearedByHalt' /\ DeadOnlyByLateHalt'
    BY <1>4
    DEF Call, TimerTypeOK, ThreadRunsTask, ClearedByHalt, DeadOnlyByLateHalt
  <2> QED BY <2>1, <2>3, <2>4
<1>5. ASSUME NEW t \in Timers, CallNull(t) PROVE IInv'
  <2>1. TimerTypeOK' /\ UnrunUnfired' /\ EarlyHaltCut' /\ EarlyHaltSilences'
    BY <1>5 DEF CallNull, TimerTypeOK, UnrunUnfired, EarlyHaltCut, EarlyHaltSilences, HaltedEarly
  <2>2. ThreadRunsTask' /\ ClearedByHalt'
    BY <1>5 DEF CallNull, ThreadRunsTask, ClearedByHalt
  <2>3. "running" \in haltedAt[t]
    BY <1>5 DEF CallNull, ClearedByHalt
  <2>4. DeadOnlyByLateHalt'
    BY <1>5, <2>3 DEF CallNull, DeadOnlyByLateHalt
  <2> QED BY <2>1, <2>2, <2>4
<1>6. ASSUME NEW t \in Timers, Return(t) PROVE IInv'
  <2>1. TimerTypeOK'
    BY <1>6 DEF Return, TimerTypeOK, TaskStates
  <2>2. UnrunUnfired' /\ EarlyHaltCut' /\ EarlyHaltSilences'
    BY <1>6 DEF Return, TimerTypeOK, UnrunUnfired, EarlyHaltCut, EarlyHaltSilences, HaltedEarly
  <2>3. ThreadRunsTask' /\ ClearedByHalt' /\ DeadOnlyByLateHalt'
    BY <1>6
    DEF Return, TimerTypeOK, ThreadRunsTask, ClearedByHalt, DeadOnlyByLateHalt
  <2> QED BY <2>1, <2>2, <2>3
<1>7. CASE UNCHANGED timerVars
  BY <1>7 DEF timerVars, TimerTypeOK, UnrunUnfired, EarlyHaltCut, HaltedEarly, ThreadRunsTask,
              ClearedByHalt, EarlyHaltSilences, DeadOnlyByLateHalt
<1> QED BY <1>1, <1>2, <1>3, <1>4, <1>5, <1>6, <1>7 DEF TimerNext, ThreadStep

(* The strengthening is an invariant of the timer service. *)
THEOREM StrengthenedInvariant == TimerSpec => []IInv
BY InitInv, NextInv, PTL DEF TimerSpec

(* Every reachable state of the service is well typed. *)
THEOREM TimerTypeCorrect == TimerSpec => []TimerTypeOK
<1>1. IInv => TimerTypeOK
  BY DEF IInv
<1> QED BY <1>1, StrengthenedInvariant, PTL

(* halt() on a timer whose task has not begun silences it for ever. *)
THEOREM EarlyHaltIsSilent == TimerSpec => []EarlyHaltSilences
<1>1. IInv => EarlyHaltSilences
  BY DEF IInv
<1> QED BY <1>1, StrengthenedInvariant, PTL

(* Only a halt() inside the window of onInnerTimeout() can end the thread. *)
THEOREM DeathNeedsLateHalt == TimerSpec => []DeadOnlyByLateHalt
<1>1. IInv => DeadOnlyByLateHalt
  BY DEF IInv
<1> QED BY <1>1, StrengthenedInvariant, PTL

-----------------------------------------------------------------------------
(* The client transaction: what the receive thread does, the timer thread, and
   the owner. *)
RxActs ==
  \/ TestStatus \/ Proceed \/ Complete \/ StartClearing
  \/ \E m \in {"1xx", "success", "failure"} : Receive(m)
TxActs ==
  \/ Enter \/ Die \/ Retransmission \/ Resend \/ TransactionTimeout
  \/ ForgetListener \/ Clearing \/ \E k \in TimerNames : Expire(k)
OwnerActs == Request \/ Terminate \/ OwnerStep
TellActs  == TestListener \/ TellOutcome \/ TellNobody
TellTimeoutActs == TestTimeoutListener \/ TellTimeout \/ TellNoTimeout

(* The steps, by the thread that takes them. *)
LEMMA NextCases ==
  Next <=> (RxActs \/ TxActs \/ OwnerActs \/ TellActs \/ TellTimeoutActs)
BY DEF Next, RxStep, TxStep, RxActs, TxActs, OwnerActs, TellActs, TellTimeoutActs

(* Halting timers leaves each in a state of a timer. *)
LEMMA HaltedType ==
  ASSUME NEW ks, timer \in [TimerNames -> {"new", "set", "halted", "done"}]
  PROVE  Halted(ks) \in [TimerNames -> {"new", "set", "halted", "done"}]
BY DEF Halted

(* Only a final response gets past the test of the status. *)
FinalOutcome == rx \in {"final", "test", "tell", "end"} => msg # "1xx"

Typed == TypeOK /\ FinalOutcome

(* Every step keeps the types and the outcome of a final response. *)
LEMMA TypedStep == ASSUME Typed, [Next]_vars PROVE Typed'
<1> USE DEF Typed, FinalOutcome
<1>0. \A ks : Halted(ks) \in [TimerNames -> {"new", "set", "halted", "done"}]
  BY HaltedType DEF TypeOK
<1>1. CASE RxActs
  <2>1. CASE TestStatus
    BY <2>1 DEF TestStatus, TypeOK
  <2>2. CASE Proceed
    BY <2>2 DEF Proceed, TypeOK
  <2>3. CASE Complete
    BY <1>0, <2>3 DEF Complete, TypeOK
  <2>4. CASE StartClearing
    <3>1. timer' \in [TimerNames -> {"new", "set", "halted", "done"}]
      BY <2>4 DEF StartClearing, TypeOK, TimerNames
    <3>2. rx' = "idle" /\ UNCHANGED <<status, registered, msg, tx, due, owner, reported, met>>
      BY <2>4 DEF StartClearing
    <3>3. transaction_listener' \in BOOLEAN
      BY <2>4, Zenon DEF StartClearing
    <3> HIDE <2>4
    <3> QED
      BY <3>1, <3>2, <3>3 DEF TypeOK
  <2>5. CASE \E m \in {"1xx", "success", "failure"} : Receive(m)
    BY <2>5 DEF Receive, TypeOK
  <2> QED
    BY <1>1, <2>1, <2>2, <2>3, <2>4, <2>5 DEF RxActs
<1>2. CASE TxActs
  <2>1. CASE Enter
    <3>1. timer' \in [TimerNames -> {"new", "set", "halted", "done"}]
      BY <2>1 DEF Enter, TypeOK
    <3>2. tx' = "entered" /\ UNCHANGED <<status, transaction_listener, registered, rx, msg, due, owner, reported, met>>
      BY <2>1 DEF Enter
    <3> QED
      BY <3>1, <3>2 DEF TypeOK
  <2>2. CASE Die \/ Retransmission \/ ForgetListener
    <3>1. CASE Die
      BY <3>1 DEF Die, TypeOK
    <3>2. CASE Retransmission
      BY <3>2 DEF Retransmission, TypeOK
    <3>3. CASE ForgetListener
      <4>1. tx' = "idle" /\ UNCHANGED <<status, registered, timer, rx, msg, due, owner, reported, met>>
        BY <3>3 DEF ForgetListener
      <4>2. transaction_listener' \in BOOLEAN
        BY <3>3, Zenon DEF ForgetListener
      <4> HIDE <3>3
      <4> QED
        BY <4>1, <4>2 DEF TypeOK
    <3> QED
      BY <2>2, <3>1, <3>2, <3>3
  <2>3. CASE Resend
    BY <2>3 DEF Resend, TypeOK, TimerNames
  <2>4. CASE TransactionTimeout
    BY <1>0, <2>4 DEF TransactionTimeout, TypeOK
  <2>5. CASE Clearing
    BY <1>0, <2>5 DEF Clearing, TypeOK
  <2>6. CASE \E k \in TimerNames : Expire(k)
    BY <2>6 DEF Expire, TypeOK
  <2> QED
    BY <1>2, <2>1, <2>2, <2>3, <2>4, <2>5, <2>6 DEF TxActs
<1>3. CASE OwnerActs
  <2>1. CASE Request
    BY <2>1 DEF Request, TypeOK, TimerNames
  <2>2. CASE Terminate
    BY <2>2 DEF Terminate, TypeOK
  <2>3. CASE HaltAll
    BY <1>0, <2>3 DEF HaltAll, TypeOK
  <2>4. CASE Forget
    <3>1. owner' = "done" /\ UNCHANGED <<status, registered, timer, rx, msg, tx, due, reported, met>>
      BY <2>4 DEF Forget
    <3>2. transaction_listener' \in BOOLEAN
      BY <2>4, Zenon DEF Forget
    <3> HIDE <2>4
    <3> QED
      BY <3>1, <3>2 DEF TypeOK
  <2> QED
    BY <1>3, <2>1, <2>2, <2>3, <2>4 DEF OwnerActs, OwnerStep
<1>4. CASE TellActs
  <2>1. CASE TestListener
    BY <2>1 DEF TestListener, TypeOK
  <2>2. CASE TellOutcome
    BY <2>2 DEF TellOutcome, TypeOK
  <2>3. CASE TellNobody
    BY <2>3 DEF TellNobody, TypeOK
  <2> QED
    BY <1>4, <2>1, <2>2, <2>3 DEF TellActs
<1>5. CASE TellTimeoutActs
  <2>1. CASE TestTimeoutListener
    BY <2>1 DEF TestTimeoutListener, TypeOK
  <2>2. CASE TellTimeout
    BY <2>2 DEF TellTimeout, TypeOK
  <2>3. CASE TellNoTimeout
    BY <2>3 DEF TellNoTimeout, TypeOK
  <2> QED
    BY <1>5, <2>1, <2>2, <2>3 DEF TellTimeoutActs
<1>6. CASE UNCHANGED vars
  BY <1>6 DEF vars, TypeOK
<1> QED
  BY <1>1, <1>2, <1>3, <1>4, <1>5, <1>6, NextCases

(* Every variable of the transaction and of the three threads keeps its type, and
   only a final response is ever taken for an outcome. *)
THEOREM TypeCorrect == Spec => []TypeOK
<1>1. Init => Typed
  BY DEF Init, Typed, FinalOutcome, TypeOK, TimerNames
<1>2. Typed /\ [Next]_vars => Typed'
  BY TypedStep
<1>3. Typed => TypeOK
  BY DEF Typed
<1> QED
  BY <1>1, <1>2, <1>3, PTL DEF Spec

-----------------------------------------------------------------------------
(* As long as the two threads have not met between test and reset, the one that
   is there has told nothing before its call, and after an outcome was told the
   listener is there only for the thread that told it to reset. *)
Apart ==
  ~met =>
    /\ ~(rx \in {"tell", "end"} /\ tx \in {"tell", "end"})
    /\ reported = {} \/ \E o \in {"success", "failure", "timeout"} : reported = {o}
    /\ reported # {} =>
         /\ rx # "tell" /\ tx # "tell"
         /\ transaction_listener => (rx = "end" \/ tx = "end")

(* A handler only gets between test and reset by its test. *)
LEMMA ApartKept ==
  ASSUME Apart, reported' = reported, met' = met,
         rx' \in {"tell", "end"} => rx' = rx,
         tx' \in {"tell", "end"} => tx' = tx,
         transaction_listener' => (transaction_listener /\ (rx = "end" => rx' = "end") /\ (tx = "end" => tx' = "end"))
  PROVE  Apart'
BY DEF Apart

(* Every step keeps the two outcomes apart. *)
LEMMA ApartStep == ASSUME Typed, Apart, [Next]_vars PROVE Apart'
<1>1. CASE RxActs
  BY <1>1, ApartKept DEF RxActs, TestStatus, Proceed, Complete, StartClearing, Receive, TypeOK
<1>2. CASE TxActs
  BY <1>2, ApartKept DEF TxActs, Enter, Die, Retransmission, Resend, TransactionTimeout,
                         ForgetListener, Clearing, Expire, TypeOK
<1>3. CASE OwnerActs
  BY <1>3, ApartKept DEF OwnerActs, Request, Terminate, OwnerStep, HaltAll, Forget, TypeOK
<1>4. CASE TellActs
  <2>1. CASE TestListener
    BY <2>1 DEF TestListener, Apart, TypeOK
  <2>2. CASE TellOutcome
    BY <2>2 DEF TellOutcome, Apart, Typed, TypeOK, FinalOutcome
  <2>3. CASE TellNobody
    BY <2>3, ApartKept DEF TellNobody
  <2> QED
    BY <1>4, <2>1, <2>2, <2>3 DEF TellActs
<1>5. CASE TellTimeoutActs
  <2>1. CASE TestTimeoutListener
    BY <2>1 DEF TestTimeoutListener, Apart, TypeOK
  <2>2. CASE TellTimeout
    BY <2>2 DEF TellTimeout, Apart, TypeOK
  <2>3. CASE TellNoTimeout
    BY <2>3, ApartKept DEF TellNoTimeout
  <2> QED
    BY <1>5, <2>1, <2>2, <2>3 DEF TellTimeoutActs
<1>6. CASE UNCHANGED vars
  BY <1>6, ApartKept DEF vars
<1> QED
  BY <1>1, <1>2, <1>3, <1>4, <1>5, <1>6, NextCases

(* A response and the timeout are both told only if the receive thread and the
   timer thread were at once between test and reset of transaction_listener. *)
THEOREM OneOutcome == Spec => []OneOutcomeUnlessRace
<1>1. Init => Typed /\ Apart
  BY DEF Init, Typed, FinalOutcome, TypeOK, TimerNames, Apart
<1>2. Typed /\ Apart /\ [Next]_vars => Typed' /\ Apart'
  BY TypedStep, ApartStep
<1>3. Apart => OneOutcomeUnlessRace
  <2> SUFFICES ASSUME Apart, ~met PROVE ~(Cardinality(reported) > 1)
    BY DEF OneOutcomeUnlessRace
  <2>1. CASE reported = {}
    BY <2>1, FS_EmptySet
  <2>2. CASE reported # {}
    <3>1. PICK o \in {"success", "failure", "timeout"} : reported = {o}
      BY <2>2 DEF Apart
    <3>2. Cardinality({o}) = 1
      BY FS_Singleton
    <3> QED
      BY <3>1, <3>2
  <2> QED
    BY <2>1, <2>2
<1> QED
  BY <1>1, <1>2, <1>3, PTL DEF Spec
=============================================================================
