------------------------- MODULE RegisterAgentProofs -------------------------
(* Theorems about RegisterAgent, for every number of attempts, of calls of the
   engine and of transactions that wait at a time. *)
EXTENDS RegisterAgent, TLAPS

USE DEF Ids, Ops, States, Pending, NoAnswer, Answers, InProgress

-----------------------------------------------------------------------------
(* The parts the handlers share. *)

(* releaseWakeLock keeps the count natural and drops the lock of a retry. *)
LEMMA ReleaseFacts ==
  ASSUME wl \in Nat, dim \in BOOLEAN, DimNeedsWake, Release
  PROVE  wl' \in Nat /\ dim' \in BOOLEAN /\ DimNeedsWake'
<1>1. CASE wl > 0
  <2>1. wl' = wl - 1 /\ dim' = FALSE
    BY <1>1 DEF Release
  <2>2. wl' \in Nat
    BY <1>1, <2>1
  <2> QED
    BY <2>1, <2>2, Zenon DEF DimNeedsWake
<1>2. CASE ~(wl > 0)
  <2>1. wl' = wl /\ dim' = dim
    BY <1>2, Zenon DEF Release, locks
  <2> QED
    BY <1>2, <2>1, Zenon DEF DimNeedsWake
<1> QED
  BY <1>1, <1>2

(* A new transaction is among those that wait, whatever waits already. *)
LEMMA NewTransactionFacts ==
  ASSUME BoundAssumption, TypeOK, NEW o \in Ops, NewTransaction(o)
  PROVE  /\ trans' \in [Ids -> Ops \cup {"free"}]
         /\ t' \in 0..MaxLive
         /\ \E i \in Ids : trans'[i] # "free"
BY DEF NewTransaction, TypeOK, BoundAssumption

(* A failure, retried or not, ends the operation or starts a transaction. *)
LEMMA FailedFacts ==
  ASSUME BoundAssumption, TypeOK, DimNeedsWake,
         NEW s \in {"UNDEFINED", "UNREGISTERED"}, NEW a \in 0..MaxAttempts, Failed(s, a)
  PROVE  /\ state' \in States \ {"REGISTERED"}
         /\ attempts' \in 0..MaxAttempts
         /\ trans' \in [Ids -> Ops \cup {"free"}] /\ t' \in 0..MaxLive
         /\ wl' \in Nat /\ dim' \in BOOLEAN /\ DimNeedsWake'
         /\ alarm' \in BOOLEAN /\ deadline' \in BOOLEAN
         /\ InProgress' => \E i \in Ids : trans'[i] # "free"
<1>1. CASE ~listener
  BY <1>1 DEF Failed, TypeOK, DimNeedsWake, locks, renewal
<1>2. CASE listener /\ Settle(s, a) /\ Renew("long")
  BY <1>2, ReleaseFacts DEF Settle, Renew, TypeOK
<1>3. CASE listener /\ Retry(s) /\ Renew("long")
  <2> DEFINE o == IF fast THEN "reg" ELSE "dereg"
             w == IF wl > 0 THEN wl - 1 ELSE 0
  <2>1. w \in Nat /\ o \in Ops
    BY DEF TypeOK
  <2>2. alarm' \in BOOLEAN /\ deadline' \in BOOLEAN
    BY <1>3 DEF Renew, TypeOK
  <2>3. attempts' \in 0..MaxAttempts
    BY <1>3 DEF Retry, BoundAssumption
  <2>4. CASE o = "reg" \/ s = "UNDEFINED"
    <3>1. state' = Pending(o) /\ NewTransaction(o) /\ wl' = w + 1 /\ dim' = TRUE
      BY <1>3, <2>4 DEF Retry
    <3>2. wl' \in Nat /\ wl' > 0
      BY <2>1, <3>1
    <3> QED
      BY <2>1, <2>2, <2>3, <3>1, <3>2, NewTransactionFacts DEF DimNeedsWake
  <2>5. CASE ~(o = "reg" \/ s = "UNDEFINED")
    <3>1. state' = s /\ wl' = w /\ (IF w > 0 THEN dim' = TRUE ELSE dim' = FALSE) /\ trans' = trans /\ t' = t
      BY <1>3, <2>5 DEF Retry
    <3> HIDE DEF w
    <3>2. wl' \in Nat /\ dim' \in BOOLEAN /\ DimNeedsWake'
      BY <2>1, <3>1, Zenon DEF DimNeedsWake
    <3>3. trans' \in [Ids -> Ops \cup {"free"}] /\ t' \in 0..MaxLive
      BY <3>1 DEF TypeOK
    <3>4. state' \in States \ {"REGISTERED"} /\ ~InProgress'
      BY <3>1
    <3> QED
      BY <2>2, <2>3, <3>2, <3>3, <3>4
  <2> QED
    BY <2>4, <2>5
<1> QED
  BY <1>1, <1>2, <1>3 DEF Failed

(* A registration given up leaves every part of the agent in its type. *)
LEMMA GoneFacts ==
  ASSUME TypeOK, DimNeedsWake, NEW a \in 0..MaxAttempts, Gone(a)
  PROVE  /\ state' = "UNREGISTERED"
         /\ attempts' \in 0..MaxAttempts
         /\ trans' \in [Ids -> Ops \cup {"free"}] /\ t' \in 0..MaxLive
         /\ wl' \in Nat /\ dim' \in BOOLEAN /\ DimNeedsWake'
         /\ alarm' \in BOOLEAN /\ deadline' \in BOOLEAN
<1>1. wl \in Nat /\ dim \in BOOLEAN
  BY DEF TypeOK
<1>2. wl' \in Nat /\ dim' \in BOOLEAN /\ DimNeedsWake'
  BY <1>1, ReleaseFacts DEF Gone, locks, DimNeedsWake
<1> QED
  BY <1>2 DEF Gone, TypeOK, renewal

(* After a timeout the account is not registered, and is in progress only with
   a transaction that waits. *)
LEMMA TimeoutFacts ==
  ASSUME BoundAssumption, TypeOK, DimNeedsWake, OnTransTimeout
  PROVE  /\ state' \in States \ {"REGISTERED"}
         /\ attempts' \in 0..MaxAttempts
         /\ trans' \in [Ids -> Ops \cup {"free"}] /\ t' \in 0..MaxLive
         /\ wl' \in Nat /\ dim' \in BOOLEAN /\ DimNeedsWake'
         /\ alarm' \in BOOLEAN /\ deadline' \in BOOLEAN
         /\ InProgress' => \E i \in Ids : trans'[i] # "free"
<1>1. attempts \in 0..MaxAttempts
  BY DEF TypeOK
<1>2. CASE Failed("UNDEFINED", attempts)
  BY <1>1, <1>2, FailedFacts
<1>3. CASE Gone(attempts)
  BY <1>1, <1>3, GoneFacts
<1> QED
  BY <1>2, <1>3 DEF OnTransTimeout

-----------------------------------------------------------------------------
(* The invariant of every step: the types, the locks and the progress. *)

IInv == TypeOK /\ DimNeedsWake /\ ProgressIsCarried

(* The invariant holds before the first registration. *)
LEMMA IInvInit == ASSUME BoundAssumption, Init PROVE IInv
<1>1. {expired, listener, halting, dim, alarm, deadline, fast, late, stale} \subseteq BOOLEAN
  BY Zenon DEF Init
<1>2. TypeOK
  BY <1>1 DEF Init, TypeOK, BoundAssumption
<1>3. DimNeedsWake
  BY Zenon DEF Init, DimNeedsWake
<1>4. ProgressIsCarried
  BY DEF Init, ProgressIsCarried
<1> QED
  BY <1>2, <1>3, <1>4 DEF IInv

(* The beginning of a call.  The state is set by the action that calls it. *)
LEMMA BeginFacts ==
  ASSUME IInv, NEW o \in Ops, NEW h \in BOOLEAN, Begin(o, h),
         state' \in States, state' = state \/ state' = "UNREGISTERED",
         alarm' \in BOOLEAN, deadline' \in BOOLEAN, BoundAssumption
  PROVE  IInv'
<1>1. TypeOK'
  <2>1. {expired, listener, halting, dim, alarm, deadline, fast, late, stale}' \subseteq BOOLEAN
    <3>1. {expired, listener, dim, fast, late}' = {expired, listener, dim, fast, late}
      BY DEF Begin, locks
    <3>2. stale' \in BOOLEAN /\ halting' \in BOOLEAN
      BY DEF Begin, IInv, TypeOK
    <3> QED
      BY <3>1, <3>2 DEF IInv, TypeOK
  <2> QED
    BY <2>1 DEF Begin, IInv, TypeOK, BoundAssumption, locks
<1>2. DimNeedsWake'
  BY DEF Begin, IInv, DimNeedsWake, locks
<1>3. ProgressIsCarried'
  BY DEF Begin, IInv, ProgressIsCarried
<1> QED
  BY <1>1, <1>2, <1>3 DEF IInv

(* The calls of the engine keep the invariant. *)
LEMMA CallStep ==
  ASSUME BoundAssumption, IInv, Call
  PROVE  IInv'
<1>1. TypeOK
  BY DEF IInv
<1>2. CASE Register
  BY <1>1, <1>2, BeginFacts DEF Register, TypeOK, renewal
<1>3. CASE RegisterMore
  BY <1>1, <1>3, BeginFacts DEF RegisterMore, TypeOK, renewal
<1>4. CASE Expire
  BY <1>1, <1>4, BeginFacts DEF Expire, TypeOK
<1>5. CASE Halt
  BY <1>1, <1>5, BeginFacts DEF Halt, TypeOK, renewal
<1> QED
  BY <1>2, <1>3, <1>4, <1>5 DEF Call

(* The steps of the main thread keep the invariant. *)
LEMMA MainStepStep ==
  ASSUME BoundAssumption, IInv, MainStep
  PROVE  IInv'
<1> USE BoundAssumption
<1>0. TypeOK /\ DimNeedsWake /\ ProgressIsCarried
  BY DEF IInv
<1>1. CASE Rollback
  <2>1. TypeOK' /\ DimNeedsWake'
    BY <1>0, <1>1, TimeoutFacts DEF Rollback, TypeOK
  <2>2. ProgressIsCarried'
    BY <1>0, <1>1, TimeoutFacts DEF Rollback, ProgressIsCarried
  <2> QED
    BY <2>1, <2>2 DEF IInv
<1>2. CASE Enter
  <2>1. TypeOK' /\ DimNeedsWake'
    BY <1>0, <1>2 DEF Enter, Back, TypeOK, DimNeedsWake, locks, renewal
  <2>2. ProgressIsCarried'
    BY <1>0, <1>2 DEF Enter, Back, ProgressIsCarried
  <2> QED
    BY <2>1, <2>2 DEF IInv
<1>3. CASE Send
  <2>1. op \in Ops
    BY <1>0 DEF TypeOK
  <2>2. TypeOK' /\ DimNeedsWake'
    BY <1>0, <1>3, <2>1, NewTransactionFacts
    DEF Send, TypeOK, DimNeedsWake, locks, renewal, history
  <2>3. ProgressIsCarried'
    BY <1>0, <1>3, <2>1, NewTransactionFacts DEF Send, ProgressIsCarried
  <2> QED
    BY <2>2, <2>3 DEF IInv
<1>4. CASE Acquire
  <2>1. TypeOK' /\ DimNeedsWake'
    BY <1>0, <1>4 DEF Acquire, Back, TypeOK, DimNeedsWake, agent, renewal, history
  <2>2. ProgressIsCarried'
    BY <1>0, <1>4 DEF Acquire, Back, ProgressIsCarried, agent
  <2> QED
    BY <2>1, <2>2 DEF IInv
<1>5. CASE HaltDone
  <2>1. wl \in Nat /\ dim \in BOOLEAN
    BY <1>0 DEF TypeOK
  <2>2. wl' \in Nat /\ dim' \in BOOLEAN /\ DimNeedsWake'
    BY <1>0, <1>5, <2>1, ReleaseFacts DEF HaltDone
  <2>3. TypeOK'
    BY <1>0, <1>5, <2>2 DEF HaltDone, TypeOK, agent, renewal, history
  <2>4. ProgressIsCarried'
    BY <1>0, <1>5 DEF HaltDone, ProgressIsCarried, agent
  <2> QED
    BY <2>2, <2>3, <2>4 DEF IInv
<1> QED
  BY <1>1, <1>2, <1>3, <1>4, <1>5 DEF MainStep

(* The callbacks of the transactions keep the invariant. *)
LEMMA ResultStep ==
  ASSUME BoundAssumption, ServerAssumption, IInv, OnAnswer \/ OnTimeout
  PROVE  IInv'
<1> USE BoundAssumption
<1>0. TypeOK /\ DimNeedsWake /\ ProgressIsCarried
  BY DEF IInv
<1>a. attempts \in 0..MaxAttempts /\ wl \in Nat /\ dim \in BOOLEAN
  BY <1>0 DEF TypeOK
<1>1. CASE OnSuccess
  <2>1. CASE state = "REGISTERING"
    <3>1. state' = "REGISTERED"
      BY <1>1, <2>1 DEF OnSuccess
    <3>2. wl' \in Nat /\ dim' \in BOOLEAN /\ DimNeedsWake'
      BY <1>0, <1>a, <1>1, <2>1, ReleaseFacts DEF OnSuccess, locks, DimNeedsWake
    <3>3. alarm' \in BOOLEAN /\ deadline' \in BOOLEAN
      BY <1>0, <1>1, <2>1 DEF OnSuccess, Renew, renewal, TypeOK
    <3>4. TypeOK'
      BY <1>0, <1>1, <2>1, <3>1, <3>2, <3>3 DEF OnSuccess, Reported, TypeOK, main
    <3> QED
      BY <3>1, <3>2, <3>4 DEF IInv, ProgressIsCarried
  <2>2. CASE state # "REGISTERING"
    <3>1. Gone(attempts)
      BY <1>1, <2>2 DEF OnSuccess
    <3>2. TypeOK' /\ DimNeedsWake' /\ state' = "UNREGISTERED"
      BY <1>0, <1>a, <1>1, <3>1, GoneFacts DEF OnSuccess, Reported, TypeOK, main
    <3> QED
      BY <3>2 DEF IInv, ProgressIsCarried
  <2> QED
    BY <2>1, <2>2
<1>2. CASE OnChallenge
  <2>1. answer.op \in Ops
    BY <1>0, <1>2 DEF OnChallenge, TypeOK
  <2>2. TypeOK' /\ DimNeedsWake'
    BY <1>0, <1>2, <2>1, NewTransactionFacts
    DEF OnChallenge, TypeOK, DimNeedsWake, main, locks, renewal
  <2>3. ProgressIsCarried'
    BY <1>0, <1>2, <2>1, NewTransactionFacts DEF OnChallenge, ProgressIsCarried
  <2> QED
    BY <2>2, <2>3 DEF IInv
<1>3. CASE OnFailure
  <2> DEFINE a == IF attempts < MaxAttempts THEN attempts + 1 ELSE attempts
  <2>1. a \in 0..MaxAttempts
    BY <1>a
  <2>2. answer' = NoAnswer /\ UNCHANGED <<listener, expired, main, fast, stale>> /\ Reported
    BY <1>3 DEF OnFailure
  <2>3. CASE Failed("UNREGISTERED", a)
    <3>1. TypeOK' /\ DimNeedsWake'
      BY <1>0, <2>1, <2>2, <2>3, FailedFacts DEF Reported, TypeOK, main
    <3>2. ProgressIsCarried'
      BY <1>0, <2>1, <2>3, FailedFacts DEF ProgressIsCarried
    <3> QED
      BY <3>1, <3>2 DEF IInv
  <2>4. CASE Gone(a)
    <3>1. TypeOK' /\ DimNeedsWake' /\ state' = "UNREGISTERED"
      BY <1>0, <2>1, <2>2, <2>4, GoneFacts DEF Reported, TypeOK, main
    <3> QED
      BY <3>1 DEF IInv, ProgressIsCarried
  <2> QED
    BY <1>3, <2>3, <2>4 DEF OnFailure
<1>4. CASE OnTimeout
  <2>1. TypeOK' /\ DimNeedsWake'
    BY <1>0, <1>4, TimeoutFacts DEF OnTimeout, Reported, TypeOK, main
  <2>2. ProgressIsCarried'
    BY <1>0, <1>4, TimeoutFacts DEF OnTimeout, ProgressIsCarried
  <2> QED
    BY <2>1, <2>2 DEF IInv
<1> QED
  BY <1>1, <1>2, <1>3, <1>4 DEF OnAnswer

(* The network, the server and the retransmission timers keep the invariant. *)
LEMMA OtherStep ==
  ASSUME BoundAssumption, IInv,
         \/ Roam \/ \E i \in Ids : TimeOut(i)
         \/ \E i \in Ids, says \in Expires \cup {"challenge", "refused"} : Answer(i, says)
  PROVE  IInv'
<1>0. TypeOK /\ DimNeedsWake /\ ProgressIsCarried
  BY DEF IInv
<1>1. CASE Roam
  BY <1>0, <1>1 DEF Roam, IInv, TypeOK, DimNeedsWake, ProgressIsCarried,
                    agent, main, locks, renewal, history
<1>2. ASSUME NEW i \in Ids, TimeOut(i) PROVE IInv'
  BY <1>0, <1>2 DEF TimeOut, IInv, TypeOK, DimNeedsWake, ProgressIsCarried,
                    agent, main, locks, renewal, history
<1>3. ASSUME NEW i \in Ids, NEW says \in Expires \cup {"challenge", "refused"}, Answer(i, says)
      PROVE  IInv'
  <2>1. answer' \in Answers /\ answer' # NoAnswer
    BY <1>0, <1>3 DEF Answer, TypeOK
  <2>2. TypeOK' /\ DimNeedsWake'
    BY <1>0, <1>3, <2>1 DEF Answer, TypeOK, DimNeedsWake, agent, main, locks, renewal, history
  <2>3. ProgressIsCarried'
    BY <2>1 DEF ProgressIsCarried
  <2> QED
    BY <2>2, <2>3 DEF IInv
<1> QED
  BY <1>1, <1>2, <1>3

(* Every step keeps the invariant. *)
LEMMA IInvStep ==
  ASSUME BoundAssumption, ServerAssumption, IInv, [Next]_vars
  PROVE  IInv'
<1>1. CASE UNCHANGED vars
  BY <1>1 DEF IInv, TypeOK, DimNeedsWake, ProgressIsCarried, vars,
              agent, main, locks, renewal, history
<1> QED
  BY <1>1, CallStep, MainStepStep, ResultStep, OtherStep DEF Next

(* The types, the locks and the progress hold together in every reachable state. *)
LEMMA Invariance == Spec => []IInv
<1>1. Init => IInv
  BY BoundAssumption, IInvInit
<1>2. IInv /\ [Next]_vars => IInv'
  BY BoundAssumption, ServerAssumption, IInvStep
<1> QED
  BY <1>1, <1>2, PTL DEF Spec

-----------------------------------------------------------------------------
(* The variables keep their types; in particular no challenge is answered that
   would take the counter of attempts past MAX_ATTEMPTS. *)
THEOREM TypeCorrect == Spec => []TypeOK
BY Invariance, PTL DEF IInv

(* An account is never left REGISTERING or DEREGISTERING without a transaction,
   a result or a step of the main thread that will end it. *)
THEOREM ProgressCarried == Spec => []ProgressIsCarried
BY Invariance, PTL DEF IInv

(* The lock of a retry is released at the latest with the wake lock. *)
THEOREM RetryLockReleased == Spec => []DimNeedsWake
BY Invariance, PTL DEF IInv

-----------------------------------------------------------------------------
(* The alarm.  While every expiration granted is longer than the 15 s by which
   the alarm comes early, a known deadline is one for which the alarm is set. *)
Renewal == RegisteredIsRenewed /\ (deadline => alarm)

(* A long expiration is one for which the alarm is set. *)
LEMMA RenewLong ==
  ASSUME Renewal, Renew("long")
  PROVE  alarm' = TRUE
BY Zenon DEF Renewal, Renew

(* A failure that is retried keeps the alarm of a known deadline. *)
LEMMA FailedRenewal ==
  ASSUME Renewal, NEW s \in {"UNDEFINED", "UNREGISTERED"}, NEW a, Failed(s, a),
         listener' = listener
  PROVE  Renewal'
<1>1. CASE listener
  <2>1. alarm' = TRUE
    BY <1>1, RenewLong DEF Failed
  <2> QED
    BY <2>1, Zenon DEF Renewal, RegisteredIsRenewed
<1>2. CASE ~listener
  <2>1. alarm' = alarm /\ deadline' = deadline /\ ~listener'
    BY <1>2, Zenon DEF Failed, renewal
  <2> QED
    BY <2>1, Zenon DEF Renewal, RegisteredIsRenewed
<1> QED
  BY <1>1, <1>2

(* A registration given up leaves nothing to renew. *)
LEMMA GoneRenewal ==
  ASSUME Renewal, NEW a, Gone(a)
  PROVE  Renewal'
<1>1. alarm' = alarm /\ deadline' = deadline /\ state' = "UNREGISTERED"
  BY Zenon DEF Gone, renewal
<1>2. state' # "REGISTERED"
  BY <1>1
<1> QED
  BY <1>1, <1>2, Zenon DEF Renewal, RegisteredIsRenewed

(* A timeout keeps the alarm of a known deadline. *)
LEMMA TimeoutRenewal ==
  ASSUME Renewal, OnTransTimeout, listener' = listener
  PROVE  Renewal'
BY FailedRenewal, GoneRenewal DEF OnTransTimeout

(* A step that leaves the alarm alone and completes no registration. *)
LEMMA QuietRenewal ==
  ASSUME Renewal, alarm' = alarm, deadline' = deadline,
         listener' => listener,
         state' = "REGISTERED" => state = "REGISTERED"
  PROVE  Renewal'
BY Zenon DEF Renewal, RegisteredIsRenewed

(* While every expiration is long, every step keeps the alarm of a deadline. *)
LEMMA RenewalStep ==
  ASSUME Expires \subseteq {"long"}, TypeOK, Renewal, [Next]_vars
  PROVE  Renewal'
<1>1. CASE Expire
  <2>1. alarm' = FALSE /\ deadline' = FALSE /\ state' # "REGISTERED"
    BY <1>1 DEF Expire
  <2> QED
    BY <2>1, Zenon DEF Renewal, RegisteredIsRenewed
<1>2. CASE Register \/ RegisterMore \/ Halt
  <2>1. state' = state /\ listener' = listener
    BY <1>2 DEF Register, RegisterMore, Halt, Begin
  <2>2. alarm' = alarm /\ deadline' = deadline
    BY <1>2, Zenon DEF Register, RegisterMore, Halt, renewal
  <2> QED
    BY <2>1, <2>2, QuietRenewal
<1>3. CASE Rollback
  BY <1>3, TimeoutRenewal DEF Rollback
<1>4. CASE OnTimeout
  BY <1>4, TimeoutRenewal DEF OnTimeout
<1>5. CASE OnSuccess
  <2>1. answer.says = "long" /\ listener' = listener
    BY <1>5 DEF OnSuccess
  <2>2. CASE state = "REGISTERING" /\ listener
    <3>1. Renew("long")
      BY <1>5, <2>1, <2>2 DEF OnSuccess
    <3>2. alarm' = TRUE
      BY <3>1, RenewLong
    <3> QED
      BY <3>2, Zenon DEF Renewal, RegisteredIsRenewed
  <2>3. CASE state = "REGISTERING" /\ ~listener
    <3>1. alarm' = alarm /\ deadline' = deadline /\ ~listener'
      <4>1. UNCHANGED <<locks, renewal>>
        BY <1>5, <2>3 DEF OnSuccess
      <4> QED
        BY <2>1, <2>3, <4>1, Zenon DEF renewal
    <3> QED
      BY <3>1, Zenon DEF Renewal, RegisteredIsRenewed
  <2>4. CASE state # "REGISTERING"
    BY <1>5, <2>4, GoneRenewal DEF OnSuccess
  <2> QED
    BY <2>2, <2>3, <2>4
<1>6. CASE OnFailure
  <2> DEFINE a == IF attempts < MaxAttempts THEN attempts + 1 ELSE attempts
  <2>1. listener' = listener /\ (Failed("UNREGISTERED", a) \/ Gone(a))
    BY <1>6 DEF OnFailure
  <2> HIDE DEF a
  <2> QED
    BY <2>1, FailedRenewal, GoneRenewal
<1>7. CASE Enter \/ Send \/ Acquire \/ OnChallenge \/ Roam
  <2>1. listener' = listener /\ (state' = state \/ state' \in {"REGISTERING", "DEREGISTERING"})
    BY <1>7 DEF Enter, Send, Acquire, OnChallenge, Roam, agent
  <2>2. alarm' = alarm /\ deadline' = deadline
    BY <1>7, Zenon DEF Enter, Send, Acquire, OnChallenge, Roam, renewal
  <2> QED
    BY <2>1, <2>2, QuietRenewal
<1>8. CASE HaltDone
  <2>1. alarm' = alarm /\ deadline' = deadline /\ ~listener'
    BY <1>8, Zenon DEF HaltDone, renewal
  <2> QED
    BY <2>1, Zenon DEF Renewal, RegisteredIsRenewed
<1>9. CASE \/ \E i \in Ids : TimeOut(i)
           \/ \E i \in Ids, says \in Expires \cup {"challenge", "refused"} : Answer(i, says)
  <2>1. listener' = listener /\ state' = state /\ alarm' = alarm /\ deadline' = deadline
    BY <1>9, Zenon DEF TimeOut, Answer, agent, renewal
  <2> QED
    BY <2>1, QuietRenewal
<1>10. CASE UNCHANGED vars
  <2>1. listener' = listener /\ state' = state /\ alarm' = alarm /\ deadline' = deadline
    BY <1>10, Zenon DEF vars, agent, renewal
  <2> QED
    BY <2>1, QuietRenewal
<1> QED
  BY <1>1, <1>2, <1>3, <1>4, <1>5, <1>6, <1>7, <1>8, <1>9, <1>10
  DEF Next, Call, MainStep, OnAnswer

(* A registered account is renewed by an alarm, whatever crosses on the network
   and whichever thread is where, if the registrar grants more than 15 s. *)
THEOREM RegisteredRenewed ==
  ASSUME Expires \subseteq {"long"}
  PROVE  Spec => []RegisteredIsRenewed
<1>1. Init => Renewal
  BY Zenon DEF Init, Renewal, RegisteredIsRenewed
<1>2. TypeOK /\ Renewal /\ [Next]_vars => Renewal'
  BY RenewalStep
<1>3. Renewal => RegisteredIsRenewed
  BY DEF Renewal
<1> QED
  BY <1>1, <1>2, <1>3, TypeCorrect, PTL DEF Spec

-----------------------------------------------------------------------------
(* The wake lock.  Unless a result came before the lock of its operation was
   taken, or a callback for an operation given up, there is one operation at a
   time, one thing that carries it, and one lock while it is carried. *)
Carried ==
  (\E i \in Ids : trans[i] # "free") \/ answer # NoAnswer \/ expired

Alone ==
  /\ \A i \in Ids : trans[i] # "free" => i = t /\ answer = NoAnswer /\ ~expired
  /\ answer = NoAnswer \/ ~expired

Locked == pc = "rollback" \/ (Carried /\ pc \notin {"acquire", "halted"})

OneOperation ==
  /\ Alone
  /\ InProgress <=> (Carried \/ pc \in {"rollback", "send"})
  /\ pc \in {"rollback", "send"} => ~Carried
  /\ pc = "acquire" => Carried
  /\ Locked => wl = 1
  /\ ~Locked => wl = 0

Balanced ==
  /\ ~late /\ ~stale => OneOperation
  /\ listener <=> pc # "halted"

(* How a callback leaves the agent: the operation is over and its lock is
   released, or another has begun and holds one. *)
AllFree == \A i \in Ids : trans[i] = "free"
Ended   == ~InProgress /\ AllFree /\ wl = 0
Retried ==
  /\ InProgress /\ wl = 1
  /\ \E i \in Ids : trans[i] # "free"
  /\ \A i \in Ids : trans[i] # "free" => i = t

(* A new transaction, when none waits, is the one that t stands for. *)
LEMMA OnlyTransaction ==
  ASSUME TypeOK, AllFree, NEW o \in Ops, NewTransaction(o)
  PROVE  /\ \E i \in Ids : trans'[i] # "free"
         /\ \A i \in Ids : trans'[i] # "free" => i = t'
BY DEF NewTransaction, TypeOK, AllFree

(* The lock of an operation is released once. *)
LEMMA ReleasedOnce ==
  ASSUME wl \in {0, 1}, Release
  PROVE  wl' = 0
<1>1. CASE wl = 1
  BY <1>1 DEF Release
<1>2. CASE wl = 0
  BY <1>2 DEF Release, locks
<1> QED
  BY <1>1, <1>2

(* A failure ends the operation or retries it, with the lock that fits. *)
LEMMA FailedCounted ==
  ASSUME TypeOK, AllFree, wl \in {0, 1}, ~listener => wl = 0,
         NEW s \in {"UNDEFINED", "UNREGISTERED"}, NEW a, Failed(s, a)
  PROVE  Ended' \/ (listener /\ Retried')
<1>1. CASE ~listener
  <2>1. state' = s /\ trans' = trans /\ wl' = wl
    BY <1>1 DEF Failed, locks
  <2> QED
    BY <1>1, <2>1 DEF Ended, AllFree
<1>2. CASE listener /\ Settle(s, a)
  BY <1>2, ReleasedOnce DEF Settle, Ended, AllFree
<1>3. CASE listener /\ Retry(s)
  <2> DEFINE o == IF fast THEN "reg" ELSE "dereg"
             w == IF wl > 0 THEN wl - 1 ELSE 0
  <2>1. w = 0 /\ o \in Ops
    OBVIOUS
  <2>2. CASE o = "reg" \/ s = "UNDEFINED"
    <3>1. state' = Pending(o) /\ NewTransaction(o) /\ wl' = w + 1
      BY <1>3, <2>2 DEF Retry
    <3> HIDE DEF o, w
    <3>2. wl' = 1
      BY <2>1, <3>1
    <3> QED
      BY <1>3, <2>1, <3>1, <3>2, OnlyTransaction DEF Retried
  <2>3. CASE ~(o = "reg" \/ s = "UNDEFINED")
    <3>1. state' = s /\ wl' = w /\ trans' = trans
      BY <1>3, <2>3 DEF Retry
    <3> QED
      BY <2>1, <3>1 DEF Ended, AllFree
  <2> QED
    BY <2>2, <2>3
<1> QED
  BY <1>1, <1>2, <1>3 DEF Failed

(* Any other result ends the operation. *)
LEMMA GoneCounted ==
  ASSUME AllFree, wl \in {0, 1}, ~listener => wl = 0, NEW a, Gone(a)
  PROVE  Ended'
<1>1. state' = "UNREGISTERED" /\ trans' = trans
  BY DEF Gone
<1>2. wl' = 0
  <2>1. CASE listener
    BY <2>1, ReleasedOnce DEF Gone
  <2>2. CASE ~listener
    BY <2>2 DEF Gone, locks
  <2> QED
    BY <2>1, <2>2
<1> QED
  BY <1>1, <1>2 DEF Ended, AllFree

(* A timeout does either. *)
LEMMA TimeoutCounted ==
  ASSUME TypeOK, AllFree, wl \in {0, 1}, ~listener => wl = 0, OnTransTimeout
  PROVE  Ended' \/ (listener /\ Retried')
BY FailedCounted, GoneCounted DEF OnTransTimeout

(* Either restores the balance, once the result is no longer on its way. *)
LEMMA EndedBalanced ==
  ASSUME Ended' \/ (listener' /\ Retried'), answer' = NoAnswer, ~expired',
         pc' \notin {"rollback", "send", "acquire"}, listener' <=> pc' # "halted"
  PROVE  Balanced'
<1>1. CASE Ended'
  <2>1. ~Carried'
    BY <1>1 DEF Ended, AllFree, Carried
  <2> QED
    BY <1>1, <2>1 DEF Ended, AllFree, Balanced, OneOperation, Alone, Locked
<1>2. CASE listener' /\ Retried'
  <2>1. Carried'
    BY <1>2 DEF Retried, Carried
  <2>2. Alone'
    BY <1>2 DEF Retried, Alone
  <2> QED
    BY <1>2, <2>1, <2>2 DEF Retried, Balanced, OneOperation, Locked
<1> QED
  BY <1>1, <1>2

(* The calls of the engine: one that gives up an operation takes its transaction
   away, and its lock is the one the rollback releases. *)
LEMMA BeginBalanced ==
  ASSUME TypeOK, Balanced, NEW o \in Ops, NEW h \in BOOLEAN, Begin(o, h),
         state' = state \/ (state = "REGISTERED" /\ state' = "UNREGISTERED")
  PROVE  Balanced'
<1> SUFFICES ASSUME ~late', ~stale' PROVE OneOperation'
  BY DEF Begin, Balanced
<1>1. /\ pc = "idle" /\ wl' = wl /\ t' = t /\ answer' = answer /\ expired' = expired
      /\ InProgress' <=> InProgress
      /\ late' = late
  BY DEF Begin, locks
<1>2. CASE InProgress /\ state # Pending(o)
  <2>1. /\ pc' = "rollback"
        /\ trans' = [i \in Ids |-> IF i = t THEN "free" ELSE trans[i]]
        /\ stale' = (stale \/ answer # NoAnswer \/ expired)
    BY <1>2 DEF Begin
  <2>2. ~late /\ ~stale /\ answer = NoAnswer /\ ~expired
    BY <1>1, <2>1
  <2>3. OneOperation
    BY <2>2 DEF Balanced
  <2>4. \A i \in Ids : trans'[i] = "free"
    BY <2>1, <2>3 DEF OneOperation, Alone
  <2>5. ~Carried' /\ Alone'
    BY <1>1, <2>2, <2>4 DEF Carried, Alone
  <2>6. wl = 1
    BY <1>1, <1>2, <2>3 DEF OneOperation, Locked
  <2> QED
    BY <1>1, <1>2, <2>1, <2>5, <2>6 DEF OneOperation, Locked
<1>3. CASE ~(InProgress /\ state # Pending(o))
  <2>1. pc' = "enter" /\ trans' = trans /\ stale' = stale
    BY <1>3 DEF Begin
  <2>2. OneOperation
    BY <1>1, <2>1 DEF Balanced
  <2>3. Carried' = Carried /\ Alone'
    BY <1>1, <2>1, <2>2 DEF Carried, Alone, OneOperation
  <2> QED
    BY <1>1, <2>1, <2>2, <2>3 DEF OneOperation, Locked
<1> QED
  BY <1>2, <1>3

(* The calls of the engine, each of which begins so. *)
LEMMA CallBalanced ==
  ASSUME TypeOK, Balanced, Call
  PROVE  Balanced'
<1>1. CASE Register
  BY <1>1, BeginBalanced DEF Register
<1>2. CASE RegisterMore
  BY <1>2, BeginBalanced DEF RegisterMore
<1>3. CASE Expire
  BY <1>3, BeginBalanced DEF Expire
<1>4. CASE Halt
  BY <1>4, BeginBalanced DEF Halt
<1> QED
  BY <1>1, <1>2, <1>3, <1>4 DEF Call

(* The main thread: the lock is taken by the step after the transaction, and by
   then nothing has carried the operation away. *)
LEMMA MainStepBalanced ==
  ASSUME TypeOK, Balanced, MainStep
  PROVE  Balanced'
<1>1. CASE Rollback
  <2> SUFFICES ASSUME ~late', ~stale' PROVE Balanced'
    BY <1>1 DEF Balanced, Rollback
  <2>1. /\ pc = "rollback" /\ pc' = "enter" /\ OnTransTimeout
        /\ UNCHANGED <<listener, answer, expired, late, stale>>
    BY <1>1 DEF Rollback
  <2>2. OneOperation /\ listener
    BY <2>1 DEF Balanced
  <2>3. AllFree /\ answer = NoAnswer /\ ~expired /\ wl = 1
    BY <2>1, <2>2 DEF OneOperation, Carried, AllFree, Locked
  <2>4. Ended' \/ (listener /\ Retried')
    BY <2>1, <2>2, <2>3, TimeoutCounted
  <2> QED
    BY <2>1, <2>2, <2>3, <2>4, EndedBalanced
<1>2. CASE Enter
  <2> SUFFICES ASSUME ~late', ~stale' PROVE OneOperation'
    BY <1>2 DEF Balanced, Enter, Back
  <2>1. UNCHANGED <<t, listener, trans, answer, expired, wl, late, stale>> /\ pc = "enter"
    BY <1>2 DEF Enter, locks
  <2>2. OneOperation
    BY <2>1 DEF Balanced
  <2>3. Carried' = Carried /\ Alone'
    BY <2>1, <2>2 DEF Carried, Alone, OneOperation
  <2>4. CASE state \in {"REGISTERED", "UNDEFINED"} \/ (op = "reg" /\ state = "UNREGISTERED")
    <3>1. InProgress' /\ ~InProgress /\ pc' = "send"
      BY <1>2, <2>4 DEF Enter
    <3> QED
      BY <2>1, <2>2, <2>3, <3>1 DEF OneOperation, Locked
  <2>5. CASE state' = state /\ Back
    <3>1. pc' \in {"wait", "idle"} /\ (InProgress' <=> InProgress)
      BY <2>5 DEF Back
    <3> QED
      BY <2>1, <2>2, <2>3, <3>1 DEF OneOperation, Locked
  <2> QED
    BY <1>2, <2>4, <2>5 DEF Enter
<1>3. CASE Send
  <2> SUFFICES ASSUME ~late', ~stale' PROVE OneOperation'
    BY <1>3 DEF Balanced, Send, history
  <2>1. /\ pc = "send" /\ pc' = "acquire" /\ NewTransaction(op)
        /\ UNCHANGED <<state, answer, expired, wl, late, stale>>
    BY <1>3 DEF Send, locks, history
  <2>2. OneOperation
    BY <2>1 DEF Balanced
  <2>3. InProgress /\ AllFree /\ answer = NoAnswer /\ ~expired /\ wl = 0
    BY <2>1, <2>2 DEF OneOperation, Carried, AllFree, Locked
  <2>4. Carried' /\ Alone'
    BY <2>1, <2>3, OnlyTransaction DEF Carried, Alone, TypeOK
  <2> QED
    BY <2>1, <2>3, <2>4 DEF OneOperation, Locked
<1>4. CASE Acquire
  <2> SUFFICES ASSUME ~late', ~stale' PROVE OneOperation'
    BY <1>4 DEF Balanced, Acquire, Back, history
  <2>1. /\ pc = "acquire" /\ pc' \in {"wait", "idle"} /\ wl' = wl + 1
        /\ UNCHANGED <<state, t, trans, answer, expired, late, stale>>
    BY <1>4 DEF Acquire, Back, agent, history
  <2>2. OneOperation
    BY <2>1 DEF Balanced
  <2>3. Carried' = Carried /\ Alone'
    BY <2>1, <2>2 DEF Carried, Alone, OneOperation
  <2> QED
    BY <2>1, <2>2, <2>3 DEF OneOperation, Locked
<1>5. CASE HaltDone
  <2> SUFFICES ASSUME ~late', ~stale' PROVE OneOperation'
    BY <1>5 DEF Balanced, HaltDone, history
  <2>1. /\ pc = "wait" /\ pc' = "halted" /\ Release
        /\ UNCHANGED <<state, t, trans, answer, expired, late, stale>>
    BY <1>5 DEF HaltDone, agent, history
  <2>2. OneOperation
    BY <2>1 DEF Balanced
  <2>3. Carried' = Carried /\ Alone'
    BY <2>1, <2>2 DEF Carried, Alone, OneOperation
  <2>4. wl' = 0
    BY <2>1, <2>2, ReleasedOnce DEF OneOperation
  <2> QED
    BY <2>1, <2>2, <2>3, <2>4 DEF OneOperation, Locked
<1> QED
  BY <1>1, <1>2, <1>3, <1>4, <1>5 DEF MainStep

(* The callbacks: what is reported is all that carried the operation, and unless
   it is late the lock has been taken. *)
LEMMA ReportedAlone ==
  ASSUME TypeOK, Balanced, answer # NoAnswer \/ expired, Reported, ~late', ~stale
  PROVE  /\ AllFree /\ (answer = NoAnswer \/ ~expired)
         /\ pc \notin {"rollback", "send", "acquire"}
         /\ wl \in {0, 1} /\ (~listener => wl = 0)
<1>1. ~late /\ pc # "acquire"
  BY DEF Reported
<1>2. OneOperation
  BY <1>1 DEF Balanced
<1>3. Carried
  BY DEF Carried
<1> QED
  BY <1>1, <1>2, <1>3 DEF OneOperation, Alone, AllFree, Locked, Balanced

(* Each callback ends what it reports, retries it, or answers the challenge. *)
LEMMA ResultBalanced ==
  ASSUME TypeOK, Balanced, OnAnswer \/ OnTimeout
  PROVE  Balanced'
<1>1. CASE OnSuccess
  <2>1. answer # NoAnswer /\ answer' = NoAnswer /\ Reported
        /\ UNCHANGED <<listener, expired, pc, stale>>
    BY <1>1 DEF OnSuccess, main
  <2> SUFFICES ASSUME ~late', ~stale' PROVE Balanced'
    BY <2>1 DEF Balanced
  <2>2. /\ AllFree /\ ~expired
        /\ pc \notin {"rollback", "send", "acquire"}
        /\ wl \in {0, 1} /\ (~listener => wl = 0)
    BY <2>1, ReportedAlone
  <2>3. Ended'
    <3>1. CASE state = "REGISTERING"
      <4>1. state' = "REGISTERED" /\ trans' = trans
            /\ IF listener THEN Release ELSE wl' = wl
        BY <1>1, <3>1 DEF OnSuccess, locks
      <4>2. wl' = 0
        BY <2>2, <4>1, ReleasedOnce
      <4> QED
        BY <2>2, <4>1, <4>2 DEF Ended, AllFree
    <3>2. CASE state # "REGISTERING"
      BY <1>1, <2>2, <3>2, GoneCounted DEF OnSuccess
    <3> QED
      BY <3>1, <3>2
  <2> QED
    BY <2>1, <2>2, <2>3, EndedBalanced DEF Balanced
<1>2. CASE OnChallenge
  <2> SUFFICES ASSUME ~late', ~stale' PROVE OneOperation'
    BY <1>2 DEF Balanced, OnChallenge, main
  <2>1. /\ answer # NoAnswer /\ answer' = NoAnswer /\ NewTransaction(answer.op)
        /\ UNCHANGED <<state, expired, pc, wl, late, stale>>
    BY <1>2 DEF OnChallenge, main, locks
  <2>2. OneOperation /\ Carried
    BY <2>1 DEF Balanced, Carried
  <2>3. AllFree /\ ~expired /\ answer.op \in Ops
    BY <1>2, <2>1, <2>2 DEF OneOperation, Alone, AllFree, TypeOK
  <2>4. Carried' /\ Alone'
    BY <2>1, <2>3, OnlyTransaction DEF Carried, Alone
  <2> QED
    BY <2>1, <2>2, <2>4 DEF OneOperation, Locked
<1>3. CASE OnFailure
  <2> DEFINE a == IF attempts < MaxAttempts THEN attempts + 1 ELSE attempts
  <2>1. /\ answer # NoAnswer /\ answer' = NoAnswer /\ Reported
        /\ UNCHANGED <<listener, expired, pc, stale>>
        /\ Failed("UNREGISTERED", a) \/ Gone(a)
    BY <1>3 DEF OnFailure, main
  <2> HIDE DEF a
  <2> SUFFICES ASSUME ~late', ~stale' PROVE Balanced'
    BY <2>1 DEF Balanced
  <2>2. /\ AllFree /\ ~expired
        /\ pc \notin {"rollback", "send", "acquire"}
        /\ wl \in {0, 1} /\ (~listener => wl = 0)
    BY <2>1, ReportedAlone
  <2>3. Ended' \/ (listener /\ Retried')
    BY <2>1, <2>2, FailedCounted, GoneCounted
  <2> QED
    BY <2>1, <2>2, <2>3, EndedBalanced DEF Balanced
<1>4. CASE OnTimeout
  <2>1. /\ expired /\ ~expired' /\ Reported
        /\ UNCHANGED <<listener, answer, pc, stale>>
        /\ OnTransTimeout
    BY <1>4 DEF OnTimeout, main
  <2> SUFFICES ASSUME ~late', ~stale' PROVE Balanced'
    BY <2>1 DEF Balanced
  <2>2. /\ AllFree /\ answer = NoAnswer
        /\ pc \notin {"rollback", "send", "acquire"}
        /\ wl \in {0, 1} /\ (~listener => wl = 0)
    BY <2>1, ReportedAlone
  <2>3. Ended' \/ (listener /\ Retried')
    BY <2>1, <2>2, TimeoutCounted
  <2> QED
    BY <2>1, <2>2, <2>3, EndedBalanced DEF Balanced
<1> QED
  BY <1>1, <1>2, <1>3, <1>4 DEF OnAnswer

(* A response or a timeout taken by its thread still carries the operation. *)
LEMMA OtherBalanced ==
  ASSUME TypeOK, Balanced,
         \/ Roam \/ \E i \in Ids : TimeOut(i)
         \/ \E i \in Ids, says \in Expires \cup {"challenge", "refused"} : Answer(i, says)
  PROVE  Balanced'
<1>1. CASE Roam
  BY <1>1 DEF Roam, Balanced, OneOperation, Alone, Locked, Carried,
              agent, main, locks, history
<1>2. ASSUME NEW i \in Ids, TimeOut(i) PROVE Balanced'
  <2>1. /\ trans[i] # "free" /\ trans' = [trans EXCEPT ![i] = "free"] /\ expired' = TRUE
        /\ UNCHANGED <<state, t, pc, answer, wl, listener, late, stale>>
    BY <1>2 DEF TimeOut, agent, main, locks, history
  <2> SUFFICES ASSUME ~late, ~stale PROVE OneOperation'
    BY <2>1 DEF Balanced
  <2>2. OneOperation /\ Carried /\ Carried'
    BY <2>1 DEF Balanced, Carried
  <2>3. answer = NoAnswer /\ \A j \in Ids : trans'[j] = "free"
    BY <2>1, <2>2 DEF OneOperation, Alone, TypeOK
  <2> QED
    BY <2>1, <2>2, <2>3 DEF OneOperation, Alone, Locked
<1>3. ASSUME NEW i \in Ids, NEW says \in Expires \cup {"challenge", "refused"}, Answer(i, says)
      PROVE  Balanced'
  <2>1. /\ trans[i] # "free" /\ trans' = [trans EXCEPT ![i] = "free"]
        /\ answer' # NoAnswer
        /\ UNCHANGED <<state, t, pc, expired, wl, listener, late, stale>>
    BY <1>3 DEF Answer, TypeOK, agent, main, locks, history
  <2> SUFFICES ASSUME ~late, ~stale PROVE OneOperation'
    BY <2>1 DEF Balanced
  <2>2. OneOperation /\ Carried /\ Carried'
    BY <2>1 DEF Balanced, Carried
  <2>3. ~expired /\ \A j \in Ids : trans'[j] = "free"
    BY <2>1, <2>2 DEF OneOperation, Alone, TypeOK
  <2> QED
    BY <2>1, <2>2, <2>3 DEF OneOperation, Alone, Locked
<1> QED
  BY <1>1, <1>2, <1>3

(* There is one operation at a time, and one lock for it, in every state. *)
LEMMA BalanceInvariance == Spec => []Balanced
<1>1. Init => Balanced
  BY DEF Init, Balanced, OneOperation, Alone, Locked, Carried
<1>2. TypeOK /\ Balanced /\ [Next]_vars => Balanced'
  <2>1. ASSUME Balanced, UNCHANGED vars PROVE Balanced'
    BY <2>1 DEF vars, Balanced, OneOperation, Alone, Locked, Carried,
                agent, main, locks, history
  <2> QED
    BY <2>1, CallBalanced, MainStepBalanced, ResultBalanced, OtherBalanced DEF Next
<1> QED
  BY <1>1, <1>2, TypeCorrect, PTL DEF Spec

(* The phone can sleep once nothing is in progress, however often the account
   is registered and removed and however many attempts that takes: only the two
   races can leave the wake lock held. *)
THEOREM RestUnlocked == Spec => []RestsUnlocked
<1>1. Balanced => RestsUnlocked
  BY DEF Balanced, OneOperation, Carried, Locked, Quiet, RestsUnlocked
<1> QED
  BY <1>1, BalanceInvariance, PTL

(* Without those races at most one REGISTER transaction waits at a time, though
   no callback looks at which transaction it is about. *)
THEOREM OneTransaction ==
  Spec => [](~late /\ ~stale =>
               \A i, j \in Ids : trans[i] # "free" /\ trans[j] # "free" => i = j)
<1>1. Balanced => (~late /\ ~stale =>
                     \A i, j \in Ids : trans[i] # "free" /\ trans[j] # "free" => i = j)
  BY DEF Balanced, OneOperation, Alone
<1> QED
  BY <1>1, BalanceInvariance, PTL

=============================================================================
