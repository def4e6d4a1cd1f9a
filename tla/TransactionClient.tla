-------------------------- MODULE TransactionClient --------------------------
(***************************************************************************)
(* One TransactionClient (BYE, CANCEL, REGISTER ...) between three threads *)
(* that share its fields without a lock: the receive thread brings         *)
(* responses (onReceivedMessage), the only timer thread of the process     *)
(* brings the timeouts (onTimeout), and its owner may terminate it.        *)
(*                                                                         *)
(* Each handler is cut where another thread can see or change what it has  *)
(* read: between the test of the status and what follows from it, between  *)
(* the halting of the timers and the callback, and between the test of     *)
(* transaction_listener and the call.  A timer is what Timer makes of it:  *)
(* once its test has passed, halt() comes too late, and either the call is *)
(* made all the same or it dereferences null and ends the timer thread.    *)
(***************************************************************************)
EXTENDS Naturals, FiniteSets

CONSTANT MayTerminate  \* may the owner call terminate()?

ASSUME OwnerAssumption == MayTerminate \in BOOLEAN

TimerNames == {"retransmission", "transaction", "clearing"}

VARIABLES
  status,              \* Transaction.status
  transaction_listener, \* is it not null?
  registered,          \* in the listener table of the SipProvider?
  timer,               \* retransmission_to, transaction_to and clearing_to
  rx, msg,             \* the receive thread and the response it handles
  tx, due,             \* the timer thread and the timer it serves
  owner,               \* the owner, inside terminate() or not
  reported,            \* history: the outcomes told to the listener
  met                  \* history: were both between test and reset of listener?

vars == <<status, transaction_listener, registered, timer, rx, msg, tx, due, owner, reported, met>>

TypeOK ==
  /\ status \in {"idle", "trying", "proceeding", "completed", "terminated"}
  /\ transaction_listener \in BOOLEAN /\ registered \in BOOLEAN /\ met \in BOOLEAN
  /\ timer \in [TimerNames -> {"new", "set", "halted", "done"}]
  /\ rx \in {"idle", "got", "provisional", "final", "test", "tell", "end"}
  /\ msg \in {"1xx", "success", "failure"}
  /\ tx \in {"idle", "call", "entered", "resend", "test", "tell", "end", "dead"}
  /\ due \in TimerNames
  /\ owner \in {"away", "terminating", "forgetting", "done"}
  /\ reported \subseteq {"success", "failure", "timeout"}

Init ==
  /\ status = "idle" /\ transaction_listener = TRUE /\ registered = FALSE
  /\ timer = [k \in TimerNames |-> "new"]
  /\ rx = "idle" /\ msg = "1xx"
  /\ tx = "idle" /\ due = "transaction"
  /\ owner = "away"
  /\ reported = {} /\ met = FALSE

Waiting == status \in {"trying", "proceeding"}

(* Timer.halt() silences a timer for good, a started one as well as a new one. *)
Halted(ks) == [k \in TimerNames |->
                 IF k \in ks /\ timer[k] # "done" THEN "halted" ELSE timer[k]]

(* request() *)
Request ==
  /\ status = "idle"
  /\ status' = "trying" /\ registered' = TRUE
  /\ timer' = [timer EXCEPT !["retransmission"] = "set", !["transaction"] = "set"]
  /\ UNCHANGED <<transaction_listener, rx, msg, tx, due, owner, reported, met>>

-----------------------------------------------------------------------------
(* onReceivedMessage(), on the receive thread. *)

Receive(m) ==
  /\ rx = "idle" /\ registered
  /\ rx' = "got" /\ msg' = m
  /\ UNCHANGED <<status, transaction_listener, registered, timer, tx, due, owner, reported, met>>

(* The test of the status.  (A provisional response in PROCEEDING is reported
   to the listener and changes nothing.) *)
TestStatus ==
  /\ rx = "got"
  /\ rx' = CASE msg = "1xx" /\ status = "trying" -> "provisional"
             [] msg # "1xx" /\ Waiting           -> "final"
             [] OTHER                            -> "idle"
  /\ UNCHANGED <<status, transaction_listener, registered, timer, msg, tx, due, owner, reported, met>>

Proceed ==
  /\ rx = "provisional"
  /\ rx' = "idle"
  /\ status' = "proceeding"
  /\ UNCHANGED <<transaction_listener, registered, timer, msg, tx, due, owner, reported, met>>

(* Faulty variant of Complete: the status is not changed. *)
CompleteKeepingStatus ==
  /\ rx = "final"
  /\ rx' = "test"
  /\ timer' = Halted({"retransmission", "transaction"})
  /\ UNCHANGED <<status, transaction_listener, registered, msg, tx, due, owner, reported, met>>

(* A final response stops both timers. *)
Complete ==
  /\ rx = "final"
  /\ rx' = "test"
  /\ timer' = Halted({"retransmission", "transaction"})
  /\ status' = "completed"
  /\ UNCHANGED <<transaction_listener, registered, msg, tx, due, owner, reported, met>>

(* Faulty variant of TestListener: the test is left out. *)
TestNothing ==
  /\ rx = "test"
  /\ rx' = "tell"
  /\ met' = (met \/ tx \in {"tell", "end"})
  /\ UNCHANGED <<status, transaction_listener, registered, timer, msg, tx, due, owner, reported>>

TestListener ==
  /\ rx = "test"
  /\ rx' = IF transaction_listener THEN "tell" ELSE "end"
  /\ met' = (met \/ tx \in {"tell", "end"})
  /\ UNCHANGED <<status, transaction_listener, registered, timer, msg, tx, due, owner, reported>>

TellOutcome ==
  /\ rx = "tell"
  /\ rx' = "end"
  /\ reported' = reported \cup {msg}
  /\ UNCHANGED <<status, transaction_listener, registered, timer, msg, tx, due, owner, met>>

(* The field is null by now: the exception ends up in processReceivedMessage()
   of the SipProvider, and the rest of the handler is not run. *)
TellNobody ==
  /\ rx = "tell" /\ ~transaction_listener
  /\ rx' = "idle"
  /\ UNCHANGED <<status, transaction_listener, registered, timer, msg, tx, due, owner, reported, met>>

(* Faulty variant of StartClearing: no timer clears the transaction away. *)
StartNothing ==
  /\ rx = "end"
  /\ rx' = "idle"
  /\ transaction_listener' = FALSE
  /\ UNCHANGED <<status, registered, timer, msg, tx, due, owner, reported, met>>

StartClearing ==
  /\ rx = "end"
  /\ rx' = "idle"
  /\ transaction_listener' = FALSE
  /\ timer' = [timer EXCEPT !["clearing"] = IF @ = "new" THEN "set" ELSE @]
  /\ UNCHANGED <<status, registered, msg, tx, due, owner, reported, met>>

RxStep ==
  \/ TestStatus \/ Proceed \/ Complete
  \/ TestListener \/ TellOutcome \/ TellNobody \/ StartClearing

-----------------------------------------------------------------------------
(* onTimeout(), on the timer thread. *)

(* The task of a timer that has not been halted passes the test of Timer ... *)
Expire(k) ==
  /\ tx = "idle" /\ timer[k] = "set"
  /\ tx' = "call" /\ due' = k
  /\ UNCHANGED <<status, transaction_listener, registered, timer, rx, msg, owner, reported, met>>

(* ... and calls onTimeout() ... *)
Enter ==
  /\ tx = "call"
  /\ tx' = "entered"
  /\ timer' = [timer EXCEPT ![due] = IF @ = "set" THEN "done" ELSE @]
  /\ UNCHANGED <<status, transaction_listener, registered, rx, msg, due, owner, reported, met>>

(* ... unless it finds that the timer has no listener any more. *)
Die ==
  /\ tx = "call" /\ timer[due] = "halted"
  /\ tx' = "dead"
  /\ UNCHANGED <<status, transaction_listener, registered, timer, rx, msg, due, owner, reported, met>>

Retransmission ==
  /\ tx = "entered" /\ due = "retransmission"
  /\ tx' = IF Waiting THEN "resend" ELSE "idle"
  /\ UNCHANGED <<status, transaction_listener, registered, timer, rx, msg, due, owner, reported, met>>

(* The request is sent again and a new Timer takes the place of the old one. *)
Resend ==
  /\ tx = "resend"
  /\ tx' = "idle"
  /\ timer' = [timer EXCEPT !["retransmission"] = "set"]
  /\ UNCHANGED <<status, transaction_listener, registered, rx, msg, due, owner, reported, met>>

TransactionTimeout ==
  /\ tx = "entered" /\ due = "transaction"
  /\ tx' = "test"
  /\ timer' = Halted({"retransmission", "clearing"})
  /\ registered' = FALSE
  /\ status' = "terminated"
  /\ UNCHANGED <<transaction_listener, rx, msg, due, owner, reported, met>>

(* Faulty variant of TestTimeoutListener: the timeout is not reported. *)
TestNoListener ==
  /\ tx = "test"
  /\ tx' = "end"
  /\ UNCHANGED <<status, transaction_listener, registered, timer, rx, msg, due, owner, reported, met>>

TestTimeoutListener ==
  /\ tx = "test"
  /\ tx' = IF transaction_listener THEN "tell" ELSE "end"
  /\ met' = (met \/ rx \in {"tell", "end"})
  /\ UNCHANGED <<status, transaction_listener, registered, timer, rx, msg, due, owner, reported>>

TellTimeout ==
  /\ tx = "tell"
  /\ tx' = "end"
  /\ reported' = reported \cup {"timeout"}
  /\ UNCHANGED <<status, transaction_listener, registered, timer, rx, msg, due, owner, met>>

(* onTimeout() itself catches the null pointer. *)
TellNoTimeout ==
  /\ tx = "tell" /\ ~transaction_listener
  /\ tx' = "idle"
  /\ UNCHANGED <<status, transaction_listener, registered, timer, rx, msg, due, owner, reported, met>>

ForgetListener ==
  /\ tx = "end"
  /\ tx' = "idle"
  /\ transaction_listener' = FALSE
  /\ UNCHANGED <<status, registered, timer, rx, msg, due, owner, reported, met>>

Clearing ==
  /\ tx = "entered" /\ due = "clearing"
  /\ tx' = "idle"
  /\ timer' = Halted({"retransmission", "transaction"})
  /\ registered' = FALSE
  /\ status' = "terminated"
  /\ UNCHANGED <<transaction_listener, rx, msg, due, owner, reported, met>>

TxStep ==
  \/ Enter \/ Die \/ Retransmission \/ Resend \/ TransactionTimeout
  \/ TestTimeoutListener \/ TellTimeout \/ TellNoTimeout \/ ForgetListener \/ Clearing

-----------------------------------------------------------------------------
(* terminate(), on a thread of the owner. *)

Terminate ==
  /\ MayTerminate /\ owner = "away" /\ status \notin {"idle", "terminated"}
  /\ owner' = "terminating"
  /\ UNCHANGED <<status, transaction_listener, registered, timer, rx, msg, tx, due, reported, met>>

HaltAll ==
  /\ owner = "terminating"
  /\ owner' = "forgetting"
  /\ timer' = Halted(TimerNames)
  /\ registered' = FALSE
  /\ status' = "terminated"
  /\ UNCHANGED <<transaction_listener, rx, msg, tx, due, reported, met>>

Forget ==
  /\ owner = "forgetting"
  /\ owner' = "done"
  /\ transaction_listener' = FALSE
  /\ UNCHANGED <<status, registered, timer, rx, msg, tx, due, reported, met>>

OwnerStep == HaltAll \/ Forget

Next ==
  \/ Request \/ Terminate \/ RxStep \/ TxStep \/ OwnerStep
  \/ \E m \in {"1xx", "success", "failure"} : Receive(m)
  \/ \E k \in TimerNames : Expire(k)

(* A thread that is inside a handler goes on, and a started timer is served in
   the end however many others come in between: the queue of java.util.Timer is
   ordered by time.  No response need ever come. *)
Fairness ==
  /\ WF_vars(RxStep) /\ WF_vars(TxStep) /\ WF_vars(OwnerStep)
  /\ \A k \in TimerNames : SF_vars(Expire(k))

Spec == Init /\ [][Next]_vars /\ Fairness

-----------------------------------------------------------------------------
(* The listener hears of an outcome, from whichever thread, unless the owner has
   given the transaction up; not even a timer thread that dies on this very
   transaction leaves it waiting. *)
OutcomeIsReported ==
  status = "trying" ~> (reported # {} \/ owner # "away")

(* The response and the timeout are both told to the listener only if the two
   threads were at once between their test of transaction_listener and its
   reset: halting the timer does not keep them apart, the listener does. *)
OneOutcomeUnlessRace == Cardinality(reported) > 1 => met

(* The transaction leaves the listener table of the SipProvider, whatever the
   threads do to its timers, unless the timer thread is lost. *)
TableIsCleared == registered ~> (~registered \/ tx = "dead")

(* Once an outcome has been told the request is in the end not sent any more,
   although a retransmission under way starts a timer that nobody halts. *)
RetransmissionEnds ==
  reported # {} ~> [](timer["retransmission"] # "set" \/ ~Waiting)
=============================================================================
