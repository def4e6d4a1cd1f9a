--------------------------- MODULE UserAgentProofs ---------------------------
(* Theorems about UserAgent, for every set of accounts and every number of
   threads of the user. *)
EXTENDS UserAgent, TLAPS

-----------------------------------------------------------------------------
(* The inductive invariant. *)

(* A receive thread takes a transferred call only if there is one. *)
SwitchesToCall == \A u \in Agents : at[u] = "switching" => transfer[u] # "none"

(* The dialog of an account that the phone is not in a call with. *)
Waits(u) ==
  \/ dialog[u] \in {"waiting", "deaf", "over"}
  \/ dialog[u] = "invited" /\ at[u] \in {"tested", "assigned"}

(* Such an account: none of its threads is in the middle of anything that
   could change what the phone shows, but for a call about to ring and the call
   of a transfer. *)
Aside(u) ==
  /\ state[u] = "idle" /\ ~media[u] /\ Waits(u)
  /\ \/ at[u] \in {"free", "tested", "assigned"}
     \/ at[u] \in {"unwanted", "ending"} /\ transfer[u] # "none"
  /\ u \notin ending /\ u \notin accepting /\ calling[u] # "shown"

OthersAside == ~raced => \A u \in Agents : u # active \/ phone = "idle" => Aside(u)

(* How far the threads of the account in the call may be: the call that a
   callback is about to show exists, a call that is left was lost, a call is
   answered only while it is shown, and one that is being placed has no other. *)
ThreadsFollow ==
  ~raced =>
    /\ at[active] \in {"accepted", "holding", "resuming"} /\ ~lost /\ ~Ends(active) =>
         dialog[active] \in Up
    /\ at[active] = "switching" => lost
    /\ active \in accepting => phone \in {"incall", "hold"}
    /\ calling[active] = "shown" =>
         /\ phone = "outgoing"
         /\ at[active] \in {"free", "tested", "assigned", "unwanted", "ending"}
         /\ dialog[active] \in {"waiting", "deaf", "over", "invited"}

IInv ==
  /\ TypeOK /\ SwitchesToCall
  /\ PhoneShowsAgent /\ IdleListens /\ ShownCallExists
  /\ OthersAside /\ ThreadsFollow

-----------------------------------------------------------------------------
(* Types, which every action keeps. *)

(* hangup() and what it leaves. *)
LEMMA HungUpFacts ==
  ASSUME NEW d \in Dialogs
  PROVE  HungUp(d) \in Dialogs /\ LeftOf(d) \subseteq {"opening", "up"}
BY DEF HungUp, LeftOf, Dialogs, Up

(* The first half of hangup(). *)
LEMMA HangUpTypes ==
  ASSUME TypeOK, NEW u \in Agents, HangUpCall(u)
  PROVE  /\ media' \in [Agents -> BOOLEAN] /\ dialog' \in [Agents -> Dialogs]
         /\ UNCHANGED <<phone, state, orphans>>
BY HungUpFacts DEF HangUpCall, TypeOK

(* changeStatus(UA_STATE_IDLE). *)
LEMMA BecomeIdleTypes ==
  ASSUME TypeOK, NEW u \in Agents, BecomeIdle(u)
  PROVE  /\ phone' \in States /\ state' \in [Agents -> States]
         /\ dialog' \in [Agents -> Dialogs] /\ media' \in [Agents -> BOOLEAN]
         /\ orphans' \subseteq {"opening", "up"} /\ {raced', lost'} \subseteq BOOLEAN
<1>1. CASE phone = "idle"
  BY <1>1 DEF BecomeIdle, history, TypeOK, States
<1>2. CASE phone # "idle"
  <2>1. \A v \in Agents : LeftOf(HungUp(dialog[v])) \subseteq {"opening", "up"}
    BY HungUpFacts DEF TypeOK
  <2>2. orphans' = orphans \cup UNION {LeftOf(HungUp(dialog[v])) : v \in Agents}
    BY <1>2 DEF BecomeIdle
  <2>3. UNION {LeftOf(HungUp(dialog[v])) : v \in Agents} \subseteq {"opening", "up"}
    BY <2>1, Zenon
  <2>4. {raced', lost'} \subseteq BOOLEAN
    BY <1>2, Zenon DEF BecomeIdle, UnderWay
  <2>5. /\ phone' = "idle" /\ state' = [v \in Agents |-> "idle"]
        /\ dialog' = [v \in Agents |-> "waiting"] /\ media' = [v \in Agents |-> FALSE]
    BY <1>2 DEF BecomeIdle
  <2> QED
    BY <2>2, <2>3, <2>4, <2>5 DEF TypeOK, States, Dialogs
<1> QED
  BY <1>1, <1>2

(* The callbacks. *)
LEMMA EventTypes ==
  ASSUME TypeOK, SwitchesToCall, NEW u \in Agents, Event(u)
  PROVE  TypeOK' /\ SwitchesToCall'
<1> USE DEF TypeOK, SwitchesToCall, Points, States, Dialogs, Up
<1>1. CASE Busy(u)
  BY <1>1 DEF Busy, DialogIs, Callback, threads, history
<1>2. CASE TestPhone(u)
  BY <1>2 DEF TestPhone, Receives, DialogIs, history
<1>3. CASE AssignAgent(u)
  BY <1>3 DEF AssignAgent
<1>4. CASE ShowIncoming(u)
  BY <1>4 DEF ShowIncoming, Receives, Become
<1>5. CASE Unanswerable(u)
  BY <1>5 DEF Unanswerable, Receives, history
<1>6. CASE LaunchMedia(u)
  <2>1. PICK from \in {"shown", "launching"}, to \in {"free", "ending"} :
          /\ Receives(u, from, to)
          /\ \/ /\ \E m \in {media[u], TRUE} : media' = [media EXCEPT ![u] = m]
                /\ UNCHANGED <<phone, state, dialog, orphans, history>>
             \/ HangUpCall(u) /\ Late
    BY <1>6 DEF LaunchMedia
  <2>2. /\ media' \in [Agents -> BOOLEAN] /\ dialog' \in [Agents -> Dialogs]
        /\ UNCHANGED <<phone, state, orphans>> /\ {raced', lost'} \subseteq BOOLEAN
    <3>1. CASE HangUpCall(u) /\ Late
      BY <3>1, HangUpTypes DEF Late
    <3>2. CASE /\ \E m \in {media[u], TRUE} : media' = [media EXCEPT ![u] = m]
               /\ UNCHANGED <<phone, state, dialog, orphans, history>>
      <4>1. PICK m \in BOOLEAN : media' = [media EXCEPT ![u] = m]
        BY <3>2
      <4>2. media' \in [Agents -> BOOLEAN]
        BY <4>1
      <4> QED
        BY <3>2, <4>2 DEF history
    <3> QED
      BY <2>1, <3>1, <3>2
  <2> QED
    BY <2>1, <2>2 DEF Receives
<1>7. CASE OnCallCanceling(u)
  BY <1>7 DEF OnCallCanceling, Receives, DialogIs, history
<1>8. CASE OnCallConfirmed(u)
  BY <1>8 DEF OnCallConfirmed, DialogIs, Callback, threads, history
<1>9. CASE NeverConfirmed(u)
  BY <1>9 DEF NeverConfirmed, DialogIs, Callback, threads
<1>10. CASE OnCallRinging(u)
  BY <1>10 DEF OnCallRinging, Receives, history
<1>11. CASE OnCallAccepted(u)
  BY <1>11 DEF OnCallAccepted, Receives, DialogIs, history
<1>12. CASE ShowAccepted(u)
  BY <1>12 DEF ShowAccepted, Receives, Become, history
<1>13. CASE RejectAccepted(u)
  BY <1>13, HangUpTypes DEF RejectAccepted, Receives, Late
<1>14. CASE OnCallRefused(u)
  BY <1>14 DEF OnCallRefused, Receives, DialogIs, history
<1>15. CASE OnCallModifying(u)
  BY <1>15 DEF OnCallModifying, DialogIs, Callback, threads, history
<1>16. CASE OnCallReInviteAccepted(u)
  BY <1>16 DEF OnCallReInviteAccepted, Receives, DialogIs, history
<1>17. CASE ShowReInvited(u)
  <2>1. CASE Receives(u, "holding", "free") /\ Become("hold", u)
    BY <1>17, <2>1 DEF ShowReInvited, Receives, Become, history
  <2>2. CASE Receives(u, "resuming", "free") /\ Become("incall", u)
    BY <1>17, <2>2 DEF ShowReInvited, Receives, Become, history
  <2> QED
    BY <1>17, <2>1, <2>2 DEF ShowReInvited
<1>18. CASE OnCallReInviteRefused(u)
  BY <1>18 DEF OnCallReInviteRefused, DialogIs, Callback, threads, history
<1>19. CASE OnCallTimeout(u)
  BY <1>19 DEF OnCallTimeout, DialogIs, history
<1>20. CASE EndCall(u)
  BY <1>20, BecomeIdleTypes DEF EndCall
<1>21. CASE EndCallback(u)
  BY <1>21, BecomeIdleTypes DEF EndCallback, Receives
<1>22. CASE OnCallClosing(u)
  BY <1>22 DEF OnCallClosing, Receives, history
<1>23. CASE TakeTransferred(u)
  BY <1>23, HungUpFacts DEF TakeTransferred, history
<1>24. CASE OnCallTransfer(u)
  BY <1>24 DEF OnCallTransfer, threads, history
<1>25. CASE OnTransferAccepted(u)
  <2>1. /\ media' = media /\ {raced', lost'} \subseteq BOOLEAN
        /\ \E to \in {"accepted", "unwanted"} : Transferred(u, "inviting", "call", to)
    BY <1>25 DEF OnTransferAccepted, history
  <2> QED
    BY <2>1 DEF Transferred
<1>26. CASE OnTransferRefused(u)
  BY <1>26 DEF OnTransferRefused, Transferred, history
<1>27. CASE OnTransferClosing(u)
  BY <1>27 DEF OnTransferClosing, Transferred, history
<1> QED
  BY <1>1, <1>2, <1>3, <1>4, <1>5, <1>6, <1>7, <1>8, <1>9, <1>10, <1>11, <1>12, <1>13, <1>14,
         <1>15, <1>16, <1>17, <1>18, <1>19, <1>20, <1>21, <1>22, <1>23, <1>24, <1>25, <1>26,
         <1>27 DEF Event

(* The threads of the user. *)
LEMMA UserTypes ==
  ASSUME TypeOK, SwitchesToCall, NEW u \in Agents,
         \/ Place(u) \/ CloseFirst(u) \/ ClearFirst(u) \/ ShowOutgoing(u) \/ Dial(u)
         \/ Accept(u) \/ RunReInvite(u)
  PROVE  TypeOK' /\ SwitchesToCall'
<1> USE DEF TypeOK, SwitchesToCall, Points, States, Dialogs, Up
<1>1. CASE Place(u)
  BY <1>1 DEF Place, history
<1>2. CASE CloseFirst(u)
  BY <1>2, HangUpTypes DEF CloseFirst, Calls, history
<1>3. CASE ClearFirst(u)
  BY <1>3, BecomeIdleTypes DEF ClearFirst, Calls
<1>4. CASE ShowOutgoing(u)
  BY <1>4 DEF ShowOutgoing, Calls, Become
<1>5. CASE Dial(u)
  BY <1>5, HungUpFacts DEF Dial, Calls, history
<1>6. CASE Accept(u)
  BY <1>6 DEF Accept, DialogIs, history
<1>7. CASE RunReInvite(u)
  BY <1>7 DEF RunReInvite, DialogIs, history
<1> QED
  BY <1>1, <1>2, <1>3, <1>4, <1>5, <1>6, <1>7

(* The commands of the user, and the Calls nobody knows. *)
LEMMA CommandTypes ==
  ASSUME TypeOK, SwitchesToCall,
         (\E c \in {"answer", "reject"} : Press(c)) \/ Answer \/ Reject \/ ToggleHold \/ Orphan
  PROVE  TypeOK' /\ SwitchesToCall'
<1> USE DEF TypeOK, SwitchesToCall, Points, States, Dialogs, Up
<1>1. ASSUME NEW c \in {"answer", "reject"}, Press(c) PROVE TypeOK' /\ SwitchesToCall'
  BY <1>1 DEF Press, history
<1>2. CASE Answer
  BY <1>2 DEF Answer, Become
<1>3. CASE Reject
  BY <1>3, HangUpTypes DEF Reject, Late
<1>4. CASE ToggleHold
  BY <1>4 DEF ToggleHold, history
<1>5. CASE Orphan
  BY <1>5 DEF Orphan, Callback, threads, history
<1> QED
  BY <1>1, <1>2, <1>3, <1>4, <1>5

-----------------------------------------------------------------------------
(* The invariant, action by action. *)

(* When every agent listens again and no thread is in the middle of anything,
   everything holds; and otherwise nothing but the agents' states is claimed. *)
LEMMA ResetStep ==
  ASSUME TypeOK', SwitchesToCall', NEW u \in Agents, BecomeIdle(u), phone # "idle"
  PROVE  IInv'
BY DEF BecomeIdle, UnderWay, IInv, TypeOK, PhoneShowsAgent, IdleListens, ShownCallExists,
       OthersAside, Aside, Waits, ThreadsFollow, Ends

(* changeStatus(UA_STATE_IDLE) on a phone that is idle changes nothing; the
   thread that called it goes on. *)
LEMMA IdleStep ==
  ASSUME IInv, TypeOK', SwitchesToCall', NEW u \in Agents, BecomeIdle(u),
         UNCHANGED <<active, transfer, accepting>>,
         \/ Receives(u, "ending", "free")
         \/ UNCHANGED <<at, calling>> /\ ending' = ending \ {u}
         \/ UNCHANGED ending /\ Calls(u, "closed", "cleared")
  PROVE  IInv'
<1>1. CASE phone # "idle"
  BY <1>1, ResetStep
<1>2. CASE phone = "idle"
  <2>1. /\ state' = [state EXCEPT ![u] = "idle"]
        /\ UNCHANGED <<phone, dialog, media, raced, lost>>
    BY <1>2 DEF BecomeIdle, history
  <2> QED
    BY <1>2, <2>1 DEF Receives, Calls, IInv, TypeOK, PhoneShowsAgent, IdleListens,
       ShownCallExists, OthersAside, Aside, Waits, ThreadsFollow, Ends
<1> QED
  BY <1>1, <1>2

(* The callbacks. *)
LEMMA EventPreserves ==
  ASSUME IInv, NEW u \in Agents, Event(u)
  PROVE  IInv'
<1>0. TypeOK' /\ SwitchesToCall'
  BY EventTypes DEF IInv
<1> USE <1>0
<1> USE DEF IInv, TypeOK, Points, Dialogs, States, Up, PhoneShowsAgent, IdleListens,
    ShownCallExists, OthersAside, Aside, Waits, ThreadsFollow, Ends, HungUp
<1>1. CASE Busy(u)
  BY <1>1 DEF Busy, DialogIs, Callback, threads, history
<1>2. CASE TestPhone(u)
  BY <1>2 DEF TestPhone, Receives, DialogIs, history
<1>3. CASE AssignAgent(u)
  <2>1. raced' \/ (~raced /\ phone = "idle")
    BY <1>3, Zenon DEF AssignAgent
  <2>2. PhoneShowsAgent' /\ ShownCallExists'
    BY <1>3, <2>1 DEF AssignAgent
  <2>3. IdleListens' /\ OthersAside'
    BY <1>3, <2>1 DEF AssignAgent
  <2>4. ThreadsFollow'
    BY <1>3, <2>1 DEF AssignAgent
  <2> QED
    BY <2>2, <2>3, <2>4
<1>4. CASE ShowIncoming(u)
  <2>1. raced' \/ (~raced /\ phone = "idle" /\ u = active /\ dialog[u] = "invited")
    BY <1>4, Zenon DEF ShowIncoming
  <2>2. PhoneShowsAgent' /\ ShownCallExists'
    BY <1>4, <2>1 DEF ShowIncoming, Receives, Become
  <2>3. IdleListens' /\ OthersAside'
    BY <1>4, <2>1 DEF ShowIncoming, Receives, Become
  <2>4. ThreadsFollow'
    BY <1>4, <2>1 DEF ShowIncoming, Receives, Become
  <2> QED
    BY <2>2, <2>3, <2>4
<1>5. CASE Unanswerable(u)
  BY <1>5 DEF Unanswerable, Receives, history
<1>6. CASE LaunchMedia(u)
  BY <1>6 DEF LaunchMedia, Receives, HangUpCall, Late, history
<1>7. CASE OnCallCanceling(u)
  BY <1>7 DEF OnCallCanceling, Receives, DialogIs, history
<1>8. CASE OnCallConfirmed(u)
  BY <1>8 DEF OnCallConfirmed, DialogIs, Callback, threads, history
<1>9. CASE NeverConfirmed(u)
  BY <1>9 DEF NeverConfirmed, DialogIs, Callback, threads
<1>10. CASE OnCallRinging(u)
  BY <1>10 DEF OnCallRinging, Receives, history
<1>11. CASE OnCallAccepted(u)
  BY <1>11 DEF OnCallAccepted, Receives, DialogIs, history
<1>12. CASE ShowAccepted(u)
  BY <1>12 DEF ShowAccepted, Receives, Become, history
<1>13. CASE RejectAccepted(u)
  <2>1. raced' \/ (~raced /\ phone # "idle")
    BY <1>13, Zenon DEF RejectAccepted, Late
  <2>2. PhoneShowsAgent' /\ ShownCallExists'
    BY <1>13, <2>1 DEF RejectAccepted, Late, Receives, HangUpCall
  <2>3. IdleListens' /\ OthersAside'
    BY <1>13, <2>1 DEF RejectAccepted, Late, Receives, HangUpCall
  <2>4. ThreadsFollow'
    BY <1>13, <2>1 DEF RejectAccepted, Late, Receives, HangUpCall
  <2> QED
    BY <2>2, <2>3, <2>4
<1>14. CASE OnCallRefused(u)
  BY <1>14 DEF OnCallRefused, Receives, DialogIs, history
<1>15. CASE OnCallModifying(u)
  BY <1>15 DEF OnCallModifying, DialogIs, Callback, threads, history
<1>16. CASE OnCallReInviteAccepted(u)
  BY <1>16 DEF OnCallReInviteAccepted, Receives, DialogIs, history
<1>17. CASE ShowReInvited(u)
  <2>1. CASE Receives(u, "holding", "free") /\ Become("hold", u)
    BY <1>17, <2>1 DEF ShowReInvited, Receives, Become, history
  <2>2. CASE Receives(u, "resuming", "free") /\ Become("incall", u)
    BY <1>17, <2>2 DEF ShowReInvited, Receives, Become, history
  <2> QED
    BY <1>17, <2>1, <2>2 DEF ShowReInvited
<1>18. CASE OnCallReInviteRefused(u)
  BY <1>18 DEF OnCallReInviteRefused, DialogIs, Callback, threads, history
<1>19. CASE OnCallTimeout(u)
  BY <1>19 DEF OnCallTimeout, DialogIs, history
<1>20. CASE EndCall(u)
  BY <1>20, IdleStep DEF EndCall
<1>21. CASE EndCallback(u)
  BY <1>21, IdleStep DEF EndCallback, Receives
<1>22. CASE OnCallClosing(u)
  BY <1>22 DEF OnCallClosing, Receives, history
<1>23. CASE TakeTransferred(u)
  BY <1>23 DEF TakeTransferred, history
<1>24. CASE OnCallTransfer(u)
  BY <1>24 DEF OnCallTransfer, threads, history
<1>25. CASE OnTransferAccepted(u)
  BY <1>25 DEF OnTransferAccepted, Transferred, history
<1>26. CASE OnTransferRefused(u)
  BY <1>26 DEF OnTransferRefused, Transferred, history
<1>27. CASE OnTransferClosing(u)
  BY <1>27 DEF OnTransferClosing, Transferred, history
<1> QED
  BY <1>1, <1>2, <1>3, <1>4, <1>5, <1>6, <1>7, <1>8, <1>9, <1>10, <1>11, <1>12, <1>13, <1>14,
         <1>15, <1>16, <1>17, <1>18, <1>19, <1>20, <1>21, <1>22, <1>23, <1>24, <1>25, <1>26,
         <1>27 DEF Event

(* The threads of the user. *)
LEMMA UserPreserves ==
  ASSUME IInv, NEW u \in Agents,
         \/ Place(u) \/ CloseFirst(u) \/ ClearFirst(u) \/ ShowOutgoing(u) \/ Dial(u)
         \/ Accept(u) \/ RunReInvite(u)
  PROVE  IInv'
<1>0. TypeOK' /\ SwitchesToCall'
  BY UserTypes DEF IInv
<1> USE <1>0
<1> USE DEF IInv, TypeOK, Points, Dialogs, States, Up, PhoneShowsAgent, IdleListens,
    ShownCallExists, OthersAside, Aside, Waits, ThreadsFollow, Ends, HungUp
<1>1. CASE Place(u)
  BY <1>1 DEF Place, history
<1>2. CASE CloseFirst(u)
  BY <1>2 DEF CloseFirst, Calls, HangUpCall, history
<1>3. CASE ClearFirst(u)
  BY <1>3, IdleStep DEF ClearFirst, Calls
<1>4. CASE ShowOutgoing(u)
  <2>1. raced' \/ (~raced /\ phone = "idle" /\ u = active)
    BY <1>4, Zenon DEF ShowOutgoing
  <2>2. PhoneShowsAgent' /\ ShownCallExists'
    BY <1>4, <2>1 DEF ShowOutgoing, Calls, Become
  <2>3. IdleListens' /\ OthersAside'
    BY <1>4, <2>1 DEF ShowOutgoing, Calls, Become
  <2>4. ThreadsFollow'
    BY <1>4, <2>1 DEF ShowOutgoing, Calls, Become
  <2> QED
    BY <2>2, <2>3, <2>4
<1>5. CASE Dial(u)
  BY <1>5 DEF Dial, Calls, history
<1>6. CASE Accept(u)
  BY <1>6 DEF Accept, DialogIs, history
<1>7. CASE RunReInvite(u)
  BY <1>7 DEF RunReInvite, DialogIs, history
<1> QED
  BY <1>1, <1>2, <1>3, <1>4, <1>5, <1>6, <1>7

(* The commands of the user, and the Calls nobody knows. *)
LEMMA CommandPreserves ==
  ASSUME IInv,
         (\E c \in {"answer", "reject"} : Press(c)) \/ Answer \/ Reject \/ ToggleHold \/ Orphan
  PROVE  IInv'
<1>0. TypeOK' /\ SwitchesToCall'
  BY CommandTypes DEF IInv
<1> USE <1>0
<1> USE DEF IInv, TypeOK, Points, Dialogs, States, Up, PhoneShowsAgent, IdleListens,
    ShownCallExists, OthersAside, Aside, Waits, ThreadsFollow, Ends, HungUp
<1>1. ASSUME NEW c \in {"answer", "reject"}, Press(c) PROVE IInv'
  BY <1>1 DEF Press, history
<1>2. CASE Answer
  <2>1. raced' \/ (~raced /\ phone = "incoming")
    BY <1>2, Zenon DEF Answer
  <2>2. PhoneShowsAgent' /\ ShownCallExists'
    BY <1>2, <2>1 DEF Answer, Become
  <2>3. IdleListens' /\ OthersAside'
    BY <1>2, <2>1 DEF Answer, Become
  <2>4. ThreadsFollow'
    BY <1>2, <2>1 DEF Answer, Become
  <2> QED
    BY <2>2, <2>3, <2>4
<1>3. CASE Reject
  <2>1. raced' \/ (~raced /\ phone # "idle")
    BY <1>3, Zenon DEF Reject, Late
  <2>2. PhoneShowsAgent' /\ ShownCallExists'
    BY <1>3, <2>1 DEF Reject, Late, HangUpCall
  <2>3. IdleListens' /\ OthersAside'
    BY <1>3, <2>1 DEF Reject, Late, HangUpCall
  <2>4. ThreadsFollow'
    BY <1>3, <2>1 DEF Reject, Late, HangUpCall
  <2> QED
    BY <2>2, <2>3, <2>4
<1>4. CASE ToggleHold
  BY <1>4 DEF ToggleHold, history
<1>5. CASE Orphan
  BY <1>5 DEF Orphan, Callback, threads, history
<1> QED
  BY <1>1, <1>2, <1>3, <1>4, <1>5

(* Nothing happens. *)
LEMMA StutterPreserves ==
  ASSUME IInv, UNCHANGED vars
  PROVE  IInv'
BY DEF vars, threads, history, IInv, TypeOK, SwitchesToCall, PhoneShowsAgent, IdleListens,
   ShownCallExists, OthersAside, Aside, Waits, ThreadsFollow, Ends

-----------------------------------------------------------------------------
(* Wherever threads come between each other's steps, the invariant holds of
   every state. *)
THEOREM Invariance == Spec => []IInv
<1>1. Init => IInv
  <2> SUFFICES ASSUME Init PROVE IInv
    OBVIOUS
  <2>1. TypeOK /\ SwitchesToCall
    BY DEF Init, TypeOK, SwitchesToCall, Points, States, Dialogs
  <2>2. PhoneShowsAgent /\ IdleListens /\ ShownCallExists
    BY DEF Init, PhoneShowsAgent, IdleListens, ShownCallExists
  <2>3. OthersAside /\ ThreadsFollow
    BY DEF Init, OthersAside, Aside, Waits, ThreadsFollow
  <2> QED
    BY <2>1, <2>2, <2>3 DEF IInv
<1>2. IInv /\ [Next]_vars => IInv'
  <2> SUFFICES ASSUME IInv, [Next]_vars PROVE IInv'
    OBVIOUS
  <2>1. ASSUME NEW u \in Agents, Event(u) PROVE IInv'
    BY <2>1, EventPreserves
  <2>2. ASSUME NEW u \in Agents,
               \/ Place(u) \/ CloseFirst(u) \/ ClearFirst(u) \/ ShowOutgoing(u) \/ Dial(u)
               \/ Accept(u) \/ RunReInvite(u)
        PROVE  IInv'
    BY <2>2, UserPreserves
  <2>3. ASSUME (\E c \in {"answer", "reject"} : Press(c)) \/ Answer \/ Reject \/ ToggleHold
                 \/ Orphan
        PROVE  IInv'
    BY <2>3, CommandPreserves
  <2>4. CASE UNCHANGED vars
    BY <2>4, StutterPreserves
  <2> QED
    BY <2>1, <2>2, <2>3, <2>4 DEF Next
<1> QED
  BY <1>1, <1>2, PTL DEF Spec

(* The state of the call layer is one the code has names for. *)
THEOREM TypeCorrect == Spec => []TypeOK
<1>1. IInv => TypeOK
  BY DEF IInv
<1> QED
  BY <1>1, Invariance, PTL

(* The phone shows the call of the agent that gets the user's commands, and no
   other account is in a call, for any number of accounts and threads, until a
   thread comes too late. *)
THEOREM PhoneShows == Spec => []PhoneShowsAgent
<1>1. IInv => PhoneShowsAgent
  BY DEF IInv
<1> QED
  BY <1>1, Invariance, PTL

(* On an idle phone every agent is idle, whatever raced; unless something did, it
   plays no audio and every account waits for calls. *)
THEOREM IdlePhoneListens == Spec => []IdleListens
<1>1. IInv => IdleListens
  BY DEF IInv
<1> QED
  BY <1>1, Invariance, PTL

(* The call that the phone shows is one that its dialog has, or a thread is about
   to say that it has not. *)
THEOREM ShownCall == Spec => []ShownCallExists
<1>1. IInv => ShownCallExists
  BY DEF IInv
<1> QED
  BY <1>1, Invariance, PTL

(* What happens to the dialogs of the other accounts leaves the call alone, but
   for a call that found the phone idle and a transfer left over from an earlier
   call: all that can happen to them is that a call is refused. *)
THEOREM Undisturbed == Spec => CallUndisturbed
<1>1. IInv /\ [Next]_vars =>
        [\A u \in Agents \ {active} :
           Event(u) /\ ~raced /\ phone # "idle" /\ at[u] \notin {"tested", "assigned"}
             /\ transfer[u] = "none" =>
             /\ UNCHANGED <<phone, active>>
             /\ state'[active] = state[active] /\ dialog'[active] = dialog[active]
             /\ media'[active] = media[active]
             /\ at'[u] \notin {"tested", "assigned"}]_vars
  <2> SUFFICES ASSUME IInv, NEW u \in Agents, u # active, Event(u), ~raced, phone # "idle",
                      at[u] \notin {"tested", "assigned"}, transfer[u] = "none"
               PROVE  /\ UNCHANGED <<phone, active>>
                      /\ state'[active] = state[active] /\ dialog'[active] = dialog[active]
                      /\ media'[active] = media[active]
                      /\ at'[u] \notin {"tested", "assigned"}
    OBVIOUS
  <2>1. Aside(u) /\ at[u] = "free"
    BY DEF IInv, OthersAside, Aside
  <2>2. Busy(u)
    BY <2>1 DEF Event, Aside, Waits, Up, TestPhone, AssignAgent, ShowIncoming, Unanswerable,
       LaunchMedia, OnCallCanceling, OnCallConfirmed, NeverConfirmed, OnCallRinging, OnCallAccepted,
       ShowAccepted, RejectAccepted, OnCallRefused, OnCallModifying, OnCallReInviteAccepted,
       ShowReInvited, OnCallReInviteRefused, OnCallTimeout, EndCall, EndCallback,
       OnCallClosing, TakeTransferred, OnCallTransfer, OnTransferAccepted,
       OnTransferRefused, OnTransferClosing, Transferred, Receives
  <2> QED
    BY <2>1, <2>2 DEF Busy, DialogIs, Callback, threads
<1> QED
  BY <1>1, Invariance, PTL DEF Spec, CallUndisturbed

=============================================================================
