------------------------------ MODULE UserAgent ------------------------------
(***************************************************************************)
(* The call layer: one UserAgent per account, the Call each of them has at *)
(* the moment, the call state of the whole phone in Receiver, and the      *)
(* agent that SipdroidEngine gives the user's commands to.                 *)
(*                                                                         *)
(* The receive thread of an account brings what happens to its dialog, a   *)
(* timer may bring a timeout, and a command of the user runs on a thread   *)
(* of its own, some time after the screen showed the state it was pressed  *)
(* in.  Nothing but changeStatus() is locked, so a step ends where another *)
(* thread can come between a test and the change that follows it, and      *)
(* between one change and the next: "at" and the other thread variables    *)
(* say how far each has got.  One step are changeStatus() with the listen()*)
(* that Receiver.onState() calls, listen() with its own test, busy() and   *)
(* launchMediaApplication(): two of these at once are not modelled.        *)
(*                                                                         *)
(* A dialog is seen here as its listener sees it: InviteDialog has the     *)
(* messages.  A Call that another replaced is kept in "orphans" while its  *)
(* dialog may still be, or come, up: its callbacks are ignored.            *)
(***************************************************************************)
EXTENDS Naturals, FiniteSets

CONSTANTS
  Agents,              \* SipdroidEngine.uas
  MaxThreads           \* bound: threads of the user at once

ASSUME AgentsAssumption == Agents # {} /\ IsFiniteSet(Agents) /\ MaxThreads \in Nat

VARIABLES
  phone,               \* Receiver.call_state
  active,              \* SipdroidEngine.ua
  state,               \* UserAgent.call_state
  dialog,              \* the state of the dialog of UserAgent.call
  media,               \* UserAgent.audio_app # null
  transfer,            \* the dialog of UserAgent.call_transfer, or "none"
  orphans,             \* what is left of the dialogs of replaced Calls
  at,                  \* what the receive thread of an agent does next
  ending,              \* the agents of which another thread is about to be idle
  calling,             \* how far the call() of an agent has got
  accepting,           \* the agents whose accept() has yet to answer
  commands,            \* pressed, and not yet run
  modifying,           \* the agents whose runReInvite() has not yet run
  raced,               \* history: something ran in a state it was not meant for
  lost                 \* history: a call ended without telling its agent

threads == <<at, ending, calling, accepting, commands, modifying>>
history == <<raced, lost>>
vars    == <<phone, active, state, dialog, media, transfer, orphans, threads, history>>

States  == {"idle", "incoming", "outgoing", "incall", "hold"}
Up      == {"accepted", "call", "reinviting", "reaccepted"}
Dialogs == {"waiting", "deaf", "invited", "inviting", "byeing", "over"} \cup Up

(* The receive thread has no callback to finish; has found the phone idle; has
   made its agent the engine's; has shown the call; launches the media; has found
   the agent calling, or not; is about to be idle; to take the transferred call;
   to show HOLD, or INCALL. *)
Points == {"free", "tested", "assigned", "shown", "launching", "accepted", "unwanted",
           "ending", "switching", "holding", "resuming"}

TypeOK ==
  /\ phone \in States
  /\ active \in Agents
  /\ state \in [Agents -> States]
  /\ dialog \in [Agents -> Dialogs]
  /\ media \in [Agents -> BOOLEAN]
  /\ transfer \in [Agents -> {"none", "inviting", "call", "over"}]
  /\ orphans \subseteq {"opening", "up"}
  /\ at \in [Agents -> Points]
  /\ calling \in [Agents -> {"none", "tested", "closed", "cleared", "shown"}]
  /\ ending \subseteq Agents /\ accepting \subseteq Agents /\ modifying \subseteq Agents
  /\ commands \subseteq {"answer", "reject"}
  /\ {raced, lost} \subseteq BOOLEAN

(* StartEngine(): every agent listens. *)
Init ==
  /\ phone = "idle" /\ active \in Agents
  /\ state = [u \in Agents |-> "idle"]
  /\ dialog = [u \in Agents |-> "waiting"]
  /\ media = [u \in Agents |-> FALSE]
  /\ transfer = [u \in Agents |-> "none"]
  /\ orphans = {}
  /\ at = [u \in Agents |-> "free"]
  /\ calling = [u \in Agents |-> "none"]
  /\ ending = {} /\ accepting = {} /\ commands = {} /\ modifying = {}
  /\ raced = FALSE /\ lost = FALSE

-----------------------------------------------------------------------------
(* Threads: what each does next. *)

Receives(u, from, to) ==
  /\ at[u] = from
  /\ at' = [at EXCEPT ![u] = to]
  /\ UNCHANGED <<active, transfer, ending, calling, accepting, commands, modifying>>

Calls(u, from, to) ==
  /\ calling[u] = from
  /\ calling' = [calling EXCEPT ![u] = to]
  /\ UNCHANGED <<active, transfer, at, ending, accepting, commands, modifying>>

(* A thread is in the middle of what it began for the call the phone is in. *)
UnderWay ==
  \/ \E u \in Agents : at[u] # "free" \/ calling[u] = "shown"
  \/ ending # {} \/ accepting # {}

(* One more thread of the user may be started. *)
ThreadFree ==
  Cardinality({u \in Agents : calling[u] # "none"}) + Cardinality(ending)
    + Cardinality(accepting) + Cardinality(commands) + Cardinality(modifying) < MaxThreads

-----------------------------------------------------------------------------
(* Call.hangup(): refuse(), cancel() and bye(), each of which looks at the
   state of the dialog.  A CANCEL and an answer that is not confirmed leave
   that state as it is. *)
HungUp(d) ==
  CASE d = "invited" -> "over"
    [] d = "waiting" -> "deaf"
    [] d = "call"    -> "byeing"
    [] OTHER         -> d

(* What of a dialog is up, or may come up, when its Call is replaced. *)
LeftOf(d) ==
  CASE d = "call"                  -> {"up"}
    [] d \in Up \cup {"inviting"} -> {"opening"}
    [] OTHER                       -> {}

(* The first half of hangup(), before the status.  On an idle phone it is the
   Call that waits which is hung up, and nobody listens again. *)
HangUpCall(u) ==
  /\ media' = [media EXCEPT ![u] = FALSE]
  /\ dialog' = [dialog EXCEPT ![u] = HungUp(@)]
  /\ UNCHANGED <<phone, state, orphans>>

Late == raced' = (raced \/ phone = "idle") /\ UNCHANGED lost

(* Faulty variant of BecomeIdle: only the agent itself listens again. *)
BecomeIdleAlone(u) ==
  /\ state' = [state EXCEPT ![u] = "idle"]
  /\ IF phone = "idle"
       THEN UNCHANGED <<phone, dialog, media, orphans, history>>
       ELSE /\ phone' = "idle"
            /\ dialog' = [dialog EXCEPT ![u] = "waiting"]
            /\ media' = [media EXCEPT ![u] = FALSE]
            /\ orphans' = orphans \cup LeftOf(HungUp(dialog[u]))
            /\ raced' = UnderWay' /\ lost' = FALSE

(* changeStatus(UA_STATE_IDLE) by agent u.  Only when that changes what the
   phone shows does Receiver.onState() make every agent listen, which hangs up
   whatever Call it has and starts another that waits. *)
BecomeIdle(u) ==
  IF phone = "idle"
    THEN /\ state' = [state EXCEPT ![u] = "idle"]
         /\ UNCHANGED <<phone, dialog, media, orphans, history>>
    ELSE /\ phone' = "idle"
         /\ state' = [v \in Agents |-> "idle"]
         /\ dialog' = [v \in Agents |-> "waiting"]
         /\ media' = [v \in Agents |-> FALSE]
         /\ orphans' = orphans \cup UNION {LeftOf(HungUp(dialog[v])) : v \in Agents}
         /\ raced' = UnderWay' /\ lost' = FALSE

(* changeStatus(s) for any other state. *)
Become(s, u) ==
  /\ phone' = s
  /\ state' = [state EXCEPT ![u] = s]
  /\ UNCHANGED <<dialog, media, orphans>>

(* The dialog of u goes on. *)
DialogIs(u, d) ==
  /\ dialog' = [dialog EXCEPT ![u] = d]
  /\ UNCHANGED <<phone, state, media, orphans>>

Callback == UNCHANGED <<active, transfer, threads>>

-----------------------------------------------------------------------------
(* Faulty variant of Busy: the agent is idle as well as the dialog over. *)
BusyHangsUp(u) ==
  /\ at[u] = "free" /\ dialog[u] = "waiting"
  /\ \/ phone # "idle" /\ DialogIs(u, "over") /\ Receives(u, "free", "ending")
     \/ phone = "idle" /\ DialogIs(u, "waiting") /\ Callback
  /\ UNCHANGED history

(* onCallIncoming(): the phone is busy, or the account's network may not be
   used.  busy() refuses; listen() does nothing unless the phone is idle. *)
Busy(u) ==
  /\ at[u] = "free" /\ dialog[u] = "waiting"
  /\ DialogIs(u, IF phone = "idle" THEN "waiting" ELSE "over")
  /\ UNCHANGED history
  /\ Callback

(* ... or neither: the test is passed, and the call is about to be shown. *)
TestPhone(u) ==
  /\ Receives(u, "free", "tested")
  /\ dialog[u] = "waiting" /\ phone = "idle"
  /\ DialogIs(u, "invited")
  /\ UNCHANGED history

(* The agent becomes the engine's, which may be in another call by now, *)
AssignAgent(u) ==
  /\ at[u] = "tested" /\ at' = [at EXCEPT ![u] = "assigned"]
  /\ active' = u
  /\ raced' = (raced \/ phone # "idle") /\ UNCHANGED lost
  /\ UNCHANGED <<phone, state, dialog, media, transfer, orphans, ending, calling, accepting,
                 commands, modifying>>

(* ... and the phone shows the call, which may be gone by now. *)
ShowIncoming(u) ==
  /\ Receives(u, "assigned", "shown")
  /\ Become("incoming", u)
  /\ raced' = (raced \/ phone # "idle" \/ dialog[u] # "invited" \/ u # active)
  /\ UNCHANGED lost

(* createAnswer() finds no common codec. *)
Unanswerable(u) ==
  /\ Receives(u, "shown", "ending")
  /\ UNCHANGED <<phone, state, dialog, media, orphans, history>>

(* launchMediaApplication(), for an incoming call after ring(): it runs already,
   or there is no audio to start it for; it is started; or there is no common
   codec, and the agent hangs up. *)
LaunchMedia(u) ==
  \E from \in {"shown", "launching"} :
    \/ /\ Receives(u, from, "free")
       /\ \E m \in {media[u], TRUE} : media' = [media EXCEPT ![u] = m]
       /\ UNCHANGED <<phone, state, dialog, orphans, history>>
    \/ ~media[u] /\ Receives(u, from, "ending") /\ HangUpCall(u) /\ Late

(* changeStatus(UA_STATE_IDLE), with which so many callbacks end. *)
EndCallback(u) ==
  /\ Receives(u, "ending", "free")
  /\ BecomeIdle(u)

(* Faulty variant of OnCallCanceling: the agent is not told. *)
OnCallCancelingSilent(u) ==
  /\ at[u] = "free" /\ dialog[u] = "invited"
  /\ DialogIs(u, "over") /\ UNCHANGED history
  /\ Callback

(* onCallCanceling(): the dialog has answered 487 itself. *)
OnCallCanceling(u) ==
  /\ Receives(u, "free", "ending") /\ dialog[u] = "invited"
  /\ DialogIs(u, "over") /\ UNCHANGED history

(* onCallConfirmed(), and the ACK of a re-INVITE. *)
OnCallConfirmed(u) ==
  /\ at[u] = "free" /\ dialog[u] \in {"accepted", "reaccepted"}
  /\ DialogIs(u, "call") /\ UNCHANGED history
  /\ Callback

(* No ACK arrives: the dialog closes with onDlgClose(), which Call ignores. *)
NeverConfirmed(u) ==
  /\ dialog[u] \in {"accepted", "reaccepted"}
  /\ DialogIs(u, "over") /\ lost' = TRUE /\ UNCHANGED raced
  /\ Callback

(* onCallRinging() with a session description. *)
OnCallRinging(u) ==
  /\ Receives(u, "free", "launching") /\ dialog[u] = "inviting" /\ ~media[u]
  /\ UNCHANGED <<phone, state, dialog, media, orphans, history>>

(* onCallAccepted() for the current call, as far as the test of the state. *)
OnCallAccepted(u) ==
  /\ dialog[u] = "inviting"
  /\ Receives(u, "free", IF state[u] = "outgoing" THEN "accepted" ELSE "unwanted")
  /\ DialogIs(u, "call") /\ UNCHANGED history

(* ... with which the phone is in the call, and its media are launched, *)
ShowAccepted(u) ==
  /\ Receives(u, "accepted", "launching")
  /\ Become("incall", u)
  /\ UNCHANGED history

(* ... or the agent hangs up. *)
RejectAccepted(u) ==
  /\ Receives(u, "unwanted", "ending")
  /\ HangUpCall(u) /\ Late

(* onCallRefused().  A redirection invites once more. *)
OnCallRefused(u) ==
  /\ Receives(u, "free", "ending") /\ dialog[u] = "inviting"
  /\ DialogIs(u, "over") /\ UNCHANGED history

(* onCallModifying(): a re-INVITE is accepted at once. *)
OnCallModifying(u) ==
  /\ at[u] = "free" /\ dialog[u] = "call"
  /\ DialogIs(u, "reaccepted") /\ UNCHANGED history
  /\ Callback

(* onCallReInviteAccepted(): held and not held take turns. *)
OnCallReInviteAccepted(u) ==
  /\ dialog[u] = "reinviting"
  /\ Receives(u, "free", IF state[u] = "hold" THEN "resuming" ELSE "holding")
  /\ DialogIs(u, "call") /\ UNCHANGED history

(* Faulty variant of ShowReInvited: the agent changes its state, and does not
   tell the phone. *)
ShowReInvitedSilently(u) ==
  /\ \/ Receives(u, "holding", "free") /\ state' = [state EXCEPT ![u] = "hold"]
     \/ Receives(u, "resuming", "free") /\ state' = [state EXCEPT ![u] = "incall"]
  /\ UNCHANGED <<phone, dialog, media, orphans, history>>

(* ... of which the phone is told. *)
ShowReInvited(u) ==
  /\ \/ Receives(u, "holding", "free") /\ Become("hold", u)
     \/ Receives(u, "resuming", "free") /\ Become("incall", u)
  /\ UNCHANGED history

OnCallReInviteRefused(u) ==
  /\ at[u] = "free" /\ dialog[u] = "reinviting"
  /\ DialogIs(u, "call") /\ UNCHANGED history
  /\ Callback

(* onCallTimeout() on the timer thread: no answer to an INVITE, or to a
   re-INVITE, for which InviteDialog reports onDlgTimeout() too. *)
OnCallTimeout(u) ==
  /\ dialog[u] \in {"inviting", "reinviting"} /\ u \notin ending
  /\ ending' = ending \cup {u}
  /\ DialogIs(u, "over")
  /\ UNCHANGED <<active, transfer, at, calling, accepting, commands, modifying, history>>

(* changeStatus(UA_STATE_IDLE), with which that and hangup() end. *)
EndCall(u) ==
  /\ u \in ending
  /\ ending' = ending \ {u}
  /\ UNCHANGED <<active, transfer, at, calling, accepting, commands, modifying>>
  /\ BecomeIdle(u)

(* Faulty variant of OnCallClosing: call_transfer is not tested for null. *)
OnCallClosingUntested(u) ==
  /\ dialog[u] = "call"
  /\ Receives(u, "free", "switching")
  /\ DialogIs(u, "over")
  /\ lost' = TRUE /\ UNCHANGED raced

(* onCallClosing(): the media are closed, or, with a transfer under way, the
   BYE moves the agent to the call transferred to and the phone is not told. *)
OnCallClosing(u) ==
  /\ dialog[u] = "call"
  /\ dialog' = [dialog EXCEPT ![u] = "over"]
  /\ \/ /\ transfer[u] = "none" /\ Receives(u, "free", "ending")
        /\ media' = [media EXCEPT ![u] = FALSE] /\ UNCHANGED history
     \/ /\ transfer[u] # "none" /\ Receives(u, "free", "switching")
        /\ lost' = TRUE /\ UNCHANGED <<media, raced>>
  /\ UNCHANGED <<phone, state, orphans>>

(* this.call = call_transfer, whatever has become of that. *)
TakeTransferred(u) ==
  /\ at[u] = "switching"
  /\ at' = [at EXCEPT ![u] = "free"]
  /\ dialog' = [dialog EXCEPT ![u] = transfer[u]]
  /\ transfer' = [transfer EXCEPT ![u] = "none"]
  /\ orphans' = orphans \cup LeftOf(dialog[u])
  /\ UNCHANGED <<phone, active, state, media, ending, calling, accepting, commands,
                 modifying, history>>

(* onCallTransfer(): a REFER starts a second call.  (Bound: one agent at a time
   has one.) *)
OnCallTransfer(u) ==
  /\ at[u] = "free" /\ dialog[u] = "call"
  /\ \A v \in Agents \ {u} : transfer[v] = "none"
  /\ transfer' = [transfer EXCEPT ![u] = "inviting"]
  /\ UNCHANGED <<phone, active, state, dialog, media, orphans, threads, history>>

(* What becomes of the call of a transfer, while u does "to" about it. *)
Transferred(u, from, becomes, to) ==
  /\ transfer[u] = from
  /\ transfer' = [transfer EXCEPT ![u] = becomes]
  /\ at[u] = "free" /\ at' = [at EXCEPT ![u] = to]
  /\ UNCHANGED <<phone, active, state, dialog, orphans, ending, calling, accepting,
                 commands, modifying>>

(* onCallAccepted() for that call, which finds the agent in the first one, in
   none, or calling somebody else. *)
OnTransferAccepted(u) ==
  /\ \/ /\ state[u] = "outgoing"
        /\ Transferred(u, "inviting", "call", "accepted")
        /\ raced' = TRUE /\ UNCHANGED lost
     \/ /\ state[u] # "outgoing"
        /\ Transferred(u, "inviting", "call", "unwanted")
        /\ UNCHANGED history
  /\ UNCHANGED media

(* onCallRefused() and onCallTimeout() for that call, which they ignore. *)
OnTransferRefused(u) ==
  /\ Transferred(u, "inviting", "over", "free")
  /\ UNCHANGED <<media, history>>

(* onCallClosing() for that call. *)
OnTransferClosing(u) ==
  /\ Transferred(u, "call", "over", "ending")
  /\ media' = [media EXCEPT ![u] = FALSE]
  /\ UNCHANGED history

(* A Call that was replaced comes up after all, or ends: "NOT the current call".
   So is every one that waits for the answer to a BYE: onCallClosed() is never
   called for the current call. *)
Orphan ==
  /\ \/ "opening" \in orphans /\ orphans' = (orphans \ {"opening"}) \cup {"up"}
     \/ \E left \in orphans : orphans' = orphans \ {left}
  /\ UNCHANGED <<phone, state, dialog, media, history>>
  /\ Callback

(* What the network or a timer does to the dialogs of agent u, the transferred
   one too, and what the threads it runs on go on to do. *)
Event(u) ==
  \/ Busy(u) \/ TestPhone(u) \/ AssignAgent(u) \/ ShowIncoming(u) \/ Unanswerable(u)
  \/ LaunchMedia(u)
  \/ OnCallCanceling(u) \/ OnCallConfirmed(u) \/ NeverConfirmed(u) \/ OnCallRinging(u)
  \/ OnCallAccepted(u) \/ ShowAccepted(u) \/ RejectAccepted(u) \/ OnCallRefused(u)
  \/ OnCallModifying(u) \/ OnCallReInviteAccepted(u) \/ ShowReInvited(u)
  \/ OnCallReInviteRefused(u) \/ OnCallTimeout(u) \/ EndCall(u) \/ EndCallback(u)
  \/ OnCallClosing(u) \/ TakeTransferred(u) \/ OnCallTransfer(u)
  \/ OnTransferAccepted(u) \/ OnTransferRefused(u) \/ OnTransferClosing(u)

-----------------------------------------------------------------------------
(* SipdroidEngine.call(): the agent of the account becomes the engine's before
   its call() looks whether the phone is idle. *)
Place(u) ==
  /\ calling[u] = "none" /\ ThreadFree
  /\ active' = u
  /\ \/ /\ phone = "idle"
        /\ calling' = [calling EXCEPT ![u] = "tested"] /\ UNCHANGED history
     \/ /\ phone # "idle" /\ UNCHANGED calling
        /\ raced' = (raced \/ u # active) /\ UNCHANGED lost
  /\ UNCHANGED <<phone, state, dialog, media, transfer, orphans, at, ending, accepting,
                 commands, modifying>>

(* The rest of UserAgent.call(): hangup(), which ends the Call that waits if
   the phone is still idle, *)
CloseFirst(u) ==
  /\ Calls(u, "tested", "closed")
  /\ HangUpCall(u) /\ UNCHANGED history

(* ... and changes the status; *)
ClearFirst(u) ==
  /\ Calls(u, "closed", "cleared")
  /\ BecomeIdle(u)

(* ... show the call, *)
ShowOutgoing(u) ==
  /\ Calls(u, "cleared", "shown")
  /\ Become("outgoing", u)
  /\ raced' = (raced \/ phone # "idle" \/ u # active) /\ UNCHANGED lost

(* ... and invite.  Whatever Call the agent has by now is replaced. *)
Dial(u) ==
  /\ Calls(u, "shown", "none")
  /\ dialog' = [dialog EXCEPT ![u] = "inviting"]
  /\ orphans' = orphans \cup LeftOf(dialog[u])
  /\ UNCHANGED <<phone, state, media, history>>

(* InCallScreen.answer() and reject(), the other screens and the audio threads:
   what the phone shows decides what may be pressed. *)
Press(c) ==
  /\ c \notin commands /\ ThreadFree
  /\ phone \in (IF c = "answer" THEN {"incoming"} ELSE States \ {"idle"})
  /\ commands' = commands \cup {c}
  /\ UNCHANGED <<phone, active, state, dialog, media, transfer, orphans, at, ending, calling,
                 accepting, modifying, history>>

(* SipdroidEngine.answercall(): accept() looks at no state, changes that of the
   agent, *)
Answer ==
  /\ "answer" \in commands /\ active \notin accepting
  /\ commands' = commands \ {"answer"}
  /\ accepting' = accepting \cup {active}
  /\ Become("incall", active)
  /\ raced' = (raced \/ phone # "incoming") /\ UNCHANGED lost
  /\ UNCHANGED <<active, transfer, at, ending, calling, modifying>>

(* ... and answers the INVITE, if the agent still has one. *)
Accept(u) ==
  /\ u \in accepting
  /\ accepting' = accepting \ {u}
  /\ DialogIs(u, IF dialog[u] = "invited" THEN "accepted" ELSE dialog[u])
  /\ UNCHANGED <<active, transfer, at, ending, calling, commands, modifying, history>>

(* SipdroidEngine.rejectcall(), as far as the status. *)
Reject ==
  /\ "reject" \in commands /\ active \notin ending
  /\ commands' = commands \ {"reject"}
  /\ ending' = ending \cup {active}
  /\ HangUpCall(active) /\ Late
  /\ UNCHANGED <<active, transfer, at, calling, accepting, modifying>>

(* SipdroidEngine.togglehold(): reInvite() starts a thread for this agent ... *)
ToggleHold ==
  /\ phone \in {"incall", "hold"} /\ ThreadFree
  /\ modifying' = modifying \cup {active}
  /\ UNCHANGED <<phone, active, state, dialog, media, transfer, orphans, at, ending, calling,
                 accepting, commands, history>>

(* ... which modifies the call if there is one: runReInvite(). *)
RunReInvite(u) ==
  /\ u \in modifying
  /\ modifying' = modifying \ {u}
  /\ DialogIs(u, IF dialog[u] = "call" THEN "reinviting" ELSE dialog[u])
  /\ UNCHANGED <<active, transfer, at, ending, calling, accepting, commands, history>>

Next ==
  \/ \E u \in Agents :
       \/ Event(u)
       \/ Place(u) \/ CloseFirst(u) \/ ClearFirst(u) \/ ShowOutgoing(u) \/ Dial(u)
       \/ Accept(u) \/ RunReInvite(u)
  \/ \E c \in {"answer", "reject"} : Press(c)
  \/ Answer \/ Reject \/ ToggleHold \/ Orphan

Spec == Init /\ [][Next]_vars

-----------------------------------------------------------------------------
(* The phone shows the state of the agent that gets the user's commands, and
   no other account is in a call, unless a thread came too late. *)
PhoneShowsAgent ==
  ~raced => /\ phone = state[active]
            /\ \A u \in Agents \ {active} : state[u] = "idle" /\ ~media[u]

(* A phone that is idle has agents that are, whatever overtook what.  Unless a
   thread came too late it plays no audio, and waits for calls on every account
   except where it is just being called or about to call. *)
IdleListens ==
  phone = "idle" =>
    /\ \A u \in Agents : state[u] = "idle"
    /\ ~raced => \A u \in Agents :
         /\ ~media[u]
         /\ \/ dialog[u] = "waiting"
            \/ at[u] \in {"tested", "assigned"} /\ dialog[u] = "invited"
            \/ calling[u] \in {"closed", "cleared"}

(* A thread is about to tell the phone that the call of u is no more. *)
Ends(u) == at[u] = "ending" \/ u \in ending \/ calling[u] = "closed"

(* What the phone shows is what its dialog is in: it rings for an INVITE that
   can be answered, and a call it shows is one that the dialog still has, unless
   the call ended without telling its agent, or a thread is about to. *)
ShownCallExists ==
  ~raced /\ ~lost /\ ~Ends(active) =>
    /\ phone = "incoming" => dialog[active] = "invited"
    /\ phone = "outgoing" =>
         \/ dialog[active] = "inviting" \/ calling[active] = "shown"
         \/ dialog[active] \in Up /\ at[active] = "accepted"
    /\ phone \in {"incall", "hold"} =>
         \/ dialog[active] \in Up
         \/ dialog[active] = "invited" /\ active \in accepting

(* Whatever happens to the dialogs of other accounts, a second call above all,
   and however far their threads are, it changes nothing of the call that the
   phone is in, nor does another call set out to.  Only two kinds of it may: a
   callback that found the phone idle before this call was shown, and a transfer
   of the other account that outlived the call it was asked in. *)
CallUndisturbed ==
  [][\A u \in Agents \ {active} :
       Event(u) /\ ~raced /\ phone # "idle" /\ at[u] \notin {"tested", "assigned"}
         /\ transfer[u] = "none" =>
         /\ UNCHANGED <<phone, active>>
         /\ state'[active] = state[active] /\ dialog'[active] = dialog[active]
         /\ media'[active] = media[active]
         /\ at'[u] \notin {"tested", "assigned"}]_vars

(* UserAgent.java:361 says of hangup() that it closes an ongoing, incoming or
   pending call: no call is up that its agent no longer knows. *)
NoCallLeftBehind == "up" \notin orphans

=============================================================================
