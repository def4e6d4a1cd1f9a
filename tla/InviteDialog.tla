---------------------------- MODULE InviteDialog ----------------------------
(***************************************************************************)
(* One SIP call between two instances of org.zoolu.sip.dialog.InviteDialog *)
(* with the transactions each of them creates, over a network that loses,  *)
(* delays and reorders messages (and duplicates them through the           *)
(* retransmission timers).                                                 *)
(*                                                                         *)
(* Every request of a party is named by its CSeq number: 1 is the INVITE   *)
(* that opens the call, each re-INVITE or BYE takes the next one, CANCEL   *)
(* and ACK repeat the number of their INVITE.  The number therefore names  *)
(* the transaction too.                                                    *)
(*                                                                         *)
(* A handler runs to completion: messages are handled on one receive       *)
(* thread and the windows between it and the timer thread are the subject  *)
(* of Timer and TransactionClient.  When a timer expires is abstracted: it *)
(* may expire whenever it is running.                                      *)
(***************************************************************************)
EXTENDS Naturals, FiniteSets

CONSTANTS
  Caller, Callee,      \* the two parties
  CallerRequests,      \* bounds: how many requests (INVITE, re-INVITE, BYE)
  CalleeRequests,      \*   each party may send in the call
  MaxInFlight,         \* bound: messages in the network at a time
  ReInviters,          \* the parties whose user may ask for a re-INVITE
  ProxyRejects         \* may a proxy on the path answer a BYE itself?

Peers == {Caller, Callee}
Budget(p) == IF p = Caller THEN CallerRequests ELSE CalleeRequests
MaxCSeq == IF CallerRequests > CalleeRequests THEN CallerRequests ELSE CalleeRequests
CSeqs == 1..MaxCSeq

ASSUME PeersAssumption == Caller # Callee
ASSUME BoundAssumption ==
  CallerRequests \in Nat \ {0} /\ CalleeRequests \in Nat /\ MaxInFlight \in Nat \ {0}
ASSUME FlagsAssumption == ReInviters \subseteq Peers /\ ProxyRejects \in BOOLEAN

Other(p) == IF p = Caller THEN Callee ELSE Caller

VARIABLES
  status,              \* Dialog.status of each party
  cseq,                \* local_cseq: number of the last request sent, 0 for none
  remote,              \* remote_cseq: number of the last INVITE received, or 0
  listening,           \* is the InviteTransactionServer of listen() waiting?
  invite_ts,           \* number of the INVITE the field invite_ts serves, or 0
  ack_ts,              \* number of the INVITE the field ack_ts answers, or 0
  ack_req,             \* number of the INVITE the field ack_req acknowledges, or 0
  itc,                 \* InviteTransactionClients, by party and number
  btc,                 \* TransactionClients of BYE requests
  ctc,                 \* numbers whose CANCEL TransactionClient still retransmits
  its,                 \* InviteTransactionServers, by party and number of the peer
  bts,                 \* numbers of the peer whose BYE has a TransactionServer
  cts,                 \* numbers of the peer whose CANCEL has a TransactionServer
  ats,                 \* numbers of the peer whose AckTransactionServer is running
  net                  \* messages in flight

fields == <<cseq, remote, listening, invite_ts, ack_ts, ack_req>>
clients == <<itc, btc, ctc>>
servers == <<its, bts, cts, ats>>
vars == <<status, fields, clients, servers, net>>

Statuses ==
  {"INIT", "WAITING", "INVITING", "INVITED", "REFUSED", "ACCEPTED", "CALL",
   "ReINVITING", "ReINVITED", "ReREFUSED", "ReACCEPTED", "BYEING", "CLOSE"}

Messages ==
  [method : {"INVITE", "ACK", "ACKN", "CANCEL", "BYE"},
   code : {"req", "1xx", "2xx", "fail"}, from : Peers, n : CSeqs]

(* "ACK" acknowledges a 2xx and has a branch of its own, "ACKN" any other
   final response and has the branch of its INVITE. *)
Req(m, p, n)     == [method |-> m, code |-> "req", from |-> p, n |-> n]
Resp(m, p, n, c) == [method |-> m, code |-> c, from |-> p, n |-> n]

TypeOK ==
  /\ status    \in [Peers -> Statuses]
  /\ cseq      \in [Peers -> 0..MaxCSeq]
  /\ remote    \in [Peers -> 0..MaxCSeq]
  /\ listening \in [Peers -> BOOLEAN]
  /\ invite_ts \in [Peers -> 0..MaxCSeq]
  /\ ack_ts    \in [Peers -> 0..MaxCSeq]
  /\ ack_req   \in [Peers -> 0..MaxCSeq]
  /\ itc \in [Peers -> [CSeqs -> {"none", "trying", "proceeding", "completed", "terminated"}]]
  /\ btc \in [Peers -> [CSeqs -> {"none", "trying", "completed", "terminated"}]]
  /\ ctc \in [Peers -> SUBSET CSeqs]
  /\ its \in [Peers -> [CSeqs -> {"none", "proceeding", "completed", "confirmed",
                                  "accepted", "terminated"}]]
  /\ bts \in [Peers -> SUBSET CSeqs]
  /\ cts \in [Peers -> SUBSET CSeqs]
  /\ ats \in [Peers -> SUBSET CSeqs]
  /\ net \subseteq Messages

Init ==
  /\ status    = [p \in Peers |-> "INIT"]
  /\ cseq      = [p \in Peers |-> 0]
  /\ remote    = [p \in Peers |-> 0]
  /\ listening = [p \in Peers |-> FALSE]
  /\ invite_ts = [p \in Peers |-> 0]
  /\ ack_ts    = [p \in Peers |-> 0]
  /\ ack_req   = [p \in Peers |-> 0]
  /\ itc = [p \in Peers |-> [n \in CSeqs |-> "none"]]
  /\ btc = [p \in Peers |-> [n \in CSeqs |-> "none"]]
  /\ ctc = [p \in Peers |-> {}]
  /\ its = [p \in Peers |-> [n \in CSeqs |-> "none"]]
  /\ bts = [p \in Peers |-> {}]
  /\ cts = [p \in Peers |-> {}]
  /\ ats = [p \in Peers |-> {}]
  /\ net = {}

Invited(p)  == status[p] \in {"INVITED", "ReINVITED"}
Inviting(p) == status[p] \in {"INVITING", "ReINVITING"}
Answered(p) == status[p] \in {"ACCEPTED", "ReACCEPTED"}

(* The dialog is in the listener table of its SipProvider from the first
   update() of its identifier until changeStatus(D_CLOSE) takes it out. *)
Registered(p) == status[p] \notin {"INIT", "WAITING", "CLOSE"}

(* Only the INVITE that opens the call has no To tag. *)
OpensDialog(p, n) == p = Caller /\ n = 1

To(p, s)  == status' = [status EXCEPT ![p] = s]

(* A message sent while MaxInFlight others are on their way is lost.  Since any
   of those may be lost first, the bound loses no order of events among the
   messages that do arrive. *)
Carry(msgs, out) == IF Cardinality(msgs \cup out) <= MaxInFlight THEN msgs \cup out ELSE msgs
Put(out)         == net' = Carry(net, out)
Take(m, out)     == m \in net /\ net' = Carry(net \ {m}, out)

-----------------------------------------------------------------------------
(* The calls of the user of each dialog. *)

(* listen(): waits for an INVITE with a new InviteTransactionServer. *)
Listen(p) ==
  /\ p = Callee /\ status[p] = "INIT"
  /\ To(p, "WAITING")
  /\ listening' = [listening EXCEPT ![p] = TRUE]
  /\ UNCHANGED <<cseq, remote, invite_ts, ack_ts, ack_req, clients, servers, net>>

(* invite() opens the call, reInvite() modifies it; both number the request,
   remember it and start an InviteTransactionClient.  (An answer to an older
   INVITE sets local_cseq back; a number that is then used again is left out.) *)
SendInvite(p, from, to) ==
  LET n == cseq[p] + 1 IN
  /\ status[p] = from
  /\ n \in 1..Budget(p) /\ itc[p][n] = "none" /\ btc[p][n] = "none"
  /\ To(p, to)
  /\ cseq' = [cseq EXCEPT ![p] = n]
  /\ itc' = [itc EXCEPT ![p][n] = "trying"]
  /\ Put({Req("INVITE", p, n)})
  /\ UNCHANGED <<remote, listening, invite_ts, ack_ts, ack_req, btc, ctc, servers>>

Invite(p)   == p = Caller /\ SendInvite(p, "INIT", "INVITING")
ReInvite(p) == p \in ReInviters /\ SendInvite(p, "CALL", "ReINVITING")

(* respond(1xx): ring(). *)
Ring(p) ==
  /\ Invited(p)
  /\ its[p][invite_ts[p]] = "proceeding"
  /\ Put({Resp("INVITE", p, invite_ts[p], "1xx")})
  /\ UNCHANGED <<status, fields, clients, servers>>

(* Faulty variant of Accept: the field ack_ts keeps the first answer. *)
AcceptKeepingAckTs(p) ==
  LET n == invite_ts[p] IN
  /\ Invited(p)
  /\ To(p, IF status[p] = "INVITED" THEN "ACCEPTED" ELSE "ReACCEPTED")
  /\ its' = [its EXCEPT ![p][n] = "accepted"]
  /\ ats' = [ats EXCEPT ![p] = @ \cup {n}]
  /\ ack_ts' = [ack_ts EXCEPT ![p] = IF @ = 0 THEN n ELSE @]
  /\ Put({Resp("INVITE", p, n, "2xx")})
  /\ UNCHANGED <<cseq, remote, listening, invite_ts, ack_req, clients, bts, cts>>

(* respond(2xx): accept().  The InviteTransactionServer ends and an
   AckTransactionServer repeats the answer until the ACK. *)
Accept(p) ==
  LET n == invite_ts[p] IN
  /\ Invited(p)
  /\ To(p, IF status[p] = "INVITED" THEN "ACCEPTED" ELSE "ReACCEPTED")
  /\ its' = [its EXCEPT ![p][n] = "accepted"]
  /\ ats' = [ats EXCEPT ![p] = @ \cup {n}]
  /\ ack_ts' = [ack_ts EXCEPT ![p] = n]
  /\ Put({Resp("INVITE", p, n, "2xx")})
  /\ UNCHANGED <<cseq, remote, listening, invite_ts, ack_req, clients, bts, cts>>

(* respond(300-699): what refuse(), busy(), redirect() and an incoming CANCEL
   do to the dialog and to its InviteTransactionServer. *)
RespondFailure(p) ==
  LET n == invite_ts[p] IN
  /\ Invited(p)
  /\ To(p, IF status[p] = "INVITED" THEN "REFUSED" ELSE "ReREFUSED")
  /\ its' = [its EXCEPT ![p][n] = "completed"]

Refuse(p) ==
  /\ RespondFailure(p)
  /\ Put({Resp("INVITE", p, invite_ts[p], "fail")})
  /\ UNCHANGED <<fields, clients, bts, cts, ats>>

(* Faulty variant of Cancel: the CANCEL takes the next number. *)
CancelNextNumber(p) ==
  /\ Inviting(p)
  /\ ctc' = [ctc EXCEPT ![p] = @ \cup {cseq[p] + 1}]
  /\ Put({Req("CANCEL", p, cseq[p] + 1)})
  /\ UNCHANGED <<status, fields, itc, btc, servers>>

(* cancel() of an outgoing request: the status does not change, and the
   TransactionClient of the CANCEL has no listener. *)
Cancel(p) ==
  /\ Inviting(p)
  /\ ctc' = [ctc EXCEPT ![p] = @ \cup {cseq[p]}]
  /\ Put({Req("CANCEL", p, cseq[p])})
  /\ UNCHANGED <<status, fields, itc, btc, servers>>

(* cancel() of a listening dialog: the transaction stops listening. *)
CancelListening(p) ==
  /\ status[p] = "WAITING" /\ listening[p]
  /\ listening' = [listening EXCEPT ![p] = FALSE]
  /\ UNCHANGED <<status, cseq, remote, invite_ts, ack_ts, ack_req, clients, servers, net>>

(* bye(): only in D_CALL. *)
Bye(p) ==
  LET n == cseq[p] + 1 IN
  /\ status[p] = "CALL"
  /\ n \in 1..Budget(p) /\ itc[p][n] = "none" /\ btc[p][n] = "none"
  /\ To(p, "BYEING")
  /\ cseq' = [cseq EXCEPT ![p] = n]
  /\ btc' = [btc EXCEPT ![p][n] = "trying"]
  /\ Put({Req("BYE", p, n)})
  /\ UNCHANGED <<remote, listening, invite_ts, ack_ts, ack_req, itc, ctc, servers>>

-----------------------------------------------------------------------------
(* Messages.  SipProvider looks for the transaction of a message first, then
   for its dialog, then for the listener of its method.  A message that no
   listener takes, or from whose handler the code returns without an effect,
   leaves the network as a lost one does: that step is Lose. *)
Lose(m) ==
  /\ Take(m, {})
  /\ UNCHANGED <<status, fields, clients, servers>>

(* An INVITE that was seen before: the transaction repeats its last response. *)
InviteAgain(m) ==
  LET p == Other(m.from) IN
  /\ m.method = "INVITE" /\ m.code = "req"
  /\ its[p][m.n] \in {"proceeding", "completed"}
  /\ Take(m, {Resp("INVITE", p, m.n,
                   IF its[p][m.n] = "proceeding" THEN "1xx" ELSE "fail")})
  /\ UNCHANGED <<status, fields, clients, servers>>

(* An INVITE that no live transaction takes: a new InviteTransactionServer
   answers 100 at once, and the dialog moves to status s. *)
NewInvite(m, s) ==
  LET p == Other(m.from) IN
  /\ m.method = "INVITE" /\ m.code = "req"
  /\ its[p][m.n] \notin {"proceeding", "completed", "confirmed"}
  /\ To(p, s)
  /\ remote' = [remote EXCEPT ![p] = m.n]
  /\ invite_ts' = [invite_ts EXCEPT ![p] = m.n]
  /\ its' = [its EXCEPT ![p][m.n] = "proceeding"]
  /\ Take(m, {Resp("INVITE", p, m.n, "1xx")})
  /\ UNCHANGED <<cseq, ack_ts, ack_req, clients, bts, cts, ats>>

(* ... taken by the waiting transaction of listen() (onTransRequest) *)
InviteToListener(m) ==
  LET p == Other(m.from) IN
  /\ OpensDialog(m.from, m.n) /\ listening[p] /\ status[p] = "WAITING"
  /\ NewInvite(m, "INVITED")
  /\ listening' = [listening EXCEPT ![p] = FALSE]

(* Faulty variant of InviteToDialog: the CSeq is not checked. *)
InviteToDialogUnchecked(m) ==
  LET p == Other(m.from) IN
  /\ ~OpensDialog(m.from, m.n) /\ Registered(p)
  /\ NewInvite(m, "ReINVITED")
  /\ UNCHANGED listening

(* ... or, inside the call, by the dialog itself.  It checks the CSeq; that it
   is in D_CALL is verified but the result is not used, so that the INVITE
   replaces invite_ts and the status whatever the dialog is doing. *)
InviteToDialog(m) ==
  LET p == Other(m.from) IN
  /\ ~OpensDialog(m.from, m.n) /\ Registered(p)
  /\ m.n > remote[p]
  /\ NewInvite(m, "ReINVITED")
  /\ UNCHANGED listening

(* A response taken by a live InviteTransactionClient.  A provisional one stops
   the retransmissions and the transaction timeout. *)
InviteProvisional(m) ==
  LET p == Other(m.from) IN
  /\ m.method = "INVITE" /\ m.code = "1xx"
  /\ itc[p][m.n] = "trying"
  /\ itc' = [itc EXCEPT ![p][m.n] = "proceeding"]
  /\ Take(m, {})
  /\ UNCHANGED <<status, fields, btc, ctc, servers>>

(* Faulty variant of InviteSuccess: any code below 300 is a success. *)
InviteSuccessBelow300(m) ==
  LET p == Other(m.from) IN
  /\ m.method = "INVITE" /\ m.code \in {"1xx", "2xx"}
  /\ itc[p][m.n] \in {"trying", "proceeding"}
  /\ itc' = [itc EXCEPT ![p][m.n] = "terminated"]
  /\ Inviting(p)
  /\ To(p, "CALL")
  /\ cseq' = [cseq EXCEPT ![p] = m.n]
  /\ ack_req' = [ack_req EXCEPT ![p] = m.n]
  /\ Take(m, {Req("ACK", p, m.n)})
  /\ UNCHANGED <<remote, listening, invite_ts, ack_ts, btc, ctc, servers>>

(* Faulty variant of InviteSuccess: the status is not looked at. *)
InviteSuccessAnyStatus(m) ==
  LET p == Other(m.from) IN
  /\ m.method = "INVITE" /\ m.code = "2xx"
  /\ itc[p][m.n] \in {"trying", "proceeding"}
  /\ itc' = [itc EXCEPT ![p][m.n] = "terminated"]
  /\ To(p, "CALL")
  /\ cseq' = [cseq EXCEPT ![p] = m.n]
  /\ ack_req' = [ack_req EXCEPT ![p] = m.n]
  /\ Take(m, {Req("ACK", p, m.n)})
  /\ UNCHANGED <<remote, listening, invite_ts, ack_ts, btc, ctc, servers>>

(* onTransSuccessResponse(INVITE): the dialog enters the call and acknowledges,
   but only if it is (re-)inviting; which INVITE succeeded is not looked at. *)
InviteSuccess(m) ==
  LET p == Other(m.from) IN
  /\ m.method = "INVITE" /\ m.code = "2xx"
  /\ itc[p][m.n] \in {"trying", "proceeding"}
  /\ itc' = [itc EXCEPT ![p][m.n] = "terminated"]
  /\ IF Inviting(p)
       THEN /\ To(p, "CALL")
            /\ cseq' = [cseq EXCEPT ![p] = m.n]
            /\ ack_req' = [ack_req EXCEPT ![p] = m.n]
            /\ Take(m, {Req("ACK", p, m.n)})
       ELSE Take(m, {}) /\ UNCHANGED <<status, cseq, ack_req>>
  /\ UNCHANGED <<remote, listening, invite_ts, ack_ts, btc, ctc, servers>>

(* Faulty variant of InviteFailure: a refused re-INVITE is forgotten. *)
InviteFailureOpeningOnly(m) ==
  LET p == Other(m.from) IN
  /\ m.method = "INVITE" /\ m.code = "fail"
  /\ itc[p][m.n] \in {"trying", "proceeding"}
  /\ itc' = [itc EXCEPT ![p][m.n] = "completed"]
  /\ Take(m, {Req("ACKN", p, m.n)})
  /\ status' = [status EXCEPT ![p] = IF @ = "INVITING" THEN "CLOSE" ELSE @]
  /\ UNCHANGED <<fields, btc, ctc, servers>>

(* onTransFailureResponse(INVITE): a refused re-INVITE leaves the call up. *)
InviteFailure(m) ==
  LET p == Other(m.from) IN
  /\ m.method = "INVITE" /\ m.code = "fail"
  /\ itc[p][m.n] \in {"trying", "proceeding"}
  /\ itc' = [itc EXCEPT ![p][m.n] = "completed"]
  /\ Take(m, {Req("ACKN", p, m.n)})
  /\ CASE status[p] = "ReINVITING" -> To(p, "CALL")
       [] status[p] = "INVITING"   -> To(p, "CLOSE")
       [] OTHER                    -> UNCHANGED status
  /\ UNCHANGED <<fields, btc, ctc, servers>>

(* A failure repeated to a completed InviteTransactionClient. *)
InviteFailureAgain(m) ==
  LET p == Other(m.from) IN
  /\ m.method = "INVITE" /\ m.code = "fail"
  /\ itc[p][m.n] = "completed"
  /\ Take(m, {Req("ACKN", p, m.n)})
  /\ UNCHANGED <<status, fields, clients, servers>>

(* A response whose transaction is over comes to the dialog, which repeats the
   last ACK it sent, whatever the response says.  (That the client of a BYE or a
   CANCEL absorbs a response until its clearing timeout is a case of Lose.) *)
ResponseToDialog(m) ==
  LET p == Other(m.from) IN
  /\ m.code # "req"
  /\ \/ m.method = "INVITE" /\ itc[p][m.n] = "terminated"
     \/ m.method = "BYE"    /\ btc[p][m.n] # "trying"
     \/ m.method = "CANCEL" /\ m.n \notin ctc[p] /\ ~OpensDialog(p, m.n)
  /\ status[p] = "CALL" /\ ack_req[p] # 0
  /\ Take(m, {Req("ACK", p, ack_req[p])})
  /\ UNCHANGED <<status, fields, clients, servers>>

(* Faulty variant of AckToDialog: the status is not looked at. *)
AckToDialogAnyStatus(m) ==
  LET p == Other(m.from) IN
  /\ m.method = "ACK"
  /\ To(p, "CALL")
  /\ ats' = [ats EXCEPT ![p] = @ \ {ack_ts[p]}]
  /\ Take(m, {})
  /\ UNCHANGED <<fields, clients, its, bts, cts>>

(* An ACK that no transaction takes: the dialog does not look at its CSeq. *)
AckToDialog(m) ==
  LET p == Other(m.from) IN
  /\ \/ m.method = "ACK"
     \/ /\ m.method = "ACKN" /\ its[p][m.n] = "terminated"
        /\ ~OpensDialog(m.from, m.n)
  /\ Answered(p)
  /\ To(p, "CALL")
  /\ ats' = [ats EXCEPT ![p] = @ \ {ack_ts[p]}]
  /\ Take(m, {})
  /\ UNCHANGED <<fields, clients, its, bts, cts>>

(* The ACK of a failure confirms its transaction (onTransFailureAck). *)
FailureAck(m) ==
  LET p == Other(m.from) IN
  /\ m.method = "ACKN" /\ its[p][m.n] = "completed"
  /\ its' = [its EXCEPT ![p][m.n] = "confirmed"]
  /\ Take(m, {})
  /\ CASE status[p] = "ReREFUSED" -> To(p, "CALL")
       [] status[p] = "REFUSED"   -> To(p, "CLOSE")
       [] OTHER                   -> UNCHANGED status
  /\ UNCHANGED <<fields, clients, bts, cts, ats>>

(* A CANCEL: of an INVITE that is not answered yet, whichever it is, the dialog
   answers 487; without a To tag it only finds a dialog that has none. *)
CancelToDialog(m) ==
  LET p == Other(m.from) IN
  /\ m.method = "CANCEL" /\ m.code = "req"
  /\ m.n \notin cts[p]
  /\ OpensDialog(m.from, m.n) => status[p] = "INVITED"
  /\ RespondFailure(p)
  /\ cts' = [cts EXCEPT ![p] = @ \cup {m.n}]
  /\ Take(m, {Resp("CANCEL", p, m.n, "2xx"), Resp("INVITE", p, invite_ts[p], "fail")})
  /\ UNCHANGED <<fields, clients, bts, ats>>

CancelAgain(m) ==
  LET p == Other(m.from) IN
  /\ m.method = "CANCEL" /\ m.code = "req"
  /\ m.n \in cts[p]
  /\ Take(m, {Resp("CANCEL", p, m.n, "2xx")})
  /\ UNCHANGED <<status, fields, clients, servers>>

CancelResponse(m) ==
  LET p == Other(m.from) IN
  /\ m.method = "CANCEL" /\ m.code # "req"
  /\ m.n \in ctc[p]
  /\ ctc' = [ctc EXCEPT ![p] = @ \ {m.n}]
  /\ Take(m, {})
  /\ UNCHANGED <<status, fields, itc, btc, servers>>

(* A BYE: taken in D_CALL and D_BYEING only, and not answered otherwise. *)
ByeToDialog(m) ==
  LET p == Other(m.from) IN
  /\ m.method = "BYE" /\ m.code = "req"
  /\ m.n \notin bts[p] /\ m.n > remote[p]
  /\ status[p] \in {"CALL", "BYEING"}
  /\ To(p, "CLOSE")
  /\ bts' = [bts EXCEPT ![p] = @ \cup {m.n}]
  /\ Take(m, {Resp("BYE", p, m.n, "2xx")})
  /\ UNCHANGED <<fields, clients, its, cts, ats>>

ByeAgain(m) ==
  LET p == Other(m.from) IN
  /\ m.method = "BYE" /\ m.code = "req"
  /\ m.n \in bts[p]
  /\ Take(m, {Resp("BYE", p, m.n, "2xx")})
  /\ UNCHANGED <<status, fields, clients, servers>>

(* Faulty variant of ByeResponse: a failure has no effect. *)
ByeResponseSuccessOnly(m) ==
  LET p == Other(m.from) IN
  /\ m.method = "BYE" /\ m.code # "req"
  /\ btc[p][m.n] = "trying"
  /\ btc' = [btc EXCEPT ![p][m.n] = "completed"]
  /\ IF status[p] = "BYEING" /\ m.code = "2xx" THEN To(p, "CLOSE") ELSE UNCHANGED status
  /\ Take(m, {})
  /\ UNCHANGED <<fields, itc, ctc, servers>>

(* onTransSuccessResponse(BYE) closes the dialog; onTransFailureResponse(BYE)
   puts it back into the call. *)
ByeResponse(m) ==
  LET p == Other(m.from) IN
  /\ m.method = "BYE" /\ m.code # "req"
  /\ btc[p][m.n] = "trying"
  /\ btc' = [btc EXCEPT ![p][m.n] = "completed"]
  /\ IF status[p] = "BYEING"
       THEN To(p, IF m.code = "fail" THEN "CALL" ELSE "CLOSE")
       ELSE UNCHANGED status
  /\ Take(m, {})
  /\ UNCHANGED <<fields, itc, ctc, servers>>

(* A proxy on the path answers a BYE it cannot forward with a failure. *)
ProxyReject(m) ==
  /\ ProxyRejects
  /\ m.method = "BYE" /\ m.code = "req"
  /\ Take(m, {Resp(m.method, Other(m.from), m.n, "fail")})
  /\ UNCHANGED <<status, fields, clients, servers>>

Receive(m) ==
  \/ InviteAgain(m) \/ InviteToListener(m) \/ InviteToDialog(m)
  \/ InviteProvisional(m) \/ InviteSuccess(m) \/ InviteFailure(m)
  \/ InviteFailureAgain(m) \/ ResponseToDialog(m)
  \/ AckToDialog(m) \/ FailureAck(m)
  \/ CancelToDialog(m) \/ CancelAgain(m) \/ CancelResponse(m)
  \/ ByeToDialog(m) \/ ByeAgain(m) \/ ByeResponse(m)

-----------------------------------------------------------------------------
(* Timers. *)

(* The retransmission timers put a message back into the network. *)
Retransmit(p, n) ==
  /\ \/ itc[p][n] = "trying"    /\ Put({Req("INVITE", p, n)})
     \/ btc[p][n] = "trying"    /\ Put({Req("BYE", p, n)})
     \/ n \in ctc[p]            /\ Put({Req("CANCEL", p, n)})
     \/ its[p][n] = "completed" /\ Put({Resp("INVITE", p, n, "fail")})
     \/ n \in ats[p]            /\ Put({Resp("INVITE", p, n, "2xx")})
  /\ UNCHANGED <<status, fields, clients, servers>>

(* transaction_to of an INVITE (onTransTimeout): the dialog cancels and closes. *)
InviteTimeout(p, n) ==
  /\ itc[p][n] = "trying"
  /\ itc' = [itc EXCEPT ![p][n] = "terminated"]
  /\ IF Inviting(p)
       THEN /\ To(p, "CLOSE")
            /\ ctc' = [ctc EXCEPT ![p] = @ \cup {cseq[p]}]
            /\ Put({Req("CANCEL", p, cseq[p])})
       ELSE UNCHANGED <<status, ctc, net>>
  /\ UNCHANGED <<fields, btc, servers>>

(* Faulty variant of ByeTimeout: the listener is dropped, not called. *)
ByeTimeoutSilent(p, n) ==
  /\ btc[p][n] = "trying"
  /\ btc' = [btc EXCEPT ![p][n] = "terminated"]
  /\ UNCHANGED <<status, fields, itc, ctc, servers, net>>

(* transaction_to of a BYE. *)
ByeTimeout(p, n) ==
  /\ btc[p][n] = "trying"
  /\ btc' = [btc EXCEPT ![p][n] = "terminated"]
  /\ IF status[p] = "BYEING" THEN To(p, "CLOSE") ELSE UNCHANGED status
  /\ UNCHANGED <<fields, itc, ctc, servers, net>>

(* transaction_to of a CANCEL: nobody listens. *)
CancelTimeout(p, n) ==
  /\ n \in ctc[p]
  /\ ctc' = [ctc EXCEPT ![p] = @ \ {n}]
  /\ UNCHANGED <<status, fields, itc, btc, servers, net>>

(* end_to of an InviteTransactionServer: the ACK of a failure did not come;
   clearing_to: it came long ago.  The listener is dropped, not called. *)
EndTimeout(p, n) ==
  /\ its[p][n] \in {"completed", "confirmed"}
  /\ its' = [its EXCEPT ![p][n] = "terminated"]
  /\ UNCHANGED <<status, fields, clients, bts, cts, ats, net>>

(* end_to of an InviteTransactionClient that was refused. *)
ClientEndTimeout(p, n) ==
  /\ itc[p][n] = "completed"
  /\ itc' = [itc EXCEPT ![p][n] = "terminated"]
  /\ UNCHANGED <<status, fields, btc, ctc, servers, net>>

(* Faulty variant of AckTimeout: the listener is dropped, not called. *)
AckTimeoutSilent(p, n) ==
  /\ n \in ats[p]
  /\ ats' = [ats EXCEPT ![p] = @ \ {n}]
  /\ UNCHANGED <<status, fields, clients, its, bts, cts, net>>

(* transaction_to of an AckTransactionServer (onTransAckTimeout). *)
AckTimeout(p, n) ==
  /\ n \in ats[p]
  /\ ats' = [ats EXCEPT ![p] = @ \ {n}]
  /\ IF Answered(p) \/ status[p] \in {"REFUSED", "ReREFUSED"}
       THEN To(p, "CLOSE") ELSE UNCHANGED status
  /\ UNCHANGED <<fields, clients, its, bts, cts, net>>

Timeout(p, n) ==
  \/ InviteTimeout(p, n) \/ ByeTimeout(p, n) \/ CancelTimeout(p, n)
  \/ EndTimeout(p, n) \/ ClientEndTimeout(p, n) \/ AckTimeout(p, n)

-----------------------------------------------------------------------------
User(p) ==
  \/ Listen(p) \/ Invite(p) \/ ReInvite(p) \/ Ring(p) \/ Accept(p)
  \/ Refuse(p) \/ Cancel(p) \/ CancelListening(p) \/ Bye(p)

Next ==
  \/ \E p \in Peers : User(p)
  \/ \E m \in net : Receive(m) \/ ProxyReject(m) \/ Lose(m)
  \/ \E p \in Peers, n \in CSeqs : Retransmit(p, n) \/ Timeout(p, n)

(* A running transaction timer expires.  Nothing obliges a user to act or the
   network to deliver. *)
Fairness ==
  \A p \in Peers, n \in CSeqs :
    /\ WF_vars(InviteTimeout(p, n)) /\ WF_vars(ByeTimeout(p, n))
    /\ WF_vars(EndTimeout(p, n))    /\ WF_vars(AckTimeout(p, n))

Spec == Init /\ [][Next]_vars /\ Fairness

-----------------------------------------------------------------------------
(* A closed dialog stays closed: no late INVITE, response, ACK or timeout of a
   transaction it left behind brings it back (onDlgClose is the last event the
   user hears of it). *)
CloseIsFinal ==
  [][\A p \in Peers : status[p] = "CLOSE" => status'[p] = "CLOSE"]_status

(* While the dialog waits for the ACK of its answer, the AckTransactionServer
   of that very answer is alive: the wait has an end. *)
AnswerIsRepeated ==
  \A p \in Peers : Answered(p) => ack_ts[p] \in ats[p]

(* While the dialog waits for the answer to its INVITE, the transaction of that
   very INVITE can still report one. *)
InviteIsPending ==
  \A p \in Peers : Inviting(p) => itc[p][cseq[p]] \in {"trying", "proceeding"}

(* While the dialog waits for the answer to its BYE, that BYE has a running
   transaction. *)
ByeIsPending ==
  \A p \in Peers : status[p] = "BYEING" => btc[p][cseq[p]] = "trying"

(* An INVITE is offered to the user at most once and never out of order, for
   all the copies the network delivers. *)
InviteOfferedOnce ==
  [][\A p \in Peers, n \in CSeqs :
       (its'[p][n] = "proceeding" /\ its[p][n] # "proceeding")
         => its[p][n] = "none" /\ n > invite_ts[p]]_its

(* The dialog leaves its wait for the call only on the answer of the peer's
   user to an INVITE that was unanswered until then: accepted if it opens the
   call, accepted or refused inside it.  (Which of its INVITEs that is the code
   does not check: with a re-INVITE overtaken by one of the peer it can be an
   older one.) *)
CallNeedsAnswer ==
  [][\A p \in Peers : (Inviting(p) /\ status'[p] = "CALL") =>
       \E n \in CSeqs :
         /\ itc[p][n] \in {"trying", "proceeding"}
         /\ itc'[p][n] \in {"completed", "terminated"}
         /\ its[Other(p)][n] \in
              IF status[p] = "INVITING" THEN {"accepted"}
              ELSE {"accepted", "completed", "confirmed", "terminated"}]_vars

(* The call as its users see it.  A dialog that modifies the call or says BYE
   is up. *)
CallerPhase ==
  CASE status[Caller] = "INIT"     -> "idle"
    [] status[Caller] = "INVITING" -> "setup"
    [] status[Caller] = "CLOSE"    -> "over"
    [] OTHER                       -> "up"

CalleePhase ==
  CASE status[Callee] \in {"INIT", "WAITING"} -> "idle"
    [] status[Callee] = "INVITED"  -> "setup"
    [] status[Callee] = "ACCEPTED" -> "accepted"
    [] status[Callee] = "REFUSED"  -> "refused"
    [] status[Callee] = "CLOSE"    -> "over"
    [] OTHER                       -> "up"

Agreement == INSTANCE CallAgreement WITH
  caller <- CallerPhase, callee <- CalleePhase,
  accepted <- its[Callee][1] = "accepted", joined <- ack_req[Caller] # 0

(* The two dialogs, over their lossy network, keep the promise of
   CallAgreement: no order of messages, CANCELs, BYEs, re-INVITEs and timeouts
   puts a party into a call the other has not agreed to. *)
AgreementKept == Agreement!Spec

(* The handshake of an accepted INVITE ends: with the ACK, with the timeout of
   the AckTransactionServer or because a new INVITE took its place. *)
AnswerEnds ==
  \A p \in Peers : Answered(p) ~> ~Answered(p)

(* "Termiante the call" (the comment on bye()): a dialog that says BYE closes,
   whether its peer answers, says BYE too or is gone. *)
ByeCloses ==
  \A p \in Peers : status[p] = "BYEING" ~> status[p] = "CLOSE"
=============================================================================
