------------------------ MODULE InviteDialogProofs ------------------------
(***************************************************************************)
(* Proofs about InviteDialog for any number of requests, any capacity of   *)
(* the network and any choice of who may re-INVITE.                        *)
(***************************************************************************)
EXTENDS InviteDialog, TLAPS

(* Each peer has one other, and is the other of it. *)
LEMMA OtherFacts ==
  ASSUME NEW p \in Peers
  PROVE  Other(p) \in Peers /\ Other(Other(p)) = p /\ Other(p) # p
  BY PeersAssumption DEF Other, Peers

(* What the arithmetic of the CSeq numbers gives: 0 numbers no request, and a
   peer within its budget takes the next number. *)
LEMMA NumberFacts ==
  /\ MaxCSeq \in Nat
  /\ CSeqs \subseteq 0..MaxCSeq /\ 0 \notin CSeqs
  /\ \A k \in 0..MaxCSeq : k # 0 => k \in CSeqs
  /\ \A p \in Peers, k \in Nat : k + 1 \in 1..Budget(p) => k + 1 \in CSeqs
  BY BoundAssumption DEF CSeqs, MaxCSeq, Budget, Peers

(* Every request and response the handlers build is a message. *)
LEMMA MessageTypes ==
  \A p \in Peers, n \in CSeqs :
    /\ Req("INVITE", p, n) \in Messages /\ Req("ACK", p, n) \in Messages
    /\ Req("ACKN", p, n) \in Messages   /\ Req("CANCEL", p, n) \in Messages
    /\ Req("BYE", p, n) \in Messages
    /\ \A c \in {"1xx", "2xx", "fail"} : Resp("INVITE", p, n, c) \in Messages
    /\ Resp("CANCEL", p, n, "2xx") \in Messages
    /\ \A c \in {"2xx", "fail"} : Resp("BYE", p, n, c) \in Messages
  BY DEF Req, Resp, Messages

(* A message names a peer and a number. *)
LEMMA MessageFields ==
  \A m \in Messages : m.from \in Peers /\ m.n \in CSeqs
  BY DEF Messages

(* Only messages travel. *)
LEMMA NetType ==
  ASSUME net \subseteq Messages
  PROVE  /\ \A x \in Messages : Put({x}) => net' \subseteq Messages
         /\ \A m : Take(m, {}) => net' \subseteq Messages
         /\ \A m : \A x \in Messages : Take(m, {x}) => net' \subseteq Messages
         /\ \A m : \A x, y \in Messages : Take(m, {x, y}) => net' \subseteq Messages
  BY DEF Put, Take, Carry


(* What the handlers rely on when they name a request. *)
Numbers ==
  \A p \in Peers :
    /\ Invited(p)  => invite_ts[p] # 0
    /\ Inviting(p) => cseq[p] # 0

(* A dialog that waits for an answer or gives one knows which INVITE it means. *)
LEMMA NamedRequests ==
  ASSUME TypeOK, Numbers, NEW p \in Peers
  PROVE  /\ Invited(p)  => invite_ts[p] \in CSeqs
         /\ Inviting(p) => cseq[p] \in CSeqs
<1>1. invite_ts[p] \in 0..MaxCSeq /\ cseq[p] \in 0..MaxCSeq
  BY DEF TypeOK
<1> QED
  BY <1>1, NumberFacts DEF Numbers

(* A message that arrives has a receiver and the number of a request. *)
LEMMA ReceiverFacts ==
  ASSUME TypeOK, NEW m \in net
  PROVE  /\ m \in Messages
         /\ m.from \in Peers /\ m.n \in CSeqs /\ m.n \in 0..MaxCSeq /\ m.n # 0
         /\ Other(m.from) \in Peers
  BY OtherFacts, NumberFacts DEF TypeOK, Messages

(* The type invariant and Numbers hold together: a message takes its number
   from a field. *)
LEMMA TypeStep ==
  ASSUME TypeOK, Numbers, [Next]_vars
  PROVE  TypeOK' /\ Numbers'
<1> USE DEF TypeOK, Numbers, Invited, Inviting, Answered, To, Statuses,
            fields, clients, servers, vars
<1>1. ASSUME NEW p \in Peers, Listen(p) PROVE TypeOK' /\ Numbers'
  BY <1>1 DEF Listen
<1>2. ASSUME NEW p \in Peers, Invite(p) PROVE TypeOK' /\ Numbers'
  <2>1. cseq[p] + 1 \in CSeqs /\ cseq[p] + 1 \in 0..MaxCSeq /\ cseq[p] + 1 # 0
    BY <1>2, NumberFacts DEF Invite, SendInvite
  <2>2. net' \subseteq Messages
    BY <1>2, <2>1, NetType, MessageTypes DEF Invite, SendInvite
  <2> QED
    BY <1>2, <2>1, <2>2 DEF Invite, SendInvite
<1>3. ASSUME NEW p \in Peers, ReInvite(p) PROVE TypeOK' /\ Numbers'
  <2>1. cseq[p] + 1 \in CSeqs /\ cseq[p] + 1 \in 0..MaxCSeq /\ cseq[p] + 1 # 0
    BY <1>3, NumberFacts DEF ReInvite, SendInvite
  <2>2. net' \subseteq Messages
    BY <1>3, <2>1, NetType, MessageTypes DEF ReInvite, SendInvite
  <2> QED
    BY <1>3, <2>1, <2>2 DEF ReInvite, SendInvite
<1>4. ASSUME NEW p \in Peers, Ring(p) PROVE TypeOK' /\ Numbers'
  <2>1. invite_ts[p] \in CSeqs /\ invite_ts[p] \in 0..MaxCSeq
    BY <1>4, NamedRequests DEF Ring
  <2>2. net' \subseteq Messages
    BY <1>4, <2>1, NetType, MessageTypes DEF Ring
  <2> QED
    BY <1>4, <2>1, <2>2 DEF Ring
<1>5. ASSUME NEW p \in Peers, Accept(p) PROVE TypeOK' /\ Numbers'
  <2>1. invite_ts[p] \in CSeqs /\ invite_ts[p] \in 0..MaxCSeq
    BY <1>5, NamedRequests DEF Accept
  <2>2. net' \subseteq Messages
    BY <1>5, <2>1, NetType, MessageTypes DEF Accept
  <2> QED
    BY <1>5, <2>1, <2>2 DEF Accept
<1>6. ASSUME NEW p \in Peers, Refuse(p) PROVE TypeOK' /\ Numbers'
  <2>1. invite_ts[p] \in CSeqs /\ invite_ts[p] \in 0..MaxCSeq
    BY <1>6, NamedRequests DEF Refuse, RespondFailure
  <2>2. net' \subseteq Messages
    BY <1>6, <2>1, NetType, MessageTypes DEF Refuse, RespondFailure
  <2> QED
    BY <1>6, <2>1, <2>2 DEF Refuse, RespondFailure
<1>7. ASSUME NEW p \in Peers, Cancel(p) PROVE TypeOK' /\ Numbers'
  <2>1. cseq[p] \in CSeqs
    BY <1>7, NamedRequests DEF Cancel
  <2>2. net' \subseteq Messages
    BY <1>7, <2>1, NetType, MessageTypes DEF Cancel
  <2> QED
    BY <1>7, <2>1, <2>2 DEF Cancel
<1>8. ASSUME NEW p \in Peers, CancelListening(p) PROVE TypeOK' /\ Numbers'
  BY <1>8 DEF CancelListening
<1>9. ASSUME NEW p \in Peers, Bye(p) PROVE TypeOK' /\ Numbers'
  <2>1. cseq[p] + 1 \in CSeqs /\ cseq[p] + 1 \in 0..MaxCSeq /\ cseq[p] + 1 # 0
    BY <1>9, NumberFacts DEF Bye
  <2>2. net' \subseteq Messages
    BY <1>9, <2>1, NetType, MessageTypes DEF Bye
  <2> QED
    BY <1>9, <2>1, <2>2 DEF Bye
<1>10. ASSUME NEW m \in net, InviteAgain(m) PROVE TypeOK' /\ Numbers'
  <2> DEFINE p == Other(m.from)
  <2>1. p \in Peers /\ m.n \in CSeqs /\ m.n \in 0..MaxCSeq /\ m.n # 0
    BY ReceiverFacts
  <2>2. net' \subseteq Messages
    BY <1>10, <2>1, NetType, MessageTypes DEF InviteAgain
  <2> HIDE DEF p
  <2>3. TypeOK'
    BY <1>10, <2>1, <2>2 DEF InviteAgain, p
  <2>4. Numbers'
    BY <1>10, <2>1, <2>2 DEF InviteAgain, p
  <2> QED
    BY <2>3, <2>4
<1>11. ASSUME NEW m \in net, InviteToListener(m) PROVE TypeOK' /\ Numbers'
  <2> DEFINE p == Other(m.from)
  <2>1. p \in Peers /\ m.n \in CSeqs /\ m.n \in 0..MaxCSeq /\ m.n # 0
    BY ReceiverFacts
  <2>2. net' \subseteq Messages
    BY <1>11, <2>1, NetType, MessageTypes DEF InviteToListener, NewInvite
  <2> HIDE DEF p
  <2>3. TypeOK'
    BY <1>11, <2>1, <2>2 DEF InviteToListener, NewInvite, p
  <2>4. Numbers'
    BY <1>11, <2>1, <2>2 DEF InviteToListener, NewInvite, p
  <2> QED
    BY <2>3, <2>4
<1>12. ASSUME NEW m \in net, InviteToDialog(m) PROVE TypeOK' /\ Numbers'
  <2> DEFINE p == Other(m.from)
  <2>1. p \in Peers /\ m.n \in CSeqs /\ m.n \in 0..MaxCSeq /\ m.n # 0
    BY ReceiverFacts
  <2>2. net' \subseteq Messages
    BY <1>12, <2>1, NetType, MessageTypes DEF InviteToDialog, NewInvite
  <2> HIDE DEF p
  <2>3. TypeOK'
    BY <1>12, <2>1, <2>2 DEF InviteToDialog, NewInvite, p
  <2>4. Numbers'
    BY <1>12, <2>1, <2>2 DEF InviteToDialog, NewInvite, p
  <2> QED
    BY <2>3, <2>4
<1>13. ASSUME NEW m \in net, InviteProvisional(m) PROVE TypeOK' /\ Numbers'
  <2> DEFINE p == Other(m.from)
  <2>1. p \in Peers /\ m.n \in CSeqs /\ m.n \in 0..MaxCSeq /\ m.n # 0
    BY ReceiverFacts
  <2>2. net' \subseteq Messages
    BY <1>13, <2>1, NetType, MessageTypes DEF InviteProvisional
  <2> HIDE DEF p
  <2>3. TypeOK'
    BY <1>13, <2>1, <2>2 DEF InviteProvisional, p
  <2>4. Numbers'
    BY <1>13, <2>1, <2>2 DEF InviteProvisional, p
  <2> QED
    BY <2>3, <2>4
<1>14. ASSUME NEW m \in net, InviteSuccess(m) PROVE TypeOK' /\ Numbers'
  <2> DEFINE p == Other(m.from)
  <2>1. p \in Peers /\ m.n \in CSeqs /\ m.n \in 0..MaxCSeq /\ m.n # 0
    BY ReceiverFacts
  <2>2. net' \subseteq Messages
    BY <1>14, <2>1, NetType, MessageTypes DEF InviteSuccess
  <2> HIDE DEF p
  <2>3. TypeOK'
    BY <1>14, <2>1, <2>2 DEF InviteSuccess, p
  <2>4. Numbers'
    BY <1>14, <2>1, <2>2 DEF InviteSuccess, p
  <2> QED
    BY <2>3, <2>4
<1>15. ASSUME NEW m \in net, InviteFailure(m) PROVE TypeOK' /\ Numbers'
  <2> DEFINE p == Other(m.from)
  <2>1. p \in Peers /\ m.n \in CSeqs /\ m.n \in 0..MaxCSeq /\ m.n # 0
    BY ReceiverFacts
  <2>2. net' \subseteq Messages
    BY <1>15, <2>1, NetType, MessageTypes DEF InviteFailure
  <2> HIDE DEF p
  <2>3. TypeOK'
    BY <1>15, <2>1, <2>2 DEF InviteFailure, p
  <2>4. Numbers'
    BY <1>15, <2>1, <2>2 DEF InviteFailure, p
  <2> QED
    BY <2>3, <2>4
<1>16. ASSUME NEW m \in net, InviteFailureAgain(m) PROVE TypeOK' /\ Numbers'
  <2> DEFINE p == Other(m.from)
  <2>1. p \in Peers /\ m.n \in CSeqs /\ m.n \in 0..MaxCSeq /\ m.n # 0
    BY ReceiverFacts
  <2>2. net' \subseteq Messages
    BY <1>16, <2>1, NetType, MessageTypes DEF InviteFailureAgain
  <2> HIDE DEF p
  <2>3. TypeOK'
    BY <1>16, <2>1, <2>2 DEF InviteFailureAgain, p
  <2>4. Numbers'
    BY <1>16, <2>1, <2>2 DEF InviteFailureAgain, p
  <2> QED
    BY <2>3, <2>4
<1>17. ASSUME NEW m \in net, ResponseToDialog(m) PROVE TypeOK' /\ Numbers'
  <2> DEFINE p == Other(m.from)
  <2>1. p \in Peers /\ ack_req[p] \in CSeqs
    BY <1>17, ReceiverFacts, NumberFacts DEF ResponseToDialog
  <2>2. net' \subseteq Messages
    BY <1>17, <2>1, NetType, MessageTypes DEF ResponseToDialog
  <2> QED
    BY <1>17, <2>1, <2>2 DEF ResponseToDialog
<1>18. ASSUME NEW m \in net, AckToDialog(m) PROVE TypeOK' /\ Numbers'
  <2> DEFINE p == Other(m.from)
  <2>1. p \in Peers /\ m.n \in CSeqs /\ m.n \in 0..MaxCSeq /\ m.n # 0
    BY ReceiverFacts
  <2>2. net' \subseteq Messages
    BY <1>18, <2>1, NetType, MessageTypes DEF AckToDialog
  <2> HIDE DEF p
  <2>3. TypeOK'
    BY <1>18, <2>1, <2>2 DEF AckToDialog, p
  <2>4. Numbers'
    BY <1>18, <2>1, <2>2 DEF AckToDialog, p
  <2> QED
    BY <2>3, <2>4
<1>19. ASSUME NEW m \in net, FailureAck(m) PROVE TypeOK' /\ Numbers'
  <2> DEFINE p == Other(m.from)
  <2>1. p \in Peers /\ m.n \in CSeqs /\ m.n \in 0..MaxCSeq /\ m.n # 0
    BY ReceiverFacts
  <2>2. net' \subseteq Messages
    BY <1>19, <2>1, NetType, MessageTypes DEF FailureAck
  <2> HIDE DEF p
  <2>3. TypeOK'
    BY <1>19, <2>1, <2>2 DEF FailureAck, p
  <2>4. Numbers'
    BY <1>19, <2>1, <2>2 DEF FailureAck, p
  <2> QED
    BY <2>3, <2>4
<1>20. ASSUME NEW m \in net, CancelToDialog(m) PROVE TypeOK' /\ Numbers'
  <2> DEFINE p == Other(m.from)
  <2>1. p \in Peers /\ m.n \in CSeqs
    BY ReceiverFacts
  <2>2. invite_ts[p] \in CSeqs
    BY <1>20, <2>1, NamedRequests DEF CancelToDialog, RespondFailure
  <2>3. net' \subseteq Messages
    BY <1>20, <2>1, <2>2, NetType, MessageTypes DEF CancelToDialog, RespondFailure
  <2> QED
    BY <1>20, <2>1, <2>2, <2>3 DEF CancelToDialog, RespondFailure
<1>21. ASSUME NEW m \in net, CancelAgain(m) PROVE TypeOK' /\ Numbers'
  <2> DEFINE p == Other(m.from)
  <2>1. p \in Peers /\ m.n \in CSeqs /\ m.n \in 0..MaxCSeq /\ m.n # 0
    BY ReceiverFacts
  <2>2. net' \subseteq Messages
    BY <1>21, <2>1, NetType, MessageTypes DEF CancelAgain
  <2> HIDE DEF p
  <2>3. TypeOK'
    BY <1>21, <2>1, <2>2 DEF CancelAgain, p
  <2>4. Numbers'
    BY <1>21, <2>1, <2>2 DEF CancelAgain, p
  <2> QED
    BY <2>3, <2>4
<1>22. ASSUME NEW m \in net, CancelResponse(m) PROVE TypeOK' /\ Numbers'
  <2> DEFINE p == Other(m.from)
  <2>1. p \in Peers /\ m.n \in CSeqs /\ m.n \in 0..MaxCSeq /\ m.n # 0
    BY ReceiverFacts
  <2>2. net' \subseteq Messages
    BY <1>22, <2>1, NetType, MessageTypes DEF CancelResponse
  <2> HIDE DEF p
  <2>3. TypeOK'
    BY <1>22, <2>1, <2>2 DEF CancelResponse, p
  <2>4. Numbers'
    BY <1>22, <2>1, <2>2 DEF CancelResponse, p
  <2> QED
    BY <2>3, <2>4
<1>23. ASSUME NEW m \in net, ByeToDialog(m) PROVE TypeOK' /\ Numbers'
  <2> DEFINE p == Other(m.from)
  <2>1. p \in Peers /\ m.n \in CSeqs /\ m.n \in 0..MaxCSeq /\ m.n # 0
    BY ReceiverFacts
  <2>2. net' \subseteq Messages
    BY <1>23, <2>1, NetType, MessageTypes DEF ByeToDialog
  <2> HIDE DEF p
  <2>3. TypeOK'
    BY <1>23, <2>1, <2>2 DEF ByeToDialog, p
  <2>4. Numbers'
    BY <1>23, <2>1, <2>2 DEF ByeToDialog, p
  <2> QED
    BY <2>3, <2>4
<1>24. ASSUME NEW m \in net, ByeAgain(m) PROVE TypeOK' /\ Numbers'
  <2> DEFINE p == Other(m.from)
  <2>1. p \in Peers /\ m.n \in CSeqs /\ m.n \in 0..MaxCSeq /\ m.n # 0
    BY ReceiverFacts
  <2>2. net' \subseteq Messages
    BY <1>24, <2>1, NetType, MessageTypes DEF ByeAgain
  <2> HIDE DEF p
  <2>3. TypeOK'
    BY <1>24, <2>1, <2>2 DEF ByeAgain, p
  <2>4. Numbers'
    BY <1>24, <2>1, <2>2 DEF ByeAgain, p
  <2> QED
    BY <2>3, <2>4
<1>25. ASSUME NEW m \in net, ByeResponse(m) PROVE TypeOK' /\ Numbers'
  <2> DEFINE p == Other(m.from)
  <2>1. p \in Peers /\ m.n \in CSeqs /\ m.n \in 0..MaxCSeq /\ m.n # 0
    BY ReceiverFacts
  <2>2. net' \subseteq Messages
    BY <1>25, <2>1, NetType, MessageTypes DEF ByeResponse
  <2> HIDE DEF p
  <2>3. TypeOK'
    BY <1>25, <2>1, <2>2 DEF ByeResponse, p
  <2>4. Numbers'
    BY <1>25, <2>1, <2>2 DEF ByeResponse, p
  <2> QED
    BY <2>3, <2>4
<1>26. ASSUME NEW m \in net, ProxyReject(m) PROVE TypeOK' /\ Numbers'
  <2>1. net' \subseteq Messages
    BY <1>26, ReceiverFacts, NetType, MessageTypes DEF ProxyReject
  <2> QED
    BY <1>26, <2>1 DEF ProxyReject
<1>27. ASSUME NEW m \in net, Lose(m) PROVE TypeOK' /\ Numbers'
  <2> DEFINE p == Other(m.from)
  <2>1. p \in Peers /\ m.n \in CSeqs /\ m.n \in 0..MaxCSeq /\ m.n # 0
    BY ReceiverFacts
  <2>2. net' \subseteq Messages
    BY <1>27, <2>1, NetType, MessageTypes DEF Lose
  <2> HIDE DEF p
  <2>3. TypeOK'
    BY <1>27, <2>1, <2>2 DEF Lose, p
  <2>4. Numbers'
    BY <1>27, <2>1, <2>2 DEF Lose, p
  <2> QED
    BY <2>3, <2>4
<1>28. ASSUME NEW p \in Peers, NEW n \in CSeqs, Retransmit(p, n) PROVE TypeOK' /\ Numbers'
  <2>1. net' \subseteq Messages
    BY <1>28, NetType, MessageTypes DEF Retransmit
  <2> QED
    BY <1>28, <2>1 DEF Retransmit
<1>29. ASSUME NEW p \in Peers, NEW n \in CSeqs, InviteTimeout(p, n) PROVE TypeOK' /\ Numbers'
  <2>1. CASE Inviting(p)
    <3>1. cseq[p] \in CSeqs
      BY <2>1, NamedRequests
    <3>2. net' \subseteq Messages
      BY <1>29, <2>1, <3>1, NetType, MessageTypes DEF InviteTimeout
    <3>3. /\ status' = [status EXCEPT ![p] = "CLOSE"]
          /\ ctc' = [ctc EXCEPT ![p] = ctc[p] \cup {cseq[p]}]
      BY <1>29, <2>1 DEF InviteTimeout
    <3>4. status' \in [Peers -> Statuses]
      BY <3>3
    <3>5. ctc' \in [Peers -> SUBSET CSeqs]
      BY <3>1, <3>3
    <3>6. itc' \in [Peers -> [CSeqs -> {"none", "trying", "proceeding", "completed", "terminated"}]]
      BY <1>29 DEF InviteTimeout
    <3>7. TypeOK'
      BY <1>29, <3>4, <3>5, <3>6, <3>2 DEF InviteTimeout
    <3>8. Numbers'
      BY <1>29, <2>1, <3>1 DEF InviteTimeout
    <3> QED
      BY <3>7, <3>8
  <2>2. CASE ~Inviting(p)
    BY <1>29, <2>2 DEF InviteTimeout
  <2> QED
    BY <2>1, <2>2
<1>30. ASSUME NEW p \in Peers, NEW n \in CSeqs, ByeTimeout(p, n) PROVE TypeOK' /\ Numbers'
  BY <1>30 DEF ByeTimeout
<1>31. ASSUME NEW p \in Peers, NEW n \in CSeqs, CancelTimeout(p, n) PROVE TypeOK' /\ Numbers'
  BY <1>31 DEF CancelTimeout
<1>32. ASSUME NEW p \in Peers, NEW n \in CSeqs, EndTimeout(p, n) PROVE TypeOK' /\ Numbers'
  BY <1>32 DEF EndTimeout
<1>33. ASSUME NEW p \in Peers, NEW n \in CSeqs, ClientEndTimeout(p, n) PROVE TypeOK' /\ Numbers'
  BY <1>33 DEF ClientEndTimeout
<1>34. ASSUME NEW p \in Peers, NEW n \in CSeqs, AckTimeout(p, n) PROVE TypeOK' /\ Numbers'
  BY <1>34 DEF AckTimeout
<1>35. CASE UNCHANGED vars
  BY <1>35
<1> QED
  BY <1>1, <1>2, <1>3, <1>4, <1>5, <1>6, <1>7, <1>8, <1>9, <1>10, <1>11, <1>12, <1>13, <1>14, <1>15, <1>16, <1>17, <1>18, <1>19, <1>20, <1>21, <1>22, <1>23, <1>24, <1>25, <1>26, <1>27, <1>28, <1>29, <1>30, <1>31, <1>32, <1>33, <1>34, <1>35 DEF Next, User, Receive, Timeout

Waits == AnswerIsRepeated /\ InviteIsPending /\ ByeIsPending

(* Each wait of a dialog keeps its transaction alive. *)
LEMMA WaitsStep ==
  ASSUME TypeOK, Waits, [Next]_vars
  PROVE  Waits'
<1> USE DEF Waits, AnswerIsRepeated, InviteIsPending, ByeIsPending, TypeOK,
            Invited, Inviting, Answered, To, fields, clients, servers, vars
<1>1. ASSUME NEW p \in Peers,
          Ring(p) \/ Cancel(p) \/ CancelListening(p)
     PROVE  Waits'
  BY <1>1 DEF Ring, Cancel, CancelListening
<1>2. ASSUME NEW m \in net,
          InviteAgain(m) \/ InviteFailureAgain(m) \/ ResponseToDialog(m) \/ CancelAgain(m) \/ CancelResponse(m) \/ ProxyReject(m) \/ Lose(m)
     PROVE  Waits'
  BY <1>2 DEF InviteAgain, InviteFailureAgain, ResponseToDialog, CancelAgain, CancelResponse, ProxyReject, Lose
<1>3. ASSUME NEW p \in Peers, NEW n \in CSeqs,
          Retransmit(p, n) \/ CancelTimeout(p, n) \/ EndTimeout(p, n)
     PROVE  Waits'
  BY <1>3 DEF Retransmit, CancelTimeout, EndTimeout
<1>4. ASSUME NEW p \in Peers, Listen(p) PROVE Waits'
  BY <1>4 DEF Listen
<1>5. ASSUME NEW p \in Peers, Invite(p) PROVE Waits'
  <2>1. cseq[p] + 1 \in CSeqs
    BY <1>5, NumberFacts DEF Invite, SendInvite
  <2> QED
    BY <1>5, <2>1 DEF Invite, SendInvite
<1>6. ASSUME NEW p \in Peers, ReInvite(p) PROVE Waits'
  <2>1. cseq[p] + 1 \in CSeqs
    BY <1>6, NumberFacts DEF ReInvite, SendInvite
  <2> QED
    BY <1>6, <2>1 DEF ReInvite, SendInvite
<1>7. ASSUME NEW p \in Peers, Accept(p) PROVE Waits'
  BY <1>7 DEF Accept
<1>8. ASSUME NEW p \in Peers, Refuse(p) PROVE Waits'
  BY <1>8 DEF Refuse, RespondFailure
<1>9. ASSUME NEW p \in Peers, Bye(p) PROVE Waits'
  <2>1. cseq[p] + 1 \in CSeqs
    BY <1>9, NumberFacts DEF Bye
  <2> QED
    BY <1>9, <2>1 DEF Bye
<1>10. ASSUME NEW m \in net, InviteToListener(m) PROVE Waits'
  BY <1>10, ReceiverFacts DEF InviteToListener, NewInvite
<1>11. ASSUME NEW m \in net, InviteToDialog(m) PROVE Waits'
  BY <1>11, ReceiverFacts DEF InviteToDialog, NewInvite
<1>12. ASSUME NEW m \in net, InviteProvisional(m) PROVE Waits'
  BY <1>12, ReceiverFacts DEF InviteProvisional
<1>13. ASSUME NEW m \in net, InviteSuccess(m) PROVE Waits'
  <2> DEFINE p == Other(m.from)
  <2>1. p \in Peers /\ m.n \in CSeqs
    BY ReceiverFacts
  <2>2. CASE Inviting(p)
    <3>1. /\ status' = [status EXCEPT ![p] = "CALL"]
          /\ cseq' = [cseq EXCEPT ![p] = m.n]
          /\ itc' = [itc EXCEPT ![p][m.n] = "terminated"]
          /\ UNCHANGED <<ack_ts, ats, btc>>
      BY <1>13, <2>2 DEF InviteSuccess
    <3> HIDE DEF p
    <3> QED
      BY <2>1, <3>1
  <2>3. CASE ~Inviting(p)
    BY <1>13, <2>1, <2>3 DEF InviteSuccess
  <2> QED
    BY <2>2, <2>3
<1>14. ASSUME NEW m \in net, InviteFailure(m) PROVE Waits'
  BY <1>14, ReceiverFacts DEF InviteFailure
<1>15. ASSUME NEW m \in net, AckToDialog(m) PROVE Waits'
  BY <1>15, ReceiverFacts DEF AckToDialog
<1>16. ASSUME NEW m \in net, FailureAck(m) PROVE Waits'
  BY <1>16, ReceiverFacts DEF FailureAck
<1>17. ASSUME NEW m \in net, CancelToDialog(m) PROVE Waits'
  BY <1>17, ReceiverFacts DEF CancelToDialog, RespondFailure
<1>18. ASSUME NEW m \in net, ByeToDialog(m) PROVE Waits'
  BY <1>18, ReceiverFacts DEF ByeToDialog
<1>19. ASSUME NEW m \in net, ByeAgain(m) PROVE Waits'
  BY <1>19, ReceiverFacts DEF ByeAgain
<1>20. ASSUME NEW m \in net, ByeResponse(m) PROVE Waits'
  BY <1>20, ReceiverFacts DEF ByeResponse
<1>21. ASSUME NEW p \in Peers, NEW n \in CSeqs, InviteTimeout(p, n) PROVE Waits'
  BY <1>21 DEF InviteTimeout
<1>22. ASSUME NEW p \in Peers, NEW n \in CSeqs, ByeTimeout(p, n) PROVE Waits'
  BY <1>22 DEF ByeTimeout
<1>23. ASSUME NEW p \in Peers, NEW n \in CSeqs, ClientEndTimeout(p, n) PROVE Waits'
  BY <1>23 DEF ClientEndTimeout
<1>24. ASSUME NEW p \in Peers, NEW n \in CSeqs, AckTimeout(p, n) PROVE Waits'
  BY <1>24 DEF AckTimeout
<1>25. CASE UNCHANGED vars
  BY <1>25
<1> QED
  BY <1>1, <1>2, <1>3, <1>4, <1>5, <1>6, <1>7, <1>8, <1>9, <1>10, <1>11, <1>12, <1>13, <1>14, <1>15, <1>16, <1>17, <1>18, <1>19, <1>20, <1>21, <1>22, <1>23, <1>24, <1>25 DEF Next, User, Receive, Timeout

(* How far the INVITEs of the peer have been served. *)
Served ==
  /\ \A p \in Peers : Invited(p) => its[p][invite_ts[p]] = "proceeding"
  /\ \A p \in Peers : invite_ts[p] <= remote[p]
  /\ \A p \in Peers : \A n \in CSeqs : its[p][n] # "none" => n <= remote[p]
  /\ \A p \in Peers : status[p] \in {"INIT", "WAITING"} => remote[p] = 0
  /\ \A p \in Peers : \A n \in CSeqs : n \in ats[p] => its[p][n] = "accepted"

(* An INVITE is served once, the answers in their order. *)
LEMMA ServedStep ==
  ASSUME TypeOK, Numbers, Served, [Next]_vars
  PROVE  Served'
<1> USE DEF Served, Numbers, TypeOK, Invited, Inviting, Answered, To,
            fields, clients, servers, vars
<1>1. ASSUME NEW p \in Peers,
          Ring(p) \/ Cancel(p) \/ CancelListening(p) \/ Bye(p)
     PROVE  Served'
  BY <1>1 DEF Ring, Cancel, CancelListening, Bye
<1>2. ASSUME NEW m \in net,
          InviteAgain(m) \/ InviteProvisional(m) \/ InviteFailureAgain(m) \/ ResponseToDialog(m) \/ CancelAgain(m) \/ CancelResponse(m) \/ ByeAgain(m) \/ ProxyReject(m) \/ Lose(m)
     PROVE  Served'
  BY <1>2 DEF InviteAgain, InviteProvisional, InviteFailureAgain, ResponseToDialog, CancelAgain, CancelResponse, ByeAgain, ProxyReject, Lose
<1>3. ASSUME NEW p \in Peers, NEW n \in CSeqs,
          ByeTimeout(p, n) \/ CancelTimeout(p, n) \/ ClientEndTimeout(p, n)
     PROVE  Served'
  BY <1>3 DEF ByeTimeout, CancelTimeout, ClientEndTimeout
<1>4. ASSUME NEW p \in Peers, Listen(p) PROVE Served'
  BY <1>4 DEF Listen
<1>5. ASSUME NEW p \in Peers, Invite(p) PROVE Served'
  BY <1>5 DEF Invite, SendInvite
<1>6. ASSUME NEW p \in Peers, ReInvite(p) PROVE Served'
  BY <1>6 DEF ReInvite, SendInvite
<1>7. ASSUME NEW p \in Peers, Accept(p) PROVE Served'
  <2>1. invite_ts[p] \in CSeqs
    BY <1>7, NamedRequests DEF Accept
  <2> QED
    BY <1>7, <2>1 DEF Accept
<1>8. ASSUME NEW p \in Peers, Refuse(p) PROVE Served'
  <2>1. invite_ts[p] \in CSeqs
    BY <1>8, NamedRequests DEF Refuse, RespondFailure
  <2> QED
    BY <1>8, <2>1 DEF Refuse, RespondFailure
<1>9. ASSUME NEW m \in net, InviteToListener(m) PROVE Served'
  <2> DEFINE p == Other(m.from)
  <2>1. p \in Peers /\ m.n \in CSeqs /\ m.n \in Nat /\ m.n # 0
    BY ReceiverFacts, NumberFacts
  <2>2. /\ status' = [status EXCEPT ![p] = "INVITED"]
        /\ remote' = [remote EXCEPT ![p] = m.n]
        /\ invite_ts' = [invite_ts EXCEPT ![p] = m.n]
        /\ its' = [its EXCEPT ![p][m.n] = "proceeding"]
        /\ its[p][m.n] \notin {"proceeding", "completed", "confirmed"}
        /\ UNCHANGED ats
    BY <1>9 DEF InviteToListener, NewInvite
  <2>3. remote[p] < m.n /\ remote[p] \in Nat
    BY <1>9, <2>1 DEF InviteToListener, NewInvite
  <2>4. its[p][m.n] = "none"
    BY <2>1, <2>3
  <2> HIDE DEF p
  <2>5. \A q \in Peers : \A n \in CSeqs : its'[q][n] # "none" => n <= remote'[q]
    BY <2>1, <2>2, <2>3, NumberFacts
  <2> QED
    BY <2>1, <2>2, <2>3, <2>4, <2>5
<1>10. ASSUME NEW m \in net, InviteToDialog(m) PROVE Served'
  <2> DEFINE p == Other(m.from)
  <2>1. p \in Peers /\ m.n \in CSeqs /\ m.n \in Nat /\ m.n # 0
    BY ReceiverFacts, NumberFacts
  <2>2. /\ status' = [status EXCEPT ![p] = "ReINVITED"]
        /\ remote' = [remote EXCEPT ![p] = m.n]
        /\ invite_ts' = [invite_ts EXCEPT ![p] = m.n]
        /\ its' = [its EXCEPT ![p][m.n] = "proceeding"]
        /\ its[p][m.n] \notin {"proceeding", "completed", "confirmed"}
        /\ UNCHANGED ats
    BY <1>10 DEF InviteToDialog, NewInvite
  <2>3. remote[p] < m.n /\ remote[p] \in Nat
    BY <1>10, <2>1 DEF InviteToDialog, NewInvite
  <2>4. its[p][m.n] = "none"
    BY <2>1, <2>3
  <2> HIDE DEF p
  <2>5. \A q \in Peers : \A n \in CSeqs : its'[q][n] # "none" => n <= remote'[q]
    BY <2>1, <2>2, <2>3, NumberFacts
  <2> QED
    BY <2>1, <2>2, <2>3, <2>4, <2>5
<1>11. ASSUME NEW m \in net, InviteSuccess(m) PROVE Served'
  BY <1>11, ReceiverFacts DEF InviteSuccess
<1>12. ASSUME NEW m \in net, InviteFailure(m) PROVE Served'
  BY <1>12, ReceiverFacts DEF InviteFailure
<1>13. ASSUME NEW m \in net, AckToDialog(m) PROVE Served'
  BY <1>13, ReceiverFacts DEF AckToDialog
<1>14. ASSUME NEW m \in net, FailureAck(m) PROVE Served'
  BY <1>14, ReceiverFacts DEF FailureAck
<1>15. ASSUME NEW m \in net, CancelToDialog(m) PROVE Served'
  <2> DEFINE p == Other(m.from)
  <2>1. p \in Peers
    BY ReceiverFacts
  <2>2. invite_ts[p] \in CSeqs
    BY <1>15, <2>1, NamedRequests DEF CancelToDialog, RespondFailure
  <2> QED
    BY <1>15, <2>1, <2>2 DEF CancelToDialog, RespondFailure
<1>16. ASSUME NEW m \in net, ByeToDialog(m) PROVE Served'
  BY <1>16, ReceiverFacts DEF ByeToDialog
<1>17. ASSUME NEW m \in net, ByeResponse(m) PROVE Served'
  BY <1>17, ReceiverFacts DEF ByeResponse
<1>18. ASSUME NEW p \in Peers, NEW n \in CSeqs, Retransmit(p, n) PROVE Served'
  BY <1>18 DEF Retransmit
<1>19. ASSUME NEW p \in Peers, NEW n \in CSeqs, InviteTimeout(p, n) PROVE Served'
  BY <1>19 DEF InviteTimeout
<1>20. ASSUME NEW p \in Peers, NEW n \in CSeqs, EndTimeout(p, n) PROVE Served'
  BY <1>20 DEF EndTimeout
<1>21. ASSUME NEW p \in Peers, NEW n \in CSeqs, AckTimeout(p, n) PROVE Served'
  BY <1>21 DEF AckTimeout
<1>22. CASE UNCHANGED vars
  BY <1>22
<1> QED
  BY <1>1, <1>2, <1>3, <1>4, <1>5, <1>6, <1>7, <1>8, <1>9, <1>10, <1>11, <1>12, <1>13, <1>14, <1>15, <1>16, <1>17, <1>18, <1>19, <1>20, <1>21, <1>22 DEF Next, User, Receive, Timeout

RefusedStates == {"completed", "confirmed", "terminated"}

AnswersStay ==
  \A p \in Peers : \A n \in CSeqs :
    /\ its[p][n] = "accepted" => its'[p][n] = "accepted"
    /\ its[p][n] \in RefusedStates => its'[p][n] \in RefusedStates

(* An answer given stays given. *)
LEMMA AnswerStays ==
  ASSUME TypeOK, Numbers, Served, [Next]_vars
  PROVE  AnswersStay
<1> USE DEF AnswersStay, RefusedStates, Served, Numbers, TypeOK, Invited, Inviting, Answered, To,
            fields, clients, servers, vars
<1>1. ASSUME NEW p \in Peers,
          Listen(p) \/ Ring(p) \/ Cancel(p) \/ CancelListening(p) \/ Bye(p)
     PROVE  AnswersStay
  BY <1>1 DEF Listen, Ring, Cancel, CancelListening, Bye
<1>2. ASSUME NEW m \in net,
          InviteAgain(m) \/ InviteProvisional(m) \/ InviteFailureAgain(m) \/ ResponseToDialog(m) \/ CancelAgain(m) \/ CancelResponse(m) \/ ByeToDialog(m) \/ ByeAgain(m) \/ ProxyReject(m) \/ Lose(m)
     PROVE  AnswersStay
  BY <1>2 DEF InviteAgain, InviteProvisional, InviteFailureAgain, ResponseToDialog, CancelAgain, CancelResponse, ByeToDialog, ByeAgain, ProxyReject, Lose
<1>3. ASSUME NEW p \in Peers, NEW n \in CSeqs,
          ByeTimeout(p, n) \/ CancelTimeout(p, n) \/ ClientEndTimeout(p, n)
     PROVE  AnswersStay
  BY <1>3 DEF ByeTimeout, CancelTimeout, ClientEndTimeout
<1>4. ASSUME NEW p \in Peers, Invite(p) PROVE AnswersStay
  BY <1>4 DEF Invite, SendInvite
<1>5. ASSUME NEW p \in Peers, ReInvite(p) PROVE AnswersStay
  BY <1>5 DEF ReInvite, SendInvite
<1>6. ASSUME NEW p \in Peers, Accept(p) PROVE AnswersStay
  <2>1. invite_ts[p] \in CSeqs
    BY <1>6, NamedRequests DEF Accept
  <2> QED
    BY <1>6, <2>1 DEF Accept
<1>7. ASSUME NEW p \in Peers, Refuse(p) PROVE AnswersStay
  <2>1. invite_ts[p] \in CSeqs
    BY <1>7, NamedRequests DEF Refuse, RespondFailure
  <2> QED
    BY <1>7, <2>1 DEF Refuse, RespondFailure
<1>8. ASSUME NEW m \in net, InviteToListener(m) PROVE AnswersStay
  <2> DEFINE p == Other(m.from)
  <2>1. p \in Peers /\ m.n \in CSeqs /\ m.n \in Nat /\ m.n # 0
    BY ReceiverFacts, NumberFacts
  <2>2. /\ status' = [status EXCEPT ![p] = "INVITED"]
        /\ remote' = [remote EXCEPT ![p] = m.n]
        /\ invite_ts' = [invite_ts EXCEPT ![p] = m.n]
        /\ its' = [its EXCEPT ![p][m.n] = "proceeding"]
        /\ its[p][m.n] \notin {"proceeding", "completed", "confirmed"}
        /\ UNCHANGED ats
    BY <1>8 DEF InviteToListener, NewInvite
  <2>3. remote[p] < m.n /\ remote[p] \in Nat
    BY <1>8, <2>1 DEF InviteToListener, NewInvite
  <2>4. its[p][m.n] = "none"
    BY <2>1, <2>3
  <2> HIDE DEF p
  <2> QED
    BY <2>1, <2>2, <2>4
<1>9. ASSUME NEW m \in net, InviteToDialog(m) PROVE AnswersStay
  <2> DEFINE p == Other(m.from)
  <2>1. p \in Peers /\ m.n \in CSeqs /\ m.n \in Nat /\ m.n # 0
    BY ReceiverFacts, NumberFacts
  <2>2. /\ status' = [status EXCEPT ![p] = "ReINVITED"]
        /\ remote' = [remote EXCEPT ![p] = m.n]
        /\ invite_ts' = [invite_ts EXCEPT ![p] = m.n]
        /\ its' = [its EXCEPT ![p][m.n] = "proceeding"]
        /\ its[p][m.n] \notin {"proceeding", "completed", "confirmed"}
        /\ UNCHANGED ats
    BY <1>9 DEF InviteToDialog, NewInvite
  <2>3. remote[p] < m.n /\ remote[p] \in Nat
    BY <1>9, <2>1 DEF InviteToDialog, NewInvite
  <2>4. its[p][m.n] = "none"
    BY <2>1, <2>3
  <2> HIDE DEF p
  <2> QED
    BY <2>1, <2>2, <2>4
<1>10. ASSUME NEW m \in net, InviteSuccess(m) PROVE AnswersStay
  BY <1>10, ReceiverFacts DEF InviteSuccess
<1>11. ASSUME NEW m \in net, InviteFailure(m) PROVE AnswersStay
  BY <1>11, ReceiverFacts DEF InviteFailure
<1>12. ASSUME NEW m \in net, AckToDialog(m) PROVE AnswersStay
  BY <1>12, ReceiverFacts DEF AckToDialog
<1>13. ASSUME NEW m \in net, FailureAck(m) PROVE AnswersStay
  BY <1>13, ReceiverFacts DEF FailureAck
<1>14. ASSUME NEW m \in net, CancelToDialog(m) PROVE AnswersStay
  <2> DEFINE p == Other(m.from)
  <2>1. p \in Peers
    BY ReceiverFacts
  <2>2. invite_ts[p] \in CSeqs
    BY <1>14, <2>1, NamedRequests DEF CancelToDialog, RespondFailure
  <2> QED
    BY <1>14, <2>1, <2>2 DEF CancelToDialog, RespondFailure
<1>15. ASSUME NEW m \in net, ByeResponse(m) PROVE AnswersStay
  BY <1>15, ReceiverFacts DEF ByeResponse
<1>16. ASSUME NEW p \in Peers, NEW n \in CSeqs, Retransmit(p, n) PROVE AnswersStay
  BY <1>16 DEF Retransmit
<1>17. ASSUME NEW p \in Peers, NEW n \in CSeqs, InviteTimeout(p, n) PROVE AnswersStay
  BY <1>17 DEF InviteTimeout
<1>18. ASSUME NEW p \in Peers, NEW n \in CSeqs, EndTimeout(p, n) PROVE AnswersStay
  BY <1>18 DEF EndTimeout
<1>19. ASSUME NEW p \in Peers, NEW n \in CSeqs, AckTimeout(p, n) PROVE AnswersStay
  BY <1>19 DEF AckTimeout
<1>20. CASE UNCHANGED vars
  BY <1>20
<1> QED
  BY <1>1, <1>2, <1>3, <1>4, <1>5, <1>6, <1>7, <1>8, <1>9, <1>10, <1>11, <1>12, <1>13, <1>14, <1>15, <1>16, <1>17, <1>18, <1>19, <1>20 DEF Next, User, Receive, Timeout

(* A step adds to the network what it sends and nothing else. *)
LEMMA NetContents ==
  /\ \A out : Put(out) => \A x \in net' : x \in net \/ x \in out
  /\ \A m, out : Take(m, out) => \A x \in net' : x \in net \/ x \in out
  BY DEF Put, Take, Carry

(* An answer in the network was given. *)
Answers ==
  \A m \in net : m.method = "INVITE" =>
    /\ m.code = "2xx"  => its[m.from][m.n] = "accepted"
    /\ m.code = "fail" => its[m.from][m.n] \in RefusedStates

AnswersSent ==
  \A m \in net' : m \in net \/ (m.method = "INVITE" =>
    /\ m.code = "2xx"  => its'[m.from][m.n] = "accepted"
    /\ m.code = "fail" => its'[m.from][m.n] \in RefusedStates)

(* Only an answered INVITE has its answer sent. *)
LEMMA AnswerSent ==
  ASSUME TypeOK, Numbers, Served, [Next]_vars
  PROVE  AnswersSent
<1> USE DEF AnswersSent, RefusedStates, Served, TypeOK, Invited, Req, Resp,
            fields, clients, servers, vars
<1>1. ASSUME NEW p \in Peers,
          Listen(p) \/ CancelListening(p)
     PROVE  AnswersSent
  BY <1>1, NetContents DEF Listen, CancelListening
<1>2. ASSUME NEW m \in net,
          InviteProvisional(m) \/ AckToDialog(m) \/ FailureAck(m) \/ CancelResponse(m) \/ ByeResponse(m) \/ Lose(m)
     PROVE  AnswersSent
  BY <1>2, NetContents DEF InviteProvisional, AckToDialog, FailureAck, CancelResponse, ByeResponse, Lose
<1>3. ASSUME NEW p \in Peers, NEW n \in CSeqs,
          ByeTimeout(p, n) \/ CancelTimeout(p, n) \/ EndTimeout(p, n) \/ ClientEndTimeout(p, n) \/ AckTimeout(p, n)
     PROVE  AnswersSent
  BY <1>3, NetContents DEF ByeTimeout, CancelTimeout, EndTimeout, ClientEndTimeout, AckTimeout
<1>4. ASSUME NEW p \in Peers, Invite(p) PROVE AnswersSent
  BY <1>4, NetContents DEF Invite, SendInvite
<1>5. ASSUME NEW p \in Peers, ReInvite(p) PROVE AnswersSent
  BY <1>5, NetContents DEF ReInvite, SendInvite
<1>6. ASSUME NEW p \in Peers, Ring(p) PROVE AnswersSent
  BY <1>6, NetContents DEF Ring
<1>7. ASSUME NEW p \in Peers, Accept(p) PROVE AnswersSent
  <2>1. invite_ts[p] \in CSeqs
    BY <1>7, NamedRequests DEF Accept
  <2> QED
    BY <1>7, <2>1, NetContents DEF Accept
<1>8. ASSUME NEW p \in Peers, Refuse(p) PROVE AnswersSent
  <2>1. invite_ts[p] \in CSeqs
    BY <1>8, NamedRequests DEF Refuse, RespondFailure
  <2> QED
    BY <1>8, <2>1, NetContents DEF Refuse, RespondFailure
<1>9. ASSUME NEW p \in Peers, Cancel(p) PROVE AnswersSent
  BY <1>9, NetContents DEF Cancel
<1>10. ASSUME NEW p \in Peers, Bye(p) PROVE AnswersSent
  BY <1>10, NetContents DEF Bye
<1>11. ASSUME NEW m \in net, InviteAgain(m) PROVE AnswersSent
  BY <1>11, NetContents, ReceiverFacts DEF InviteAgain
<1>12. ASSUME NEW m \in net, InviteToListener(m) PROVE AnswersSent
  BY <1>12, NetContents, ReceiverFacts DEF InviteToListener, NewInvite
<1>13. ASSUME NEW m \in net, InviteToDialog(m) PROVE AnswersSent
  BY <1>13, NetContents, ReceiverFacts DEF InviteToDialog, NewInvite
<1>14. ASSUME NEW m \in net, InviteSuccess(m) PROVE AnswersSent
  BY <1>14, NetContents, ReceiverFacts DEF InviteSuccess
<1>15. ASSUME NEW m \in net, InviteFailure(m) PROVE AnswersSent
  BY <1>15, NetContents, ReceiverFacts DEF InviteFailure
<1>16. ASSUME NEW m \in net, InviteFailureAgain(m) PROVE AnswersSent
  BY <1>16, NetContents, ReceiverFacts DEF InviteFailureAgain
<1>17. ASSUME NEW m \in net, ResponseToDialog(m) PROVE AnswersSent
  BY <1>17, NetContents, ReceiverFacts DEF ResponseToDialog
<1>18. ASSUME NEW m \in net, CancelToDialog(m) PROVE AnswersSent
  <2> DEFINE p == Other(m.from)
  <2>1. p \in Peers
    BY ReceiverFacts
  <2>2. invite_ts[p] \in CSeqs
    BY <1>18, <2>1, NamedRequests DEF CancelToDialog, RespondFailure
  <2> QED
    BY <1>18, <2>1, <2>2, NetContents DEF CancelToDialog, RespondFailure
<1>19. ASSUME NEW m \in net, CancelAgain(m) PROVE AnswersSent
  BY <1>19, NetContents, ReceiverFacts DEF CancelAgain
<1>20. ASSUME NEW m \in net, ByeToDialog(m) PROVE AnswersSent
  BY <1>20, NetContents, ReceiverFacts DEF ByeToDialog
<1>21. ASSUME NEW m \in net, ByeAgain(m) PROVE AnswersSent
  BY <1>21, NetContents, ReceiverFacts DEF ByeAgain
<1>22. ASSUME NEW m \in net, ProxyReject(m) PROVE AnswersSent
  BY <1>22, NetContents, ReceiverFacts DEF ProxyReject
<1>23. ASSUME NEW p \in Peers, NEW n \in CSeqs, Retransmit(p, n) PROVE AnswersSent
  BY <1>23, NetContents DEF Retransmit
<1>24. ASSUME NEW p \in Peers, NEW n \in CSeqs, InviteTimeout(p, n) PROVE AnswersSent
  BY <1>24, NetContents DEF InviteTimeout
<1>25. CASE UNCHANGED vars
  BY <1>25
<1> QED
  BY <1>1, <1>2, <1>3, <1>4, <1>5, <1>6, <1>7, <1>8, <1>9, <1>10, <1>11, <1>12, <1>13, <1>14, <1>15, <1>16, <1>17, <1>18, <1>19, <1>20, <1>21, <1>22, <1>23, <1>24, <1>25 DEF Next, User, Receive, Timeout

(* An answer that travels stays the one the transaction gave. *)
LEMMA AnswersStep ==
  ASSUME TypeOK, Numbers, Served, Answers, [Next]_vars
  PROVE  Answers'
  BY AnswerStays, AnswerSent DEF Answers, AnswersStay, AnswersSent, TypeOK, Messages

ClosedStays == \A p \in Peers : status[p] = "CLOSE" => status'[p] = "CLOSE"

(* No handler takes a closed dialog anywhere. *)
LEMMA ClosedStep ==
  ASSUME TypeOK, [Next]_vars
  PROVE  ClosedStays
<1> USE DEF ClosedStays, TypeOK, Registered, Invited, Inviting, Answered, To,
            fields, clients, servers, vars
<1>1. ASSUME NEW p \in Peers,
          Ring(p) \/ Cancel(p) \/ CancelListening(p)
     PROVE  ClosedStays
  BY <1>1 DEF Ring, Cancel, CancelListening
<1>2. ASSUME NEW m \in net,
          InviteAgain(m) \/ InviteProvisional(m) \/ InviteFailureAgain(m) \/ ResponseToDialog(m) \/ CancelAgain(m) \/ CancelResponse(m) \/ ByeAgain(m) \/ ProxyReject(m) \/ Lose(m)
     PROVE  ClosedStays
  BY <1>2 DEF InviteAgain, InviteProvisional, InviteFailureAgain, ResponseToDialog, CancelAgain, CancelResponse, ByeAgain, ProxyReject, Lose
<1>3. ASSUME NEW p \in Peers, NEW n \in CSeqs,
          CancelTimeout(p, n) \/ EndTimeout(p, n) \/ ClientEndTimeout(p, n)
     PROVE  ClosedStays
  BY <1>3 DEF CancelTimeout, EndTimeout, ClientEndTimeout
<1>4. ASSUME NEW p \in Peers, Listen(p) PROVE ClosedStays
  BY <1>4 DEF Listen
<1>5. ASSUME NEW p \in Peers, Invite(p) PROVE ClosedStays
  BY <1>5 DEF Invite, SendInvite
<1>6. ASSUME NEW p \in Peers, ReInvite(p) PROVE ClosedStays
  BY <1>6 DEF ReInvite, SendInvite
<1>7. ASSUME NEW p \in Peers, Accept(p) PROVE ClosedStays
  BY <1>7 DEF Accept
<1>8. ASSUME NEW p \in Peers, Refuse(p) PROVE ClosedStays
  BY <1>8 DEF Refuse, RespondFailure
<1>9. ASSUME NEW p \in Peers, Bye(p) PROVE ClosedStays
  BY <1>9 DEF Bye
<1>10. ASSUME NEW m \in net, InviteToListener(m) PROVE ClosedStays
  BY <1>10, ReceiverFacts DEF InviteToListener, NewInvite
<1>11. ASSUME NEW m \in net, InviteToDialog(m) PROVE ClosedStays
  BY <1>11, ReceiverFacts DEF InviteToDialog, NewInvite
<1>12. ASSUME NEW m \in net, InviteSuccess(m) PROVE ClosedStays
  BY <1>12, ReceiverFacts DEF InviteSuccess
<1>13. ASSUME NEW m \in net, InviteFailure(m) PROVE ClosedStays
  BY <1>13, ReceiverFacts DEF InviteFailure
<1>14. ASSUME NEW m \in net, AckToDialog(m) PROVE ClosedStays
  BY <1>14, ReceiverFacts DEF AckToDialog
<1>15. ASSUME NEW m \in net, FailureAck(m) PROVE ClosedStays
  BY <1>15, ReceiverFacts DEF FailureAck
<1>16. ASSUME NEW m \in net, CancelToDialog(m) PROVE ClosedStays
  BY <1>16, ReceiverFacts DEF CancelToDialog, RespondFailure
<1>17. ASSUME NEW m \in net, ByeToDialog(m) PROVE ClosedStays
  BY <1>17, ReceiverFacts DEF ByeToDialog
<1>18. ASSUME NEW m \in net, ByeResponse(m) PROVE ClosedStays
  BY <1>18, ReceiverFacts DEF ByeResponse
<1>19. ASSUME NEW p \in Peers, NEW n \in CSeqs, Retransmit(p, n) PROVE ClosedStays
  BY <1>19 DEF Retransmit
<1>20. ASSUME NEW p \in Peers, NEW n \in CSeqs, InviteTimeout(p, n) PROVE ClosedStays
  BY <1>20 DEF InviteTimeout
<1>21. ASSUME NEW p \in Peers, NEW n \in CSeqs, ByeTimeout(p, n) PROVE ClosedStays
  BY <1>21 DEF ByeTimeout
<1>22. ASSUME NEW p \in Peers, NEW n \in CSeqs, AckTimeout(p, n) PROVE ClosedStays
  BY <1>22 DEF AckTimeout
<1>23. CASE UNCHANGED vars
  BY <1>23
<1> QED
  BY <1>1, <1>2, <1>3, <1>4, <1>5, <1>6, <1>7, <1>8, <1>9, <1>10, <1>11, <1>12, <1>13, <1>14, <1>15, <1>16, <1>17, <1>18, <1>19, <1>20, <1>21, <1>22, <1>23 DEF Next, User, Receive, Timeout

OfferedOnce ==
  \A p \in Peers, n \in CSeqs :
    (its'[p][n] = "proceeding" /\ its[p][n] # "proceeding")
      => its[p][n] = "none" /\ n > invite_ts[p]

(* A new InviteTransactionServer is for a new INVITE, newer than the last. *)
LEMMA OfferStep ==
  ASSUME TypeOK, Served, [Next]_vars
  PROVE  OfferedOnce
<1> USE DEF OfferedOnce, Served, TypeOK, Invited, Answered, To,
            fields, clients, servers, vars
<1>1. ASSUME NEW p \in Peers,
          Listen(p) \/ Invite(p) \/ ReInvite(p) \/ Ring(p) \/ Cancel(p) \/ CancelListening(p) \/ Bye(p)
     PROVE  OfferedOnce
  BY <1>1 DEF Listen, Invite, SendInvite, ReInvite, SendInvite, Ring, Cancel, CancelListening, Bye
<1>2. ASSUME NEW m \in net,
          InviteAgain(m) \/ InviteProvisional(m) \/ InviteFailureAgain(m) \/ ResponseToDialog(m) \/ AckToDialog(m) \/ CancelAgain(m) \/ CancelResponse(m) \/ ByeToDialog(m) \/ ByeAgain(m) \/ ProxyReject(m) \/ Lose(m)
     PROVE  OfferedOnce
  BY <1>2 DEF InviteAgain, InviteProvisional, InviteFailureAgain, ResponseToDialog, AckToDialog, CancelAgain, CancelResponse, ByeToDialog, ByeAgain, ProxyReject, Lose
<1>3. ASSUME NEW p \in Peers, NEW n \in CSeqs,
          ByeTimeout(p, n) \/ CancelTimeout(p, n) \/ ClientEndTimeout(p, n)
     PROVE  OfferedOnce
  BY <1>3 DEF ByeTimeout, CancelTimeout, ClientEndTimeout
<1>4. ASSUME NEW p \in Peers, Accept(p) PROVE OfferedOnce
  BY <1>4 DEF Accept
<1>5. ASSUME NEW p \in Peers, Refuse(p) PROVE OfferedOnce
  BY <1>5 DEF Refuse, RespondFailure
<1>6. ASSUME NEW m \in net, InviteToListener(m) PROVE OfferedOnce
  <2> DEFINE q == Other(m.from)
  <2>1. q \in Peers /\ m.n \in CSeqs /\ m.n \in Nat /\ m.n # 0
    BY ReceiverFacts, NumberFacts
  <2>2. /\ its' = [its EXCEPT ![q][m.n] = "proceeding"]
        /\ its[q][m.n] \notin {"proceeding", "completed", "confirmed"}
    BY <1>6 DEF InviteToListener, NewInvite
  <2>3. remote[q] < m.n /\ remote[q] \in Nat /\ invite_ts[q] \in Nat
    BY <1>6, <2>1 DEF InviteToListener, NewInvite
  <2>4. its[q][m.n] = "none" /\ m.n > invite_ts[q]
    BY <2>1, <2>3
  <2> HIDE DEF q
  <2> QED
    BY <2>1, <2>2, <2>4
<1>7. ASSUME NEW m \in net, InviteToDialog(m) PROVE OfferedOnce
  <2> DEFINE q == Other(m.from)
  <2>1. q \in Peers /\ m.n \in CSeqs /\ m.n \in Nat /\ m.n # 0
    BY ReceiverFacts, NumberFacts
  <2>2. /\ its' = [its EXCEPT ![q][m.n] = "proceeding"]
        /\ its[q][m.n] \notin {"proceeding", "completed", "confirmed"}
    BY <1>7 DEF InviteToDialog, NewInvite
  <2>3. remote[q] < m.n /\ remote[q] \in Nat /\ invite_ts[q] \in Nat
    BY <1>7, <2>1 DEF InviteToDialog, NewInvite
  <2>4. its[q][m.n] = "none" /\ m.n > invite_ts[q]
    BY <2>1, <2>3
  <2> HIDE DEF q
  <2> QED
    BY <2>1, <2>2, <2>4
<1>8. ASSUME NEW m \in net, InviteSuccess(m) PROVE OfferedOnce
  BY <1>8 DEF InviteSuccess
<1>9. ASSUME NEW m \in net, InviteFailure(m) PROVE OfferedOnce
  BY <1>9 DEF InviteFailure
<1>10. ASSUME NEW m \in net, FailureAck(m) PROVE OfferedOnce
  BY <1>10, ReceiverFacts DEF FailureAck
<1>11. ASSUME NEW m \in net, CancelToDialog(m) PROVE OfferedOnce
  BY <1>11, ReceiverFacts DEF CancelToDialog, RespondFailure
<1>12. ASSUME NEW m \in net, ByeResponse(m) PROVE OfferedOnce
  BY <1>12 DEF ByeResponse
<1>13. ASSUME NEW p \in Peers, NEW n \in CSeqs, Retransmit(p, n) PROVE OfferedOnce
  BY <1>13 DEF Retransmit
<1>14. ASSUME NEW p \in Peers, NEW n \in CSeqs, InviteTimeout(p, n) PROVE OfferedOnce
  BY <1>14 DEF InviteTimeout
<1>15. ASSUME NEW p \in Peers, NEW n \in CSeqs, EndTimeout(p, n) PROVE OfferedOnce
  BY <1>15 DEF EndTimeout
<1>16. ASSUME NEW p \in Peers, NEW n \in CSeqs, AckTimeout(p, n) PROVE OfferedOnce
  BY <1>16 DEF AckTimeout
<1>17. CASE UNCHANGED vars
  BY <1>17
<1> QED
  BY <1>1, <1>2, <1>3, <1>4, <1>5, <1>6, <1>7, <1>8, <1>9, <1>10, <1>11, <1>12, <1>13, <1>14, <1>15, <1>16, <1>17 DEF Next, User, Receive, Timeout

AnsweredCall ==
  \A p \in Peers : (Inviting(p) /\ status'[p] = "CALL") =>
    \E n \in CSeqs :
      /\ itc[p][n] \in {"trying", "proceeding"}
      /\ itc'[p][n] \in {"completed", "terminated"}
      /\ its[Other(p)][n] \in
           IF status[p] = "INVITING" THEN {"accepted"}
           ELSE {"accepted", "completed", "confirmed", "terminated"}

(* A call comes up on an answer. *)
LEMMA CallStep ==
  ASSUME TypeOK, Answers, [Next]_vars
  PROVE  AnsweredCall
<1> USE DEF AnsweredCall, TypeOK, Registered, Invited, Inviting, Answered, To,
            fields, clients, servers, vars
<1>1. ASSUME NEW p \in Peers,
          Ring(p) \/ Cancel(p) \/ CancelListening(p)
     PROVE  AnsweredCall
  BY <1>1 DEF Ring, Cancel, CancelListening
<1>2. ASSUME NEW m \in net,
          InviteAgain(m) \/ InviteProvisional(m) \/ InviteFailureAgain(m) \/ ResponseToDialog(m) \/ CancelAgain(m) \/ CancelResponse(m) \/ ByeAgain(m) \/ ProxyReject(m) \/ Lose(m)
     PROVE  AnsweredCall
  BY <1>2 DEF InviteAgain, InviteProvisional, InviteFailureAgain, ResponseToDialog, CancelAgain, CancelResponse, ByeAgain, ProxyReject, Lose
<1>3. ASSUME NEW p \in Peers, NEW n \in CSeqs,
          CancelTimeout(p, n) \/ EndTimeout(p, n) \/ ClientEndTimeout(p, n)
     PROVE  AnsweredCall
  BY <1>3 DEF CancelTimeout, EndTimeout, ClientEndTimeout
<1>4. ASSUME NEW p \in Peers, Listen(p) PROVE AnsweredCall
  BY <1>4 DEF Listen
<1>5. ASSUME NEW p \in Peers, Invite(p) PROVE AnsweredCall
  BY <1>5 DEF Invite, SendInvite
<1>6. ASSUME NEW p \in Peers, ReInvite(p) PROVE AnsweredCall
  BY <1>6 DEF ReInvite, SendInvite
<1>7. ASSUME NEW p \in Peers, Accept(p) PROVE AnsweredCall
  BY <1>7 DEF Accept
<1>8. ASSUME NEW p \in Peers, Refuse(p) PROVE AnsweredCall
  BY <1>8 DEF Refuse, RespondFailure
<1>9. ASSUME NEW p \in Peers, Bye(p) PROVE AnsweredCall
  BY <1>9 DEF Bye
<1>10. ASSUME NEW m \in net, InviteToListener(m) PROVE AnsweredCall
  BY <1>10, ReceiverFacts DEF InviteToListener, NewInvite
<1>11. ASSUME NEW m \in net, InviteToDialog(m) PROVE AnsweredCall
  BY <1>11, ReceiverFacts DEF InviteToDialog, NewInvite
<1>12. ASSUME NEW m \in net, InviteSuccess(m) PROVE AnsweredCall
  <2> DEFINE q == Other(m.from)
  <2>1. q \in Peers /\ m.n \in CSeqs /\ m.from = Other(q)
    BY ReceiverFacts, OtherFacts
  <2>2. its[Other(q)][m.n] \in {"accepted"}
    BY <1>12, <2>1 DEF InviteSuccess, Answers, RefusedStates
  <2>3. /\ itc[q][m.n] \in {"trying", "proceeding"}
        /\ itc'[q][m.n] \in {"completed", "terminated"}
        /\ \A p \in Peers \ {q} : status'[p] = status[p]
    BY <1>12, <2>1 DEF InviteSuccess
  <2> HIDE DEF q
  <2>4. ASSUME NEW p \in Peers, Inviting(p), status'[p] = "CALL"
        PROVE  p = q
    BY <2>3, <2>4
  <2> QED
    BY <2>1, <2>2, <2>3, <2>4 DEF RefusedStates
<1>13. ASSUME NEW m \in net, InviteFailure(m) PROVE AnsweredCall
  <2> DEFINE q == Other(m.from)
  <2>1. q \in Peers /\ m.n \in CSeqs /\ m.from = Other(q)
    BY ReceiverFacts, OtherFacts
  <2>2. its[Other(q)][m.n] \in RefusedStates
    BY <1>13, <2>1 DEF InviteFailure, Answers, RefusedStates
  <2>3. /\ itc[q][m.n] \in {"trying", "proceeding"}
        /\ itc'[q][m.n] \in {"completed", "terminated"}
        /\ \A p \in Peers \ {q} : status'[p] = status[p]
    BY <1>13, <2>1 DEF InviteFailure
  <2> HIDE DEF q
  <2>4. ASSUME NEW p \in Peers, Inviting(p), status'[p] = "CALL"
        PROVE  p = q /\ status[p] = "ReINVITING"
    BY <1>13, <2>1, <2>3, <2>4 DEF InviteFailure, q
  <2> QED
    BY <2>1, <2>2, <2>3, <2>4 DEF RefusedStates
<1>14. ASSUME NEW m \in net, AckToDialog(m) PROVE AnsweredCall
  BY <1>14, ReceiverFacts DEF AckToDialog
<1>15. ASSUME NEW m \in net, FailureAck(m) PROVE AnsweredCall
  BY <1>15, ReceiverFacts DEF FailureAck
<1>16. ASSUME NEW m \in net, CancelToDialog(m) PROVE AnsweredCall
  BY <1>16, ReceiverFacts DEF CancelToDialog, RespondFailure
<1>17. ASSUME NEW m \in net, ByeToDialog(m) PROVE AnsweredCall
  BY <1>17, ReceiverFacts DEF ByeToDialog
<1>18. ASSUME NEW m \in net, ByeResponse(m) PROVE AnsweredCall
  BY <1>18, ReceiverFacts DEF ByeResponse
<1>19. ASSUME NEW p \in Peers, NEW n \in CSeqs, Retransmit(p, n) PROVE AnsweredCall
  BY <1>19 DEF Retransmit
<1>20. ASSUME NEW p \in Peers, NEW n \in CSeqs, InviteTimeout(p, n) PROVE AnsweredCall
  <2>1. \/ status' = [status EXCEPT ![p] = "CLOSE"]
        \/ status' = status
    BY <1>20 DEF InviteTimeout
  <2>2. \A q \in Peers : status'[q] = "CALL" => status[q] = "CALL"
    BY <2>1
  <2> QED
    BY <2>2
<1>21. ASSUME NEW p \in Peers, NEW n \in CSeqs, ByeTimeout(p, n) PROVE AnsweredCall
  BY <1>21 DEF ByeTimeout
<1>22. ASSUME NEW p \in Peers, NEW n \in CSeqs, AckTimeout(p, n) PROVE AnsweredCall
  BY <1>22 DEF AckTimeout
<1>23. CASE UNCHANGED vars
  BY <1>23
<1> QED
  BY <1>1, <1>2, <1>3, <1>4, <1>5, <1>6, <1>7, <1>8, <1>9, <1>10, <1>11, <1>12, <1>13, <1>14, <1>15, <1>16, <1>17, <1>18, <1>19, <1>20, <1>21, <1>22, <1>23 DEF Next, User, Receive, Timeout

-----------------------------------------------------------------------------
(* The inductive invariant: Waits alone is preserved by every step that the
   type invariant allows, Answers needs that an INVITE is served once. *)
IInv == TypeOK /\ Numbers /\ Waits /\ Served /\ Answers

(* The invariant holds before the first call. *)
LEMMA IInvInit ==
  ASSUME Init
  PROVE  IInv
<1>1. \A n \in 1..MaxCSeq : n # 0
  OBVIOUS
<1> QED
  BY <1>1, NumberFacts DEF Init, IInv, TypeOK, Numbers, Waits, AnswerIsRepeated,
     InviteIsPending, ByeIsPending, Served, Answers, Statuses, Invited, Inviting, Answered

(* Every step of a user, a dialog, a timer or the network keeps the invariant. *)
LEMMA IInvStep ==
  ASSUME IInv, [Next]_vars
  PROVE  IInv'
  BY TypeStep, WaitsStep, ServedStep, AnswersStep DEF IInv

(* The types, the numbered requests, what each wait rests on and the answers  *)
(* under way hold together in every reachable state of the two dialogs, their *)
(* transactions and the network between them.                                *)
THEOREM Invariance == Spec => []IInv
<1>1. Init => IInv
  BY IInvInit
<1>2. IInv /\ [Next]_vars => IInv'
  BY IInvStep
<1> QED
  BY <1>1, <1>2, PTL DEF Spec

(* Every field, transaction and message keeps its type. *)
THEOREM TypeCorrect == Spec => []TypeOK
<1>1. IInv => TypeOK
  BY DEF IInv
<1> QED
  BY <1>1, Invariance, PTL

(* respond() leaves a dialog waiting for an ACK with a running
   AckTransactionServer for the answer it waits for. *)
THEOREM AnswerRepeated == Spec => []AnswerIsRepeated
<1>1. IInv => AnswerIsRepeated
  BY DEF IInv, Waits
<1> QED
  BY <1>1, Invariance, PTL

(* A dialog that is (re-)inviting has a live InviteTransactionClient for the
   INVITE it sent last. *)
THEOREM InvitePending == Spec => []InviteIsPending
<1>1. IInv => InviteIsPending
  BY DEF IInv, Waits
<1> QED
  BY <1>1, Invariance, PTL

(* A dialog that says BYE has a running TransactionClient for that BYE. *)
THEOREM ByePending == Spec => []ByeIsPending
<1>1. IInv => ByeIsPending
  BY DEF IInv, Waits
<1> QED
  BY <1>1, Invariance, PTL

(* No handler of InviteDialog takes a dialog out of D_CLOSE. *)
THEOREM ClosedForGood == Spec => CloseIsFinal
<1>1. IInv /\ [Next]_vars
        => [\A p \in Peers : status[p] = "CLOSE" => status'[p] = "CLOSE"]_status
  BY ClosedStep DEF IInv, ClosedStays
<1> QED
  BY <1>1, Invariance, PTL DEF Spec, CloseIsFinal

(* onDlgInvite() and onDlgReInvite() are called for new INVITEs only. *)
THEOREM OfferedInOrder == Spec => InviteOfferedOnce
<1>1. IInv /\ [Next]_vars
        => [\A p \in Peers, n \in CSeqs :
              (its'[p][n] = "proceeding" /\ its[p][n] # "proceeding")
                => its[p][n] = "none" /\ n > invite_ts[p]]_its
  BY OfferStep DEF IInv, OfferedOnce
<1> QED
  BY <1>1, Invariance, PTL DEF Spec, InviteOfferedOnce

(* A (re-)inviting dialog enters D_CALL on an answer of its peer only. *)
THEOREM CallAnswered == Spec => CallNeedsAnswer
<1>1. IInv /\ [Next]_vars => [AnsweredCall]_vars
  BY CallStep DEF IInv
<1> QED
  BY <1>1, Invariance, PTL DEF Spec, CallNeedsAnswer, AnsweredCall

-----------------------------------------------------------------------------
(***************************************************************************)
(* The two InviteDialogs of a call implement CallAgreement.                *)
(***************************************************************************)

(* Why the parties agree: who has joined, and what that was preceded by. *)
Joined   == ack_req[Caller] # 0
Accepted == its[Callee][1] = "accepted"

Phases ==
  /\ status[Caller] \notin {"WAITING", "INVITED", "ACCEPTED", "REFUSED"}
  /\ status[Callee] # "INVITING"
  /\ Joined => Accepted
  /\ status[Caller] = "INIT" => cseq[Caller] = 0
  /\ status[Caller] \in {"INIT", "INVITING"} => ~Joined
  /\ status[Caller] \notin {"INIT", "INVITING", "CLOSE"} => Joined
  /\ status[Callee] \notin {"INIT", "WAITING", "INVITED", "ACCEPTED", "REFUSED", "CLOSE"}
       => Joined
  /\ status[Callee] = "INVITED" => invite_ts[Callee] = 1
  /\ status[Callee] = "REFUSED" => its[Callee][1] \in RefusedStates

Starts ==
  \A n \in CSeqs :
    /\ itc[Caller][n] # "none" => status[Caller] # "INIT"
    /\ itc[Caller][n] # "none" /\ n # 1 => Joined
    /\ itc[Callee][n] # "none" => Joined
    /\ its[Callee][n] # "none" /\ n # 1 => Joined

Travels(m) ==
  /\ m.from = Caller /\ m.method = "ACK" => Joined
  /\ m.method = "INVITE" /\ m.code = "req" =>
       /\ m.from = Caller => status[Caller] # "INIT"
       /\ m.from = Callee \/ m.n # 1 => Joined

Agreed == Phases /\ Starts /\ \A m \in net : Travels(m)

(* The two parties of a call are all the peers there are. *)
LEMMA PartyFacts ==
  /\ Caller \in Peers /\ Callee \in Peers /\ Caller # Callee
  /\ Other(Caller) = Callee /\ Other(Callee) = Caller
  /\ \A p \in Peers : p = Caller \/ p = Callee
  /\ 1 \in CSeqs
  BY PeersAssumption, BoundAssumption DEF Other, Peers, CSeqs, MaxCSeq

(* Nobody is in the call before the other is. *)
LEMMA AgreedStep ==
  ASSUME TypeOK, Numbers, Served, Answers, Agreed, AnswersStay, [Next]_vars
  PROVE  Agreed'
<1> USE PartyFacts
<1> USE DEF TypeOK, AnswersStay, Agreed, Phases, Starts, Joined, Accepted, RefusedStates,
            Registered, Invited, Inviting, Answered, To, OpensDialog,
            fields, clients, servers, vars
<1>1. ASSUME NEW p \in Peers, Listen(p) PROVE Agreed'
  <2>1. Phases'
    BY <1>1 DEF Listen, Travels
  <2>2. Starts'
    BY <1>1 DEF Listen, Travels
  <2>3. \A x \in net' : Travels(x)'
    BY <1>1, NetContents DEF Listen, Travels, Req, Resp
  <2> QED
    BY <2>1, <2>2, <2>3
<1>2. ASSUME NEW p \in Peers, Invite(p) PROVE Agreed'
  <2>1. Phases'
    BY <1>2 DEF Invite, SendInvite, Travels
  <2>2. Starts'
    BY <1>2 DEF Invite, SendInvite, Travels
  <2>3. \A x \in net' : Travels(x)'
    BY <1>2, NetContents DEF Invite, SendInvite, Travels, Req, Resp
  <2> QED
    BY <2>1, <2>2, <2>3
<1>3. ASSUME NEW p \in Peers, ReInvite(p) PROVE Agreed'
  <2>1. Phases'
    BY <1>3 DEF ReInvite, SendInvite, Travels
  <2>2. Starts'
    BY <1>3 DEF ReInvite, SendInvite, Travels
  <2>3. \A x \in net' : Travels(x)'
    BY <1>3, NetContents DEF ReInvite, SendInvite, Travels, Req, Resp
  <2> QED
    BY <2>1, <2>2, <2>3
<1>4. ASSUME NEW p \in Peers, Ring(p) PROVE Agreed'
  <2>1. Phases'
    BY <1>4 DEF Ring, Travels
  <2>2. Starts'
    BY <1>4 DEF Ring, Travels
  <2>3. \A x \in net' : Travels(x)'
    BY <1>4, NetContents DEF Ring, Travels, Req, Resp
  <2> QED
    BY <2>1, <2>2, <2>3
<1>5. ASSUME NEW p \in Peers, Accept(p) PROVE Agreed'
  <2>1. Phases'
    BY <1>5 DEF Accept, Travels
  <2>2. Starts'
    BY <1>5 DEF Accept, Travels
  <2>3. \A x \in net' : Travels(x)'
    BY <1>5, NetContents DEF Accept, Travels, Req, Resp
  <2> QED
    BY <2>1, <2>2, <2>3
<1>6. ASSUME NEW p \in Peers, Refuse(p) PROVE Agreed'
  <2>1. Phases'
    BY <1>6 DEF Refuse, RespondFailure, Travels
  <2>2. Starts'
    BY <1>6 DEF Refuse, RespondFailure, Travels
  <2>3. \A x \in net' : Travels(x)'
    BY <1>6, NetContents DEF Refuse, RespondFailure, Travels, Req, Resp
  <2> QED
    BY <2>1, <2>2, <2>3
<1>7. ASSUME NEW p \in Peers, Cancel(p) PROVE Agreed'
  <2>1. Phases'
    BY <1>7 DEF Cancel, Travels
  <2>2. Starts'
    BY <1>7 DEF Cancel, Travels
  <2>3. \A x \in net' : Travels(x)'
    BY <1>7, NetContents DEF Cancel, Travels, Req, Resp
  <2> QED
    BY <2>1, <2>2, <2>3
<1>8. ASSUME NEW p \in Peers, CancelListening(p) PROVE Agreed'
  <2>1. Phases'
    BY <1>8 DEF CancelListening, Travels
  <2>2. Starts'
    BY <1>8 DEF CancelListening, Travels
  <2>3. \A x \in net' : Travels(x)'
    BY <1>8, NetContents DEF CancelListening, Travels, Req, Resp
  <2> QED
    BY <2>1, <2>2, <2>3
<1>9. ASSUME NEW p \in Peers, Bye(p) PROVE Agreed'
  <2>1. Phases'
    BY <1>9 DEF Bye, Travels
  <2>2. Starts'
    BY <1>9 DEF Bye, Travels
  <2>3. \A x \in net' : Travels(x)'
    BY <1>9, NetContents DEF Bye, Travels, Req, Resp
  <2> QED
    BY <2>1, <2>2, <2>3
<1>10. ASSUME NEW m \in net, InviteAgain(m) PROVE Agreed'
  <2>1. Phases'
    BY <1>10, ReceiverFacts DEF InviteAgain, Travels
  <2>2. Starts'
    BY <1>10, ReceiverFacts DEF InviteAgain, Travels
  <2>3. \A x \in net' : Travels(x)'
    BY <1>10, NetContents, ReceiverFacts DEF InviteAgain, Travels, Req, Resp
  <2> QED
    BY <2>1, <2>2, <2>3
<1>11. ASSUME NEW m \in net, InviteToListener(m) PROVE Agreed'
  <2>1. Phases'
    BY <1>11, ReceiverFacts DEF InviteToListener, NewInvite, Travels
  <2>2. Starts'
    BY <1>11, ReceiverFacts DEF InviteToListener, NewInvite, Travels
  <2>3. \A x \in net' : Travels(x)'
    BY <1>11, NetContents, ReceiverFacts DEF InviteToListener, NewInvite, Travels, Req, Resp
  <2> QED
    BY <2>1, <2>2, <2>3
<1>12. ASSUME NEW m \in net, InviteToDialog(m) PROVE Agreed'
  <2>1. Phases'
    BY <1>12, ReceiverFacts DEF InviteToDialog, NewInvite, Travels
  <2>2. Starts'
    BY <1>12, ReceiverFacts DEF InviteToDialog, NewInvite, Travels
  <2>3. \A x \in net' : Travels(x)'
    BY <1>12, NetContents, ReceiverFacts DEF InviteToDialog, NewInvite, Travels, Req, Resp
  <2> QED
    BY <2>1, <2>2, <2>3
<1>13. ASSUME NEW m \in net, InviteProvisional(m) PROVE Agreed'
  <2>1. Phases'
    BY <1>13, ReceiverFacts DEF InviteProvisional, Travels
  <2>2. Starts'
    BY <1>13, ReceiverFacts DEF InviteProvisional, Travels
  <2>3. \A x \in net' : Travels(x)'
    BY <1>13, NetContents, ReceiverFacts DEF InviteProvisional, Travels, Req, Resp
  <2> QED
    BY <2>1, <2>2, <2>3
<1>14. ASSUME NEW m \in net, InviteSuccess(m) PROVE Agreed'
  <2>1. Phases'
    <3>1. CASE ~Inviting(Other(m.from))
      BY <1>14, <3>1, ReceiverFacts DEF InviteSuccess
    <3>2. CASE Inviting(Callee) /\ m.from = Caller
      BY <1>14, <3>2, ReceiverFacts DEF InviteSuccess
    <3>3. CASE Inviting(Caller) /\ m.from = Callee
      <4>1. itc[Caller][m.n] # "none" /\ its[Callee][m.n] = "accepted" /\ m.n # 0 /\ m.n \in CSeqs
        BY <1>14, <3>3, ReceiverFacts DEF InviteSuccess, Answers
      <4>2. Accepted
        BY <3>3, <4>1
      <4>3. /\ status' = [status EXCEPT ![Caller] = "CALL"]
            /\ ack_req' = [ack_req EXCEPT ![Caller] = m.n]
            /\ UNCHANGED <<its, invite_ts>>
        BY <1>14, <3>3 DEF InviteSuccess
      <4> QED
        BY <4>1, <4>2, <4>3
    <3>4. \/ m.from = Caller /\ Other(m.from) = Callee
          \/ m.from = Callee /\ Other(m.from) = Caller
      BY ReceiverFacts
    <3> HIDE DEF Phases
    <3> QED
      BY <3>1, <3>2, <3>3, <3>4
  <2>2. Starts'
    BY <1>14, ReceiverFacts DEF InviteSuccess, Travels
  <2>3. \A x \in net' : Travels(x)'
    BY <1>14, NetContents, ReceiverFacts DEF InviteSuccess, Travels, Req, Resp
  <2> QED
    BY <2>1, <2>2, <2>3
<1>15. ASSUME NEW m \in net, InviteFailure(m) PROVE Agreed'
  <2>1. Phases'
    BY <1>15, ReceiverFacts DEF InviteFailure, Travels
  <2>2. Starts'
    BY <1>15, ReceiverFacts DEF InviteFailure, Travels
  <2>3. \A x \in net' : Travels(x)'
    BY <1>15, NetContents, ReceiverFacts DEF InviteFailure, Travels, Req, Resp
  <2> QED
    BY <2>1, <2>2, <2>3
<1>16. ASSUME NEW m \in net, InviteFailureAgain(m) PROVE Agreed'
  <2>1. Phases'
    BY <1>16, ReceiverFacts DEF InviteFailureAgain, Travels
  <2>2. Starts'
    BY <1>16, ReceiverFacts DEF InviteFailureAgain, Travels
  <2>3. \A x \in net' : Travels(x)'
    BY <1>16, NetContents, ReceiverFacts DEF InviteFailureAgain, Travels, Req, Resp
  <2> QED
    BY <2>1, <2>2, <2>3
<1>17. ASSUME NEW m \in net, ResponseToDialog(m) PROVE Agreed'
  <2>1. Phases'
    BY <1>17, ReceiverFacts DEF ResponseToDialog, Travels
  <2>2. Starts'
    BY <1>17, ReceiverFacts DEF ResponseToDialog, Travels
  <2>3. \A x \in net' : Travels(x)'
    BY <1>17, NetContents, ReceiverFacts DEF ResponseToDialog, Travels, Req, Resp
  <2> QED
    BY <2>1, <2>2, <2>3
<1>18. ASSUME NEW m \in net, AckToDialog(m) PROVE Agreed'
  <2>1. Phases'
    BY <1>18, ReceiverFacts DEF AckToDialog, Travels
  <2>2. Starts'
    BY <1>18, ReceiverFacts DEF AckToDialog, Travels
  <2>3. \A x \in net' : Travels(x)'
    BY <1>18, NetContents, ReceiverFacts DEF AckToDialog, Travels, Req, Resp
  <2> QED
    BY <2>1, <2>2, <2>3
<1>19. ASSUME NEW m \in net, FailureAck(m) PROVE Agreed'
  <2>1. Phases'
    BY <1>19, ReceiverFacts DEF FailureAck, Travels
  <2>2. Starts'
    BY <1>19, ReceiverFacts DEF FailureAck, Travels
  <2>3. \A x \in net' : Travels(x)'
    BY <1>19, NetContents, ReceiverFacts DEF FailureAck, Travels, Req, Resp
  <2> QED
    BY <2>1, <2>2, <2>3
<1>20. ASSUME NEW m \in net, CancelToDialog(m) PROVE Agreed'
  <2>1. Phases'
    <3>1. CASE m.from = Caller
      BY <1>20, <3>1, ReceiverFacts DEF CancelToDialog, RespondFailure, Travels
    <3>2. CASE m.from = Callee
      BY <1>20, <3>2, ReceiverFacts DEF CancelToDialog, RespondFailure, Travels
    <3> QED
      BY <3>1, <3>2, ReceiverFacts
  <2>2. Starts'
    BY <1>20, ReceiverFacts DEF CancelToDialog, RespondFailure, Travels
  <2>3. \A x \in net' : Travels(x)'
    BY <1>20, NetContents, ReceiverFacts DEF CancelToDialog, RespondFailure, Travels, Req, Resp
  <2> QED
    BY <2>1, <2>2, <2>3
<1>21. ASSUME NEW m \in net, CancelAgain(m) PROVE Agreed'
  <2>1. Phases'
    BY <1>21, ReceiverFacts DEF CancelAgain, Travels
  <2>2. Starts'
    BY <1>21, ReceiverFacts DEF CancelAgain, Travels
  <2>3. \A x \in net' : Travels(x)'
    BY <1>21, NetContents, ReceiverFacts DEF CancelAgain, Travels, Req, Resp
  <2> QED
    BY <2>1, <2>2, <2>3
<1>22. ASSUME NEW m \in net, CancelResponse(m) PROVE Agreed'
  <2>1. Phases'
    BY <1>22, ReceiverFacts DEF CancelResponse, Travels
  <2>2. Starts'
    BY <1>22, ReceiverFacts DEF CancelResponse, Travels
  <2>3. \A x \in net' : Travels(x)'
    BY <1>22, NetContents, ReceiverFacts DEF CancelResponse, Travels, Req, Resp
  <2> QED
    BY <2>1, <2>2, <2>3
<1>23. ASSUME NEW m \in net, ByeToDialog(m) PROVE Agreed'
  <2>1. Phases'
    BY <1>23, ReceiverFacts DEF ByeToDialog, Travels
  <2>2. Starts'
    BY <1>23, ReceiverFacts DEF ByeToDialog, Travels
  <2>3. \A x \in net' : Travels(x)'
    BY <1>23, NetContents, ReceiverFacts DEF ByeToDialog, Travels, Req, Resp
  <2> QED
    BY <2>1, <2>2, <2>3
<1>24. ASSUME NEW m \in net, ByeAgain(m) PROVE Agreed'
  <2>1. Phases'
    BY <1>24, ReceiverFacts DEF ByeAgain, Travels
  <2>2. Starts'
    BY <1>24, ReceiverFacts DEF ByeAgain, Travels
  <2>3. \A x \in net' : Travels(x)'
    BY <1>24, NetContents, ReceiverFacts DEF ByeAgain, Travels, Req, Resp
  <2> QED
    BY <2>1, <2>2, <2>3
<1>25. ASSUME NEW m \in net, ByeResponse(m) PROVE Agreed'
  <2>1. Phases'
    BY <1>25, ReceiverFacts DEF ByeResponse, Travels
  <2>2. Starts'
    BY <1>25, ReceiverFacts DEF ByeResponse, Travels
  <2>3. \A x \in net' : Travels(x)'
    BY <1>25, NetContents, ReceiverFacts DEF ByeResponse, Travels, Req, Resp
  <2> QED
    BY <2>1, <2>2, <2>3
<1>26. ASSUME NEW m \in net, ProxyReject(m) PROVE Agreed'
  <2>1. Phases'
    BY <1>26, ReceiverFacts DEF ProxyReject, Travels
  <2>2. Starts'
    BY <1>26, ReceiverFacts DEF ProxyReject, Travels
  <2>3. \A x \in net' : Travels(x)'
    BY <1>26, NetContents, ReceiverFacts DEF ProxyReject, Travels, Req, Resp
  <2> QED
    BY <2>1, <2>2, <2>3
<1>27. ASSUME NEW m \in net, Lose(m) PROVE Agreed'
  <2>1. Phases'
    BY <1>27, ReceiverFacts DEF Lose, Travels
  <2>2. Starts'
    BY <1>27, ReceiverFacts DEF Lose, Travels
  <2>3. \A x \in net' : Travels(x)'
    BY <1>27, NetContents, ReceiverFacts DEF Lose, Travels, Req, Resp
  <2> QED
    BY <2>1, <2>2, <2>3
<1>28. ASSUME NEW p \in Peers, NEW n \in CSeqs, Retransmit(p, n) PROVE Agreed'
  <2>1. Phases'
    BY <1>28 DEF Retransmit, Travels
  <2>2. Starts'
    BY <1>28 DEF Retransmit, Travels
  <2>3. \A x \in net' : Travels(x)'
    BY <1>28, NetContents DEF Retransmit, Travels, Req, Resp
  <2> QED
    BY <2>1, <2>2, <2>3
<1>29. ASSUME NEW p \in Peers, NEW n \in CSeqs, InviteTimeout(p, n) PROVE Agreed'
  <2>1. Phases'
    BY <1>29 DEF InviteTimeout, Travels
  <2>2. Starts'
    BY <1>29 DEF InviteTimeout, Travels
  <2>3. \A x \in net' : Travels(x)'
    BY <1>29, NetContents DEF InviteTimeout, Travels, Req, Resp
  <2> QED
    BY <2>1, <2>2, <2>3
<1>30. ASSUME NEW p \in Peers, NEW n \in CSeqs, ByeTimeout(p, n) PROVE Agreed'
  <2>1. Phases'
    BY <1>30 DEF ByeTimeout, Travels
  <2>2. Starts'
    BY <1>30 DEF ByeTimeout, Travels
  <2>3. \A x \in net' : Travels(x)'
    BY <1>30, NetContents DEF ByeTimeout, Travels, Req, Resp
  <2> QED
    BY <2>1, <2>2, <2>3
<1>31. ASSUME NEW p \in Peers, NEW n \in CSeqs, CancelTimeout(p, n) PROVE Agreed'
  <2>1. Phases'
    BY <1>31 DEF CancelTimeout, Travels
  <2>2. Starts'
    BY <1>31 DEF CancelTimeout, Travels
  <2>3. \A x \in net' : Travels(x)'
    BY <1>31, NetContents DEF CancelTimeout, Travels, Req, Resp
  <2> QED
    BY <2>1, <2>2, <2>3
<1>32. ASSUME NEW p \in Peers, NEW n \in CSeqs, EndTimeout(p, n) PROVE Agreed'
  <2>1. Phases'
    BY <1>32 DEF EndTimeout, Travels
  <2>2. Starts'
    BY <1>32 DEF EndTimeout, Travels
  <2>3. \A x \in net' : Travels(x)'
    BY <1>32, NetContents DEF EndTimeout, Travels, Req, Resp
  <2> QED
    BY <2>1, <2>2, <2>3
<1>33. ASSUME NEW p \in Peers, NEW n \in CSeqs, ClientEndTimeout(p, n) PROVE Agreed'
  <2>1. Phases'
    BY <1>33 DEF ClientEndTimeout, Travels
  <2>2. Starts'
    BY <1>33 DEF ClientEndTimeout, Travels
  <2>3. \A x \in net' : Travels(x)'
    BY <1>33, NetContents DEF ClientEndTimeout, Travels, Req, Resp
  <2> QED
    BY <2>1, <2>2, <2>3
<1>34. ASSUME NEW p \in Peers, NEW n \in CSeqs, AckTimeout(p, n) PROVE Agreed'
  <2>1. Phases'
    BY <1>34 DEF AckTimeout, Travels
  <2>2. Starts'
    BY <1>34 DEF AckTimeout, Travels
  <2>3. \A x \in net' : Travels(x)'
    BY <1>34, NetContents DEF AckTimeout, Travels, Req, Resp
  <2> QED
    BY <2>1, <2>2, <2>3
<1>35. CASE UNCHANGED vars
  BY <1>35 DEF Travels
<1> QED
  BY <1>1, <1>2, <1>3, <1>4, <1>5, <1>6, <1>7, <1>8, <1>9, <1>10, <1>11, <1>12, <1>13, <1>14, <1>15, <1>16, <1>17, <1>18, <1>19, <1>20, <1>21, <1>22, <1>23, <1>24, <1>25, <1>26, <1>27, <1>28, <1>29, <1>30, <1>31, <1>32, <1>33, <1>34, <1>35 DEF Next, User, Receive, Timeout

(* Every step of the two dialogs is a step of CallAgreement or none. *)
LEMMA AgreementStep ==
  ASSUME TypeOK, Numbers, Served, Answers, Agreed, AnswersStay, Agreed', [Next]_vars
  PROVE  [Agreement!Next]_(Agreement!vars)
<1> USE PartyFacts
<1> USE DEF TypeOK, AnswersStay, Agreed, Phases, Joined, Accepted, RefusedStates,
            Registered, Invited, Inviting, Answered, To, OpensDialog,
            fields, clients, servers, vars, CallerPhase, CalleePhase,
            Agreement!vars
<1>1. ASSUME NEW p \in Peers, Listen(p) PROVE [Agreement!Next]_(Agreement!vars)
  BY <1>1 DEF Listen, Travels, Served
<1>2. ASSUME NEW p \in Peers, Invite(p) PROVE [Agreement!Next]_(Agreement!vars)
  BY <1>2 DEF Invite, SendInvite, Travels, Served, Agreement!Offer, Agreement!Next
<1>3. ASSUME NEW p \in Peers, ReInvite(p) PROVE [Agreement!Next]_(Agreement!vars)
  BY <1>3 DEF ReInvite, SendInvite, Travels, Served
<1>4. ASSUME NEW p \in Peers, Ring(p) PROVE [Agreement!Next]_(Agreement!vars)
  BY <1>4 DEF Ring, Travels, Served
<1>5. ASSUME NEW p \in Peers, Accept(p) PROVE [Agreement!Next]_(Agreement!vars)
  BY <1>5 DEF Accept, Travels, Served, Agreement!Accept, Agreement!Next
<1>6. ASSUME NEW p \in Peers, Refuse(p) PROVE [Agreement!Next]_(Agreement!vars)
  BY <1>6 DEF Refuse, RespondFailure, Travels, Served, Agreement!Refuse, Agreement!Next
<1>7. ASSUME NEW p \in Peers, Cancel(p) PROVE [Agreement!Next]_(Agreement!vars)
  BY <1>7 DEF Cancel, Travels, Served
<1>8. ASSUME NEW p \in Peers, CancelListening(p) PROVE [Agreement!Next]_(Agreement!vars)
  BY <1>8 DEF CancelListening, Travels, Served
<1>9. ASSUME NEW p \in Peers, Bye(p) PROVE [Agreement!Next]_(Agreement!vars)
  BY <1>9 DEF Bye, Travels, Served
<1>10. ASSUME NEW m \in net, InviteAgain(m) PROVE [Agreement!Next]_(Agreement!vars)
  BY <1>10, ReceiverFacts DEF InviteAgain, Travels, Served
<1>11. ASSUME NEW m \in net, InviteToListener(m) PROVE [Agreement!Next]_(Agreement!vars)
  BY <1>11, ReceiverFacts DEF InviteToListener, NewInvite, Travels, Served, Agreement!Rung, Agreement!Next
<1>12. ASSUME NEW m \in net, InviteToDialog(m) PROVE [Agreement!Next]_(Agreement!vars)
  <2>1. CASE m.from = Caller
    BY <1>12, <2>1, ReceiverFacts DEF InviteToDialog, NewInvite, Travels, Served, Agreement!Settle, Agreement!Next
  <2>2. CASE m.from = Callee
    BY <1>12, <2>2, ReceiverFacts DEF InviteToDialog, NewInvite, Travels, Served, Agreement!Settle, Agreement!Next
  <2> QED
    BY <2>1, <2>2, ReceiverFacts
<1>13. ASSUME NEW m \in net, InviteProvisional(m) PROVE [Agreement!Next]_(Agreement!vars)
  BY <1>13, ReceiverFacts DEF InviteProvisional, Travels, Served
<1>14. ASSUME NEW m \in net, InviteSuccess(m) PROVE [Agreement!Next]_(Agreement!vars)
  BY <1>14, ReceiverFacts DEF InviteSuccess, Travels, Served, Agreement!Join, Agreement!Next
<1>15. ASSUME NEW m \in net, InviteFailure(m) PROVE [Agreement!Next]_(Agreement!vars)
  BY <1>15, ReceiverFacts DEF InviteFailure, Travels, Served, Agreement!CallerEnds, Agreement!Next
<1>16. ASSUME NEW m \in net, InviteFailureAgain(m) PROVE [Agreement!Next]_(Agreement!vars)
  BY <1>16, ReceiverFacts DEF InviteFailureAgain, Travels, Served
<1>17. ASSUME NEW m \in net, ResponseToDialog(m) PROVE [Agreement!Next]_(Agreement!vars)
  BY <1>17, ReceiverFacts DEF ResponseToDialog, Travels, Served
<1>18. ASSUME NEW m \in net, AckToDialog(m) PROVE [Agreement!Next]_(Agreement!vars)
  BY <1>18, ReceiverFacts DEF AckToDialog, Travels, Served, Agreement!Settle, Agreement!Next
<1>19. ASSUME NEW m \in net, FailureAck(m) PROVE [Agreement!Next]_(Agreement!vars)
  BY <1>19, ReceiverFacts DEF FailureAck, Travels, Served, Agreement!CalleeEnds, Agreement!Next
<1>20. ASSUME NEW m \in net, CancelToDialog(m) PROVE [Agreement!Next]_(Agreement!vars)
  <2>1. CASE m.from = Caller
    BY <1>20, <2>1, ReceiverFacts DEF CancelToDialog, RespondFailure, Travels, Served, Agreement!Refuse, Agreement!Next
  <2>2. CASE m.from = Callee
    BY <1>20, <2>2, ReceiverFacts DEF CancelToDialog, RespondFailure, Travels, Served, Agreement!Refuse, Agreement!Next
  <2> QED
    BY <2>1, <2>2, ReceiverFacts
<1>21. ASSUME NEW m \in net, CancelAgain(m) PROVE [Agreement!Next]_(Agreement!vars)
  BY <1>21, ReceiverFacts DEF CancelAgain, Travels, Served
<1>22. ASSUME NEW m \in net, CancelResponse(m) PROVE [Agreement!Next]_(Agreement!vars)
  BY <1>22, ReceiverFacts DEF CancelResponse, Travels, Served
<1>23. ASSUME NEW m \in net, ByeToDialog(m) PROVE [Agreement!Next]_(Agreement!vars)
  BY <1>23, ReceiverFacts DEF ByeToDialog, Travels, Served, Agreement!CallerEnds, Agreement!CalleeEnds, Agreement!Next
<1>24. ASSUME NEW m \in net, ByeAgain(m) PROVE [Agreement!Next]_(Agreement!vars)
  BY <1>24, ReceiverFacts DEF ByeAgain, Travels, Served
<1>25. ASSUME NEW m \in net, ByeResponse(m) PROVE [Agreement!Next]_(Agreement!vars)
  BY <1>25, ReceiverFacts DEF ByeResponse, Travels, Served, Agreement!CallerEnds, Agreement!CalleeEnds, Agreement!Next
<1>26. ASSUME NEW m \in net, ProxyReject(m) PROVE [Agreement!Next]_(Agreement!vars)
  BY <1>26, ReceiverFacts DEF ProxyReject, Travels, Served
<1>27. ASSUME NEW m \in net, Lose(m) PROVE [Agreement!Next]_(Agreement!vars)
  BY <1>27, ReceiverFacts DEF Lose, Travels, Served
<1>28. ASSUME NEW p \in Peers, NEW n \in CSeqs, Retransmit(p, n) PROVE [Agreement!Next]_(Agreement!vars)
  BY <1>28 DEF Retransmit, Travels, Served
<1>29. ASSUME NEW p \in Peers, NEW n \in CSeqs, InviteTimeout(p, n) PROVE [Agreement!Next]_(Agreement!vars)
  BY <1>29 DEF InviteTimeout, Travels, Served, Agreement!CallerEnds, Agreement!CalleeEnds, Agreement!Next
<1>30. ASSUME NEW p \in Peers, NEW n \in CSeqs, ByeTimeout(p, n) PROVE [Agreement!Next]_(Agreement!vars)
  BY <1>30 DEF ByeTimeout, Travels, Served, Agreement!CallerEnds, Agreement!CalleeEnds, Agreement!Next
<1>31. ASSUME NEW p \in Peers, NEW n \in CSeqs, CancelTimeout(p, n) PROVE [Agreement!Next]_(Agreement!vars)
  BY <1>31 DEF CancelTimeout, Travels, Served
<1>32. ASSUME NEW p \in Peers, NEW n \in CSeqs, EndTimeout(p, n) PROVE [Agreement!Next]_(Agreement!vars)
  BY <1>32 DEF EndTimeout, Travels, Served
<1>33. ASSUME NEW p \in Peers, NEW n \in CSeqs, ClientEndTimeout(p, n) PROVE [Agreement!Next]_(Agreement!vars)
  BY <1>33 DEF ClientEndTimeout, Travels, Served
<1>34. ASSUME NEW p \in Peers, NEW n \in CSeqs, AckTimeout(p, n) PROVE [Agreement!Next]_(Agreement!vars)
  BY <1>34 DEF AckTimeout, Travels, Served, Agreement!CallerEnds, Agreement!CalleeEnds, Agreement!Next
<1>35. CASE UNCHANGED vars
  BY <1>35
<1> QED
  BY <1>1, <1>2, <1>3, <1>4, <1>5, <1>6, <1>7, <1>8, <1>9, <1>10, <1>11, <1>12, <1>13, <1>14, <1>15, <1>16, <1>17, <1>18, <1>19, <1>20, <1>21, <1>22, <1>23, <1>24, <1>25, <1>26, <1>27, <1>28, <1>29, <1>30, <1>31, <1>32, <1>33, <1>34, <1>35 DEF Next, User, Receive, Timeout

-----------------------------------------------------------------------------
(* Both dialogs start where the call starts. *)
LEMMA AgreedInit ==
  ASSUME Init
  PROVE  Agreed /\ Agreement!Init
  BY PartyFacts DEF Init, Agreed, Phases, Starts, Joined, Accepted, Agreement!Init,
     CallerPhase, CalleePhase

(* The lossy protocol of InviteDialog keeps the promise of CallAgreement. *)
THEOREM Refinement == Spec => AgreementKept
<1>1. Init => Agreed /\ Agreement!Init
  BY AgreedInit
<1>2. IInv /\ Agreed /\ [Next]_vars => Agreed' /\ [Agreement!Next]_(Agreement!vars)
  BY AnswerStays, AgreedStep, AgreementStep DEF IInv
<1> QED
  BY <1>1, <1>2, Invariance, PTL DEF Spec, AgreementKept, Agreement!Spec

=============================================================================
