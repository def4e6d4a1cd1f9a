--------------------------- MODULE CallAgreement ---------------------------
(***************************************************************************)
(* What the two InviteDialogs of a call promise their users, whatever the  *)
(* network does: the callee is rung after the caller has called, the       *)
(* caller is in the call only after the callee has accepted it, the callee *)
(* only after the caller has heard of that, a refused or closed call never *)
(* comes up again, and either party may be left without the other.         *)
(***************************************************************************)
VARIABLES
  caller,        \* how far the caller is in the call
  callee,        \* how far the callee is
  accepted,      \* has the user of the callee accepted?
  joined         \* has the caller heard of it?

vars == <<caller, callee, accepted, joined>>

TypeOK ==
  /\ caller \in {"idle", "setup", "up", "over"}
  /\ callee \in {"idle", "setup", "accepted", "refused", "up", "over"}
  /\ accepted \in BOOLEAN
  /\ joined \in BOOLEAN

Init ==
  /\ caller = "idle"
  /\ callee = "idle"
  /\ accepted = FALSE
  /\ joined = FALSE

(* The caller calls; the callee is rung. *)
Offer ==
  /\ caller = "idle"
  /\ caller' = "setup"
  /\ UNCHANGED <<callee, accepted, joined>>

Rung ==
  /\ callee = "idle" /\ caller # "idle"
  /\ callee' = "setup"
  /\ UNCHANGED <<caller, accepted, joined>>

(* The user of the callee accepts or refuses. *)
Accept ==
  /\ callee = "setup"
  /\ callee' = "accepted"
  /\ accepted' = TRUE
  /\ UNCHANGED <<caller, joined>>

Refuse ==
  /\ callee = "setup"
  /\ callee' = "refused"
  /\ UNCHANGED <<caller, accepted, joined>>

(* The caller hears of the acceptance; the callee hears of the caller. *)
Join ==
  /\ caller = "setup" /\ accepted
  /\ caller' = "up"
  /\ joined' = TRUE
  /\ UNCHANGED <<callee, accepted>>

Settle ==
  /\ callee = "accepted" /\ joined
  /\ callee' = "up"
  /\ UNCHANGED <<caller, accepted, joined>>

(* Either party gives up or hangs up. *)
CallerEnds ==
  /\ caller \in {"setup", "up"}
  /\ caller' = "over"
  /\ UNCHANGED <<callee, accepted, joined>>

CalleeEnds ==
  /\ callee \in {"accepted", "refused", "up"}
  /\ callee' = "over"
  /\ UNCHANGED <<caller, accepted, joined>>

Next ==
  \/ Offer \/ Rung \/ Accept \/ Refuse \/ Join \/ Settle
  \/ CallerEnds \/ CalleeEnds

Spec == Init /\ [][Next]_vars
=============================================================================
