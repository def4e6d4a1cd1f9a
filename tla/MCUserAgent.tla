----------------------------- MODULE MCUserAgent -----------------------------
(* Two accounts, which differ in nothing. *)
EXTENDS UserAgent, TLC

Accounts == Permutations(Agents)

(* What is left of replaced Calls is read by Orphan alone, and by no property
   but NoCallLeftBehind. *)
WithoutOrphans ==
  <<phone, active, state, dialog, media, transfer, threads, history>>

(* Bound: once a thread came too late, no command waits and no transfer is under
   way, until the phone has been idle with no thread in the middle of anything. *)
FewOnceRaced ==
  raced => commands = {} /\ modifying = {} /\ \A u \in Agents : transfer[u] = "none"
=============================================================================
