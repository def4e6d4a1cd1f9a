--------------------------- MODULE MCInviteDialog ---------------------------
(* One call between two parties.  They are not symmetric: only the caller opens
   the call, and each run gives them different numbers of requests. *)
EXTENDS InviteDialog
CONSTANTS caller, callee
=============================================================================
