------------------------------ MODULE MCSockets ------------------------------
(***************************************************************************)
(* An instance of Sockets for TLC.  One thread calls every function, the   *)
(* other those that change what a number means for somebody else.          *)
(***************************************************************************)
EXTENDS Sockets, TLC

CONSTANTS t1, t2

MCUses ==
  (t1 :> {<<"receive", 1>>, <<"accept", None>>, <<"look", None>>, <<"read", None>>,
          <<"read", 0>>, <<"receiveStream", 0>>, <<"connect", 1>>, <<"send", None>>,
          <<"close", None>>}) @@
  (t2 :> {<<"receive", None>>, <<"close", None>>})

=============================================================================
