------------------------------ MODULE FramePipe ------------------------------
(***************************************************************************)
(* What a speech codec promises over a network that may lose packets.  The *)
(* frames of a packet that arrives as it was sent are heard, each as it    *)
(* was encoded, in their order, and all of them: with one exception.  What *)
(* is heard of a damaged packet is not determined, and it may leave the    *)
(* decoder astray for packets of one rate.  A packet of that rate is then  *)
(* misread, though it arrives as it was sent; one of another rate is not,  *)
(* and puts the decoder right.  A lost packet is concealed, and leaves the *)
(* decoder as it was.                                                      *)
(***************************************************************************)
EXTENDS Sequences, Naturals

VARIABLES
  building,            \* the frames encoded so far into a packet
  flight,              \* the packet on its way
  playing,             \* what is left of the packet that is being decoded
  heard,               \* what the decoder returned
  astray               \* the rate whose packets the decoder misreads, if any

vars == <<building, flight, playing, heard, astray>>

Is(kind, frames) == [kind |-> kind, frames |-> frames]

Nothing   == Is("nothing", <<>>)
Damaged   == Is("damaged", <<>>)
Concealed == Is("concealed", <<>>)
Whole(frames) == IF frames = <<>> THEN Nothing ELSE Is("whole", frames)

OneMore(frames) == Len(frames) = Len(building) + 1 /\ SubSeq(frames, 1, Len(building)) = building

Init ==
  /\ building = <<>> /\ flight = Nothing /\ playing = Nothing /\ heard = Nothing
  /\ astray = {}

(* A frame joins the packet, or the packet is given up. *)
Build ==
  /\ building' = <<>> \/ OneMore(building')
  /\ UNCHANGED <<flight, playing, heard, astray>>

(* A last frame joins it, and it is sent. *)
Send ==
  /\ flight = Nothing
  /\ flight' = Is("whole", flight'.frames) /\ OneMore(flight'.frames)
  /\ building' = <<>>
  /\ UNCHANGED <<playing, heard, astray>>

Stray ==
  /\ flight = Nothing /\ flight' = Damaged
  /\ UNCHANGED <<building, playing, heard, astray>>

(* The network loses the packet, or it is too long to be decoded. *)
Lose ==
  /\ flight # Nothing /\ heard = Nothing
  /\ flight' = Nothing /\ heard' = Concealed
  /\ UNCHANGED <<building, playing, astray>>

(* The decoder goes on with the packet it has, or takes the one that arrives. *)
Given == IF playing = Nothing THEN flight ELSE playing

Misread == playing = Nothing /\ flight.kind = "whole" /\ flight.frames[1].fs \in astray

Decode ==
  /\ heard = Nothing
  /\ flight' = IF playing = Nothing THEN Nothing ELSE flight
  /\ UNCHANGED building

PlayWhole ==
  /\ Given.kind = "whole" /\ ~Misread /\ Decode
  /\ heard' = Whole(<<Head(Given.frames)>>)
  /\ playing' = Whole(Tail(Given.frames))
  /\ astray' = {}

PlayDamaged ==
  /\ Given = Damaged \/ Misread
  /\ Decode
  /\ heard'.kind \in {"error", "whole"}
  /\ playing' \in {Nothing, Damaged}
  /\ \A rate, other \in astray' : rate = other

Take ==
  /\ heard # Nothing /\ heard' = Nothing
  /\ UNCHANGED <<building, flight, playing, astray>>

Next == Build \/ Send \/ Stray \/ Lose \/ PlayWhole \/ PlayDamaged \/ Take

Spec == Init /\ [][Next]_vars
=============================================================================
