------------------------------ MODULE MCMailbox ------------------------------
(* Terminals for TLC, and what it tells two states apart by. *)
EXTENDS MailboxPointer, TLC

CONSTANTS p1, p2

(* The history a property may still ask for: generations and incarnations only grow, and
   read mail stays read. *)
Recalled ==
  <<{e \in entered : e.generation = generation /\ e.process = Process(owner)},
    returned \cap Unread, declined \cap Unread>>

(* With all mail read, no flight left and no watermark active, the lane has nothing more to
   do that a property asks of. *)
Over ==
  /\ arrived = MaxMail /\ Unread = {} /\ ~hasActiveWatermark(lane)
  /\ \A p \in Ptys : ~HasFlight(lane, p)

Present ==
  <<arrived, reader, check, terminals, upsets>>
    \o (IF Over THEN <<>> ELSE <<repoint, lane, Recalled>>)

SamePtys == Permutations(Ptys)
=============================================================================
