----------------------------- MODULE MailConsumer -----------------------------
(***************************************************************************)
(* What the mailbox of a Run promises its readers, whoever asks: the mail  *)
(* is given to the coordinator of the Run in batches, one at a time and    *)
(* all there is of it; a batch is read whole, by the coordinator it was    *)
(* given to and while it is still the coordinator; a takeover drops the    *)
(* batch and loses none of its mail.                                       *)
(***************************************************************************)
EXTENDS Integers

CONSTANT Readers

VARIABLES
  sent,     \* messages 1..sent were sent
  done,     \* those that were read
  reader,   \* the coordinator
  batches   \* the batch that was given out and not read yet, with its reader, if any

consumerVars == <<sent, done, reader, batches>>

Unread == (1..sent) \ done

Init == sent = 0 /\ done = {} /\ reader \in Readers /\ batches = {}

Send ==
  /\ sent' = sent + 1
  /\ UNCHANGED <<done, reader, batches>>

Give ==
  /\ batches = {} /\ Unread # {}
  /\ batches' = {[mail |-> Unread, reader |-> reader]}
  /\ UNCHANGED <<sent, done, reader>>

Read(b) ==
  /\ b.reader = reader
  /\ done' = done \cup b.mail
  /\ batches' = {}
  /\ UNCHANGED <<sent, reader>>

TakeOver ==
  /\ reader' \in Readers \ {reader}
  /\ batches' = {}
  /\ UNCHANGED <<sent, done>>

Next == Send \/ Give \/ (\E b \in batches : Read(b)) \/ TakeOver

Spec == Init /\ [][Next]_consumerVars
=============================================================================
