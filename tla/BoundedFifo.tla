---------------------------- MODULE BoundedFifo ----------------------------
(***************************************************************************)
(* What the message buffer of user_dtn.c promises to the code around it:   *)
(* a first-in first-out queue of at most Capacity messages for the source  *)
(* DTN.  Put is what a timer handler or a monitoring thread does to it,    *)
(* Take is what the thread fDoRunSendMessageToPeer does; taken is the      *)
(* message that thread last took.                                          *)
(***************************************************************************)
EXTENDS Naturals, Sequences

CONSTANTS
  Msgs,      \* the messages that can be queued
  NoMsg,     \* nothing taken yet
  Capacity   \* the number of messages the buffer can hold

VARIABLES queue, taken

fifoVars == <<queue, taken>>

FifoTypeOK ==
  /\ queue \in Seq(Msgs)
  /\ Len(queue) <= Capacity
  /\ taken \in Msgs \cup {NoMsg}

FifoInit ==
  /\ queue = <<>>
  /\ taken = NoMsg

Put(m) ==
  /\ Len(queue) < Capacity
  /\ queue' = Append(queue, m)
  /\ UNCHANGED taken

Take ==
  /\ queue # <<>>
  /\ taken' = Head(queue)
  /\ queue' = Tail(queue)

FifoNext == Take \/ \E m \in Msgs : Put(m)

FifoSpec == FifoInit /\ [][FifoNext]_fifoVars

=============================================================================
