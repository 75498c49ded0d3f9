----------------------------- MODULE GraphExport -----------------------------
(***************************************************************************)
(* What writing a graph promises: the edges wanted are known before the    *)
(* first is sent, each is sent once, and in the end all are.               *)
(***************************************************************************)
EXTENDS Sequences, SequencesExt

VARIABLES
  wanted,  \* the edges to send
  sent     \* those that were sent, in their order

Init == wanted = {} /\ sent = <<>>

Collect ==
  /\ wanted = {} /\ sent = <<>>
  /\ wanted' # {}
  /\ UNCHANGED sent

Send ==
  /\ \E e \in wanted \ ToSet(sent) : sent' = Append(sent, e)
  /\ UNCHANGED wanted

Next == Collect \/ Send

Spec ==
  /\ Init /\ [][Next]_<<wanted, sent>>
  /\ (wanted # {}) ~> (wanted = ToSet(sent))
=============================================================================
