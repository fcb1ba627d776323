------------------------------ MODULE DrawOrder ------------------------------
(***************************************************************************)
(* What the draw command queue promises: the commands are drawn in the     *)
(* order they were pushed in, each once, and what was pushed since the     *)
(* start of a batch may be drawn only once it is published as a whole.     *)
(***************************************************************************)
EXTENDS Sequences

CONSTANT Command

VARIABLES visible, pending, drawn

Init == visible = <<>> /\ pending = <<>> /\ drawn \in Command

Put(c) == pending' = Append(pending, c) /\ UNCHANGED <<visible, drawn>>

Publish(more) ==
  /\ visible' = visible \o pending \o more
  /\ pending' = <<>>
  /\ UNCHANGED drawn

Draw ==
  /\ visible # <<>>
  /\ drawn' = Head(visible) /\ visible' = Tail(visible)
  /\ UNCHANGED pending

Next == \/ \E c \in Command : Put(c) \/ Publish(<<c>>)
        \/ Publish(<<>>) \/ Draw

Spec == Init /\ [][Next]_<<visible, pending, drawn>>
=============================================================================
