--------------------------- MODULE MessageChannel ---------------------------
(***************************************************************************)
(* What a connection promises to the process that reads from it            *)
(* (include/dfabric/protocol.hpp): the messages that were sent, in the     *)
(* order they were sent, each once and unchanged, until it goes down.      *)
(***************************************************************************)
EXTENDS Naturals, Sequences

VARIABLES
  sent,   \* the messages put into the connection
  got,    \* the messages taken out of it
  up      \* whether it still delivers

Init == sent = <<>> /\ got = <<>> /\ up = TRUE

Put ==
  /\ up
  /\ Len(sent') = Len(sent) + 1
  /\ SubSeq(sent', 1, Len(sent)) = sent
  /\ UNCHANGED <<got, up>>

Deliver ==
  /\ up
  /\ \E n \in (Len(got) + 1)..Len(sent) : got' = SubSeq(sent, 1, n)
  /\ UNCHANGED <<sent, up>>

GoDown == up /\ up' = FALSE /\ UNCHANGED <<sent, got>>

Spec == Init /\ [][Put \/ Deliver \/ GoDown]_<<sent, got, up>>
=============================================================================
