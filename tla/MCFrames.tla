------------------------------ MODULE MCFrames ------------------------------
(***************************************************************************)
(* Up to three messages of two types, with payloads from nothing to one    *)
(* byte more than the larger limit, and an unknown type. Header and        *)
(* checksum are two bytes and one.                                         *)
(***************************************************************************)
EXTENDS FrameProtocol

MCLimits == [t \in {"HELLO", "STATE_RESP"} |-> IF t = "HELLO" THEN 1 ELSE 2]
MCOffered ==
  {[type |-> "HELLO", size |-> n] : n \in 0..2}
    \cup {[type |-> "STATE_RESP", size |-> n] : n \in 2..3}
    \cup {[type |-> UnknownType, size |-> 0]}
=============================================================================
