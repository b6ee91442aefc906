----------------------------- MODULE WireCodec -----------------------------
(***************************************************************************)
(* What becomes of a value that is encoded into a payload and decoded by   *)
(* the other side (include/dfabric/codec.hpp). The decoders take a payload *)
(* apart in the order the encoders put it together, so a field that both   *)
(* have comes back as it was; what differs is stated here.                 *)
(***************************************************************************)
EXTENDS FabricModel

\* A request keeps every field but the failure-domain constraint, for which the
\* payload has no room.
WireRequest(req) == [req EXCEPT !.topology = "NONE", !.max_shared_risk = 0]

\* A resource is rejected when an enumeration has the value UNKNOWN, which is
\* below the least value the decoder accepts.
WireAccepts(res) ==
  /\ res.health # "UNKNOWN"
  /\ res.readiness # "UNKNOWN"
  /\ res.reachability # "UNKNOWN"
=============================================================================
