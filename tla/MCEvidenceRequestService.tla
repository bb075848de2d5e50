---------------------- MODULE MCEvidenceRequestService ----------------------
EXTENDS EvidenceRequestService

CONSTANTS r1, r2, f1, ov, c1, c2

MCCrops == <<c1, c2>>

MCJob(types, overview, objects) ==
  [frame |-> f1, types |-> types, overview |-> overview, objects |-> objects, valid |-> TRUE]

Both == {"overview", "crop"}

(* Everything by name, everything without names, and one object; the last    *)
(* request does not parse.                                                   *)
MCJobs == {MCJob(Both, ov, <<c1, c2>>), MCJob(Both, None, <<>>), MCJob({"crop"}, None, <<None>>),
           [MCJob({}, None, <<>>) EXCEPT !.valid = FALSE]}
=============================================================================
