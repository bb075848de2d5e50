-------------------------- MODULE MCSourceControl --------------------------
EXTENDS SourceControl

CONSTANTS p1, p2, on, yes, off, junk

(* parse_bool_value: "on" and "yes" are the same setting. *)
MCConversion == [v \in {on, yes, off} |-> IF v = yes THEN on ELSE v]

(* A request that is allowed to set its first property only, one whose       *)
(* value cannot be converted, and one that is read back as another text.     *)
MCItemLists == {<<<<p1, on>>, <<p2, on>>>>, <<<<p1, junk>>>>, <<<<p1, yes>>>>}
=============================================================================
