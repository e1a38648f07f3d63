----------------------------- MODULE MCPipeline -----------------------------
(* Small instances of Pipeline for TLC.                                    *)
EXTENDS Pipeline

(* slack: one byte is saved when a timestamp is injected.                  *)
Shape(len, pad, object, stamped, token) ==
  [len |-> len, pad |-> pad, object |-> object, stamped |-> stamped,
   slack |-> IF stamped THEN 0 ELSE 1, token |-> token]

Small == Shape(10, 0, TRUE, TRUE, NoToken)
Garbage == Shape(5, 0, FALSE, FALSE, NoToken)

(* A small event, a large one and one the agent has to stamp, each with    *)
(* another credential.  With a cap of 49 bytes the two with a token just   *)
(* fit into one batch, and two large ones do not.                          *)
MixedShapes == {Small, Shape(25, 1, TRUE, TRUE, "tokenA"),
                Shape(6, 2, TRUE, FALSE, "tokenB")}
(* With them, what validateEvent refuses for either reason.                *)
AllShapes == MixedShapes \cup {Garbage, Shape(31, 0, TRUE, TRUE, NoToken)}
KeyedShapes == {Small, Shape(10, 0, TRUE, TRUE, "tokenA")}
=============================================================================
