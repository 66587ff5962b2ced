---------------------------- MODULE MCPolicyStore ----------------------------
(***************************************************************************)
(* Values of the constants of PolicyStore for the model-checking runs.     *)
(***************************************************************************)
EXTENDS PolicyStore, TLC

DefaultRow ==
  [actions |-> Actions, channels |-> Channels, maxDiscount |-> 15, ceiling |-> 1000,
   partial |-> TRUE, minPct |-> 50]
\* Saved before the two newest actions existed; before one or both partial columns.
OldRow    == [DefaultRow EXCEPT !.actions = Actions \ BackfillActions, !.partial = FALSE]
Without(cols) == [c \in DOMAIN OldRow \ cols |-> OldRow[c]]
OldRows   == {OldRow, Without({"minPct"}), Without({"partial", "minPct"})}

Column(c, v) == [x \in {c} |-> v]
SomePatches ==
  {Column("actions", {"SEND_WHATSAPP"}), Column("actions", Actions),
   Column("maxDiscount", 0), Column("maxDiscount", 15),
   [maxDiscount |-> 40, minPct |-> 101],
   [partial |-> FALSE, minPct |-> 80],
   [channels |-> {"VOICE"}, actions |-> {"VOICE_CALL", "REFUND"}]}

EditorSymmetry == Permutations(Editors)
=============================================================================
