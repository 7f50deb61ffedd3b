--------------------------- MODULE MCSpeculative ---------------------------
(* Speculative on small instances.                                         *)
EXTENDS Speculative

CONSTANTS a, b      \* tokens

MCToken == {a, b}

\* One that batches split, one no window holds.
MCPrompt == {<<a>>, <<a, b, b>>, <<b, b, b, b, b, b>>}

\* None, less than the window, what it leaves, more than it.
MCNPredict == {0, 2, -1, 7}

MCCells == [target |-> 5, draft |-> 5]
MCDraftCells == [target |-> 5, draft |-> 3]

\* The rows of a verification just fit.
MCBatch == [target |-> 3, draft |-> 2]
MCSmallBatch == [target |-> 2, draft |-> 2]
=============================================================================
