--------------------------- MODULE MCQueuedAdapter ---------------------------
(* Values of the constants of QueuedAdapter for model checking. *)
EXTENDS QueuedAdapter

CONSTANTS i, j, t, u

TwoItems == {i, j}
TwoTasks == {t, u}
=============================================================================
