---------------------------- MODULE MCThreadPool ----------------------------
(* Small instances of ThreadPool: one thread slot more than max_threads,   *)
(* more tasks than threads.                                                *)
EXTENDS ThreadPool

CONSTANTS w1, w2, w3

Slots2 == {w1, w2}
Slots3 == {w1, w2, w3}

=============================================================================
