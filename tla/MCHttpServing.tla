--------------------------- MODULE MCHttpServing -----------------------------
(* Three calls of the TCP client, two when the server can be shut down.    *)
(* Over stdin two requests and a broadcast channel for one of them, while  *)
(* the application calls request_port twice under a runtime of one thread; *)
(* and calls for a port that overlap: all on one thread, the calls on one  *)
(* beside the tasks', and each on its own.                                 *)
EXTENDS HttpServing

OneThread == [a \in Actors |-> 1]
CallsTogether == [a \in Actors |-> CASE a = "loop" -> 2 [] a = "task" -> 3 [] OTHER -> 1]
Apart == [CallsTogether EXCEPT !["app"] = 4]
MCThreads == [k \in Kinds |-> IF k = "ipc_and_http" THEN {OneThread, CallsTogether, Apart}
                              ELSE {OneThread}]
MCMaxPortCalls == [k \in Kinds |-> IF k \in {"ipc_and_http", "ipc_only"} THEN 2 ELSE 0]
MCMaxAsks == [k \in Kinds |-> CASE k = "ipc_and_http" -> 0 [] k = "tcp" -> 3 [] OTHER -> 2]
=============================================================================
