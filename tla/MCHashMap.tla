----------------------------- MODULE MCHashMap -----------------------------
(* Model-checking instances of HashMap. *)
EXTENDS HashMap

(* Keys as posix pids: 0, 8, 16 and 24 share bucket 0 at capacity 8, 8 and  *)
(* 24 share bucket 8 at capacity 16; 128 and 136 probe with step 3.        *)
(* Six keys push _n past the grow limit of 5, so the table grows to 16.    *)
StoreKeys == {0, 8, 16, 24, 128, 136}
=============================================================================
