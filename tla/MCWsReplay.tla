----------------------------- MODULE MCWsReplay -----------------------------
(* Model-checking definitions for WsReplay. *)
EXTENDS WsReplay

\* What a buffer may hold, numbers only.
Ascending ==
  {b \in UNION {[1..n -> [seq : 0..4]] : n \in 0..3} :
     \A i, j \in DOMAIN b : i < j => b[i].seq < b[j].seq}

\* After is replay_since's filter: `seq > since`, entry by entry.
ASSUME AfterFilters ==
  \A b \in Ascending, since \in 0..5 :
    After(b, since) = SelectSeq(b, LAMBDA m : m.seq > since)

=============================================================================
