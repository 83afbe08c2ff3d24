-------------------------- MODULE MCResponseCache --------------------------
(***************************************************************************)
(* Finite instances of ResponseCache.  u1 and u2 are one listed path with  *)
(* two queries, as /v1/messages?line=... is; u3 is an unlisted path.       *)
(***************************************************************************)
EXTENDS ResponseCacheProps, TLC

CONSTANTS
    u1, u2, u3,
    TTL    \* of the listed path

MCPathOf == [u \in {u1, u2, u3} |-> IF u = u3 THEN "departures" ELSE "messages"]
MCttls == [p \in {"messages"} |-> TTL]
Symmetry == Permutations(Callers)
=============================================================================
