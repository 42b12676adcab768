--------------------------- MODULE MCIdempotency ---------------------------
(***************************************************************************)
(* Three deliveries under one key, the third with another body, and one    *)
(* request without a key.                                                  *)
(***************************************************************************)
EXTENDS Idempotency

CONSTANTS first, again, reused, plain, key, body, other

MCKeyOf   == [r \in Requests |-> IF r = plain THEN NoKey ELSE key]
MCPrintOf == [r \in Requests |-> IF r = reused THEN other ELSE body]
=============================================================================
