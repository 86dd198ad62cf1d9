----------------------------- MODULE RouteClaims -----------------------------
(***************************************************************************)
(* A statement the comments make about paid routes that the code does not  *)
(* keep, checked in the Express deployment.                                *)
(***************************************************************************)
EXTENDS MCRouteGateway

ExpressOnly == {Deploy("express", "proxyTo", TRUE)}

\* express.ts, hono.ts, fastify.ts: "Mark DELIVERED on 2xx; keep PAID on
\* non-2xx (refund-eligible)". A record is DELIVERED only if the transfer it
\* was paid with bought a response.
FailedRoutePaymentStaysRefundable ==
    \A c \in Challenge :
        challenges[c].state = "DELIVERED" => provided[challenges[c].txHash] > 0
=============================================================================
