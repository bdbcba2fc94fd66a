---------------------------- MODULE MCWebhookKeys ----------------------------
(***************************************************************************)
(* Model checking of the verification of webhooks: WebhookKeys, or         *)
(* WebhookSignature, whose await of a key is the former's Arrive to GoOn.  *)
(***************************************************************************)
EXTENDS WebhookKeys

CONSTANT MaxParts    \* of WebhookSignature

VARIABLES
    part,                                        \* "keys" or "signature"
    phase, request, key, outcome, reported       \* of WebhookSignature

Signature == INSTANCE WebhookSignature

signatureVars == <<phase, request, key, outcome, reported>>

WebhooksInit ==
    /\ part \in {"keys", "signature"}
    /\ Init /\ Signature!Init
    \* One beginning is enough of what stands still.
    /\ part = "signature" =>
          published = {} /\ \A w \in Webhooks : webhook[w].kid = CHOOSE k \in Kids : TRUE

WebhooksNext ==
    /\ UNCHANGED part
    /\ \/ part = "keys" /\ Next /\ UNCHANGED signatureVars
       \/ part = "signature" /\ Signature!Next /\ UNCHANGED vars

WebhooksSpec ==
    /\ WebhooksInit /\ [][WebhooksNext]_<<part, vars, signatureVars>>
    /\ SF_vars(part = "keys" /\ (LoadSucceeds \/ LoadFails))
    /\ WF_vars(part = "keys" /\ LoadRead)
    /\ \A w \in Webhooks : WF_vars(part = "keys" /\ GoOn(w))

-----------------------------------------------------------------------------

(* signature.ts:83-86: WebhookSignature!OnlyGenuineAccepted.                *)
OnlyGenuineAccepted == Signature!OnlyGenuineAccepted

=============================================================================
