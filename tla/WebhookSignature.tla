-------------------------- MODULE WebhookSignature --------------------------
(***************************************************************************)
(* How a webhook is told from what anyone may send                         *)
(* (sdk/src/modules/webhooks/signature.ts, verify() and verifyWebhook() of *)
(* webhooks.module.ts).  The signature is a detached JWS, the parts of the *)
(* text between its full stops; which key GoPay has is WebhookKeys'.       *)
(***************************************************************************)
EXTENDS Naturals, Sequences

CONSTANT MaxParts    \* the longest signature has so many parts

(* A part is nothing, no base64url, base64url of something that is no JSON, *)
(* a JWS header, or the signature of GoPay for the header "signed".         *)
JwsHeaders == {"signed", "otherAlgorithm", "noKey", "extension"}
Parts == {"", "junk", "text", "signature"} \cup JwsHeaders

(* event and data are bytes GoPay signed, an event and something else;      *)
(* changed are bytes it did not sign; parsed is no body but its JSON.       *)
Bodies == {"event", "data", "changed", "parsed"}

(* No header, one, or one that was sent twice.                              *)
OneHeader == {<<parts>> : parts \in UNION {[1 .. n -> Parts] : n \in 1 .. MaxParts}}
OtherHeaders == {<<>>} \cup {<<parts, parts>> : parts \in {<<"signed", "", "signature">>}}

Keys == {"found", "unpublished", "unavailable"}

VARIABLES
    phase,     \* nothing arrived, verify() awaits a key, or verifyWebhook() is over
    request,   \* what arrived
    key,       \* what keyFor() had for it, once it was asked
    outcome,   \* the event, or the error: of the server's own, the sender's, the keys'
    reported   \* onError was called

vars == <<phase, request, key, outcome, reported>>

Init ==
    /\ phase = "none"
    /\ request = [headers |-> <<>>, body |-> "event"]
    /\ key = "none"
    /\ outcome = "none"
    /\ reported = FALSE

-----------------------------------------------------------------------------

(* base64UrlToBytes(): of nothing there are none.                           *)
IsBase64Url(part) == part \notin {"", "junk"}

(* Mutants: a JWS with its payload is one, too; of several headers the      *)
(* first will do; the header is looked at once there is a key.              *)
AnyPayload(parts) == Len(parts) = 3
AnyHeader(headers) == headers # <<>>
KeyFirst(headers) == TRUE

IsDetached(parts) == Len(parts) = 3 /\ parts[2] = ""

IsOne(headers) == Len(headers) = 1

(* parseSignatureHeader(): anything but the one form is refused.            *)
Parses(headers) ==
    /\ IsOne(headers)
    /\ LET parts == headers[1] IN
       /\ IsDetached(parts)
       /\ IsBase64Url(parts[1]) /\ IsBase64Url(parts[3])
       /\ parts[1] \in JwsHeaders \ {"otherAlgorithm", "noKey", "extension"}

(* verifySignature(), of the header as it was sent and the body's bytes.    *)
Verifies(headers, body) ==
    /\ headers[1][1] = "signed" /\ headers[1][3] = "signature"
    /\ body \in {"event", "data"}

AsksForKey(headers) == Parses(headers)

(* verifyWebhook(); a failed load of the keys reports itself.               *)
Settled(result) ==
    /\ phase' = "over"
    /\ outcome' = result
    /\ reported' = (result \notin {"event", "invalid", "unavailable"})

(* verify() up to keyFor(): the bytes first, then the header.               *)
Arrive(headers, body) ==
    /\ phase = "none"
    /\ request' = [headers |-> headers, body |-> body]
    /\ IF body = "parsed" THEN Settled("argument")
       ELSE IF ~AsksForKey(headers) THEN Settled("invalid")
       ELSE phase' = "asking" /\ UNCHANGED <<outcome, reported>>
    /\ UNCHANGED key

(* ... and after it: the signature, then what the body is.                  *)
KeyAnswers(answer) ==
    /\ phase = "asking"
    /\ key' = answer
    /\ Settled(CASE answer = "unavailable" -> "unavailable"
                 [] answer = "unpublished" -> "invalid"
                 [] answer = "found" ->
                       IF Verifies(request.headers, request.body) /\ request.body = "event"
                       THEN "event" ELSE "invalid")
    /\ UNCHANGED request

Next ==
    \/ \E headers \in OneHeader \cup OtherHeaders, body \in Bodies : Arrive(headers, body)
    \/ \E answer \in Keys : KeyAnswers(answer)

Spec == Init /\ [][Next]_vars

-----------------------------------------------------------------------------
(* Properties.                                                              *)

(* signature.ts:83-86, webhooks.module.ts:177-182, 190-200: of all that may *)
(* be sent, only an event GoPay signed is taken for one; it is answered so  *)
(* that GoPay sends it again as long as its key or its bytes are not to be  *)
(* had; and what cannot be a webhook asks GoPay for no key and reaches      *)
(* onError only when the server itself lost the bytes.                      *)
Genuine ==
    /\ request.headers = <<<<"signed", "", "signature">>>>
    /\ request.body \in {"event", "parsed"}

OnlyGenuineAccepted ==
    /\ phase = "over" =>
          /\ outcome = "event" <=> Genuine /\ request.body = "event" /\ key = "found"
          /\ Genuine /\ outcome = "invalid" => key = "unpublished"
          /\ reported <=> request.body = "parsed"
    /\ phase = "asking" \/ key # "none" =>
          \E p \in Parts : request.headers = <<<<"signed", "", p>>>>

=============================================================================
