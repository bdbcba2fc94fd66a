----------------------------- MODULE Endpoints -----------------------------
(***************************************************************************)
(* Where the request of an API method goes (validate.ts, build-url.ts and  *)
(* the path each method of the modules puts together), and the payment its *)
(* headers name (core/src/http/correlation.ts).  The ids are whatever the  *)
(* application passes on; the URL they end up in is parsed by the          *)
(* platform, which resolves `.' and `..'.                                  *)
(***************************************************************************)
EXTENDS Naturals, Sequences, SequencesExt, FiniteSetsExt

CONSTANT MaxLength    \* of the ids of a call, taken together

(* An unreserved character, a full stop, separators, the text "%2e", a      *)
(* blank, half of a surrogate pair.                                         *)
Chars == {"a", ".", "/", "?", "%2e", "blank", "half"}

Strings(n) == UNION {[1 .. k -> Chars] : k \in 0 .. n}

(* A path is a sequence of words and of places for ids.                     *)
Id == "id"

SomePayment(rest) == {<<"payments", Id>> \o r : r \in rest}

Reads == {<<>>, <<"charge">>, <<"google-pay", "info">>, <<"apple-pay", "info">>,
          <<"apple-pay", "validate">>, <<"qr-payment", "info">>,
          <<"qr-payment", "info", "?", "format">>}

Payments == SomePayment(Reads) \cup {<<"eshops", Id, "payments">>}

PaymentsOfPage == SomePayment(Reads \cup {<<"apple-pay", "app-info">>})

Refunds == SomePayment({<<"refunds">>}) \cup {<<"refunds", Id>>}

Links == {<<"eshops", Id, "links">>, <<"eshops", Id, "links", Id>>}

Recurrences ==
    {<<"eshops", Id, "recurrences">>}
        \cup {<<"recurrences", Id>> \o r : r \in {<<>>, <<"start">>, <<"next">>}}

CardTokens == {<<"cards", "tokens">>, <<"cards", "tokens", Id>>}

Events == {<<"eshops", Id, "events">>, <<"eshops", Id, "events", Id>>}

Plain == {<<"oauth2", "token">>, <<"cards", "browser-data">>, <<"webhooks", "public-keys">>}

OfServer == Payments \cup Refunds \cup Links \cup Recurrences \cup CardTokens \cup Events \cup Plain
OfPage == PaymentsOfPage \cup {<<"oauth2", "token">>, <<"cards", "browser-data">>}

VARIABLES
    page,      \* the SDK of a page, or that of a server
    endpoint,  \* of the method called
    ids,       \* what it was given: in a page, the payment attached
    outcome    \* where the request went and whom it names, or why there is none

vars == <<page, endpoint, ids, outcome>>

Slots(path) == {i \in DOMAIN path : path[i] = Id}

(* The number of the id that belongs in the i-th place of a path.           *)
Ordinal(path, i) == Cardinality({j \in Slots(path) : j <= i})

Init ==
    /\ page \in BOOLEAN
    /\ endpoint \in IF page THEN OfPage ELSE OfServer
    /\ LET n == IF page THEN 1 ELSE Cardinality(Slots(endpoint)) IN
       ids \in {s \in [1 .. n -> Strings(MaxLength)] :
                   n = 2 => Len(s[1]) + Len(s[2]) <= MaxLength}
    /\ outcome = [result |-> "none"]

-----------------------------------------------------------------------------
(* A text is a sequence of tokens: a character or a word, as it is or       *)
(* percent-encoded.                                                         *)

Raw(c) == [encoded |-> FALSE, is |-> c]

Trim(id) ==
    LET ink == {i \in DOMAIN id : id[i] # "blank"}
    IN  IF ink = {} THEN <<>> ELSE SubSeq(id, Min(ink), Max(ink))

(* Mutants: an id need only be there; it goes into the path as it is; `.'   *)
(* and `..' are looked for in what was given.                               *)
OnlyEmpty(id) == Trim(id) = <<>>
AsGiven(id) == [i \in DOMAIN Trim(id) |-> Raw(Trim(id)[i])]
Untrimmed(id) == Trim(id) = <<>> \/ id \in {<<".">>, <<".", ".">>}

(* requirePathSegment(): what it refuses, what it cannot encode, and what   *)
(* it returns.                                                              *)
Refuses(id) == Trim(id) \in {<<>>, <<".">>, <<".", ".">>}

Encodable(id) == \A i \in DOMAIN Trim(id) : Trim(id)[i] # "half"

Encode(id) ==
    [i \in DOMAIN Trim(id) |->
        [encoded |-> Trim(id)[i] \notin {"a", "."}, is |-> Trim(id)[i]]]

(* The path as the method writes it.                                        *)
PathText(path) ==
    LET part(i) == IF path[i] = Id THEN Encode(ids[Ordinal(path, i)]) ELSE <<Raw(path[i])>>
        slash(i) == IF i = 1 \/ path[i] = "?" \/ path[i - 1] = "?" THEN <<>> ELSE <<Raw("/")>>
        text[i \in 0 .. Len(path)] ==
            IF i = 0 THEN <<>> ELSE text[i - 1] \o slash(i) \o part(i)
    IN  text[Len(path)]

(* buildUrl(): the platform cuts the query off, splits the rest and takes   *)
(* dot segments out.                                                        *)
Until(text, stops) ==
    LET at == {i \in DOMAIN text : ~text[i].encoded /\ text[i].is \in stops}
    IN  IF at = {} THEN text ELSE SubSeq(text, 1, Min(at) - 1)

Split(text) ==
    LET parts[n \in 0 .. Len(text)] ==
            IF n = 0 THEN <<<<>>>>
            ELSE IF text[n] = Raw("/") THEN Append(parts[n - 1], <<>>)
            ELSE [parts[n - 1] EXCEPT ![Len(parts[n - 1])] = Append(@, text[n])]
    IN  parts[Len(text)]

Dots(n) == [1 .. n -> {Raw("."), Raw("%2e")}]

BasePath == <<<<Raw("gp-gw")>>, <<Raw("api")>>, <<Raw("4.0")>>>>

BuildUrl(text) ==
    LET parts == Split(Until(text, {"?"}))
        up(url) == IF url = <<>> THEN url ELSE Front(url)
        put(url, i) ==
            LET stays == IF parts[i] \in Dots(2) THEN up(url) ELSE url
            IN  IF parts[i] \notin Dots(1) \cup Dots(2) THEN Append(url, parts[i])
                ELSE IF i = Len(parts) THEN Append(stays, <<>>) ELSE stays
        built[i \in 0 .. Len(parts)] == IF i = 0 THEN BasePath ELSE put(built[i - 1], i)
    IN  built[Len(parts)]

(* Mutant: any payment in the path will do.                                 *)
AnyPayment(text) == \E i \in DOMAIN text : text[i] = Raw("payments")

InPath(text) == Len(text) > 2 /\ text[1] = Raw("payments")

(* correlate(): a payment in the path wins over the one attached.           *)
PaymentHeader(text) ==
    IF InPath(text) THEN Until(SubSeq(text, 3, Len(text)), {"/", "?"})
    ELSE IF page THEN Encode(ids[1])
    ELSE <<>>

(* attachPayment() only asks for something; the path is what matters.       *)
Refused(n) ==
    IF n <= Cardinality(Slots(endpoint)) THEN Refuses(ids[n]) ELSE Trim(ids[n]) = <<>>

Call ==
    /\ outcome.result = "none"
    /\ LET bad == {n \in DOMAIN ids : Refused(n) \/ ~Encodable(ids[n])} IN
       outcome' =
          IF bad # {}
          THEN [result |-> IF Refused(Min(bad)) THEN "refused" ELSE "thrown"]
          ELSE [result |-> "sent",
                url |-> BuildUrl(PathText(endpoint)),
                payment |-> PaymentHeader(PathText(endpoint))]
    /\ UNCHANGED <<page, endpoint, ids>>

Next == Call

Spec == Init /\ [][Next]_vars

-----------------------------------------------------------------------------
(* Properties.                                                              *)

(* What GoPay reads in a part of a path or in a header.                     *)
Decoded(text) == [i \in DOMAIN text |-> text[i].is]

(* validate.ts:26-36, correlation.ts:60-66: whatever the ids, the request   *)
(* goes to the endpoint of the method called, with each id in its place,    *)
(* or no request goes out; and its headers name the payment the path is of, *)
(* else the one attached, and no other.                                     *)
NamedEndpoint ==
    outcome.result = "sent" =>
        LET given(i) == IF endpoint[i] = Id THEN Trim(ids[Ordinal(endpoint, i)])
                        ELSE <<endpoint[i]>>
            asked == {i \in DOMAIN endpoint : \A j \in 1 .. i : endpoint[j] # "?"}
            read == [n \in DOMAIN outcome.url |-> Decoded(outcome.url[n])]
        IN  /\ read = [n \in 1 .. 3 |-> Decoded(BasePath[n])]
                         \o [n \in asked |-> given(n)]
            /\ Decoded(outcome.payment) =
                  IF page \/ endpoint[1] = "payments" THEN Trim(ids[1]) ELSE <<>>

=============================================================================
