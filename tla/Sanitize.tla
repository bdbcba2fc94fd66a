------------------------------ MODULE Sanitize ------------------------------
(***************************************************************************)
(* What the SDK takes out of the messages and bodies it tells gw-logger    *)
(* (browser-sdk/src/logging/sanitize.ts).  A message is a sequence of      *)
(* characters, those told apart: a letter, a full stop, the @ of an        *)
(* address, a blank, the ? or # before a query.  A body is told of by the  *)
(* way to one of its values.                                               *)
(***************************************************************************)
EXTENDS Naturals, FiniteSets, SequencesExt

CONSTANTS
    Chunks,       \* messages are put together from these
    MaxChunks,    \* so many at most
    MaxPath,      \* the longest way to a value
    MinSegment,   \* the shortest segment of a token
    MaxDepth      \* MAX_DEPTH

Letter == "x"
Redacted == "redacted"

VARIABLES
    call,      \* none yet, safeErrorMessage() or serializeBody()
    given,     \* the message, or the way to the value
    printed    \* what gw-logger is told for it

vars == <<call, given, printed>>

Messages == {FlattenSeq(chunks) : chunks \in BoundedSeq(Chunks, MaxChunks)}

(* A member of an object, under a key that isSensitiveKey() knows or not;  *)
(* an item of an array; the structure in a text that is JSON.               *)
Steps == {"field", "secret", "item", "text"}

(* A number or a harmless text, a text with a token, a class instance.      *)
Leaves == {"plain", "token", "instance"}

(* A text holds an object or an array, neither another text nor a value.    *)
Values ==
    {[path |-> p, leaf |-> l] : l \in Leaves,
     p \in {q \in BoundedSeq(Steps, MaxPath) :
               \A n \in DOMAIN q :
                  q[n] = "text" => n < Len(q) /\ q[n + 1] # "text"}}

Init ==
    /\ call = "none"
    /\ given = <<>>
    /\ printed = <<>>

-----------------------------------------------------------------------------

(* Instead of each stretch, told of by its ends, there is one [redacted].   *)
Replaced(t, stretches) ==
    FlattenSeq([n \in DOMAIN t |->
        IF \E k \in stretches : n = k[1] THEN <<Redacted>>
        ELSE IF \E k \in stretches : n \in k[1] .. k[2] THEN <<>>
        ELSE <<t[n]>>])

-----------------------------------------------------------------------------
(* redactEmails().                                                          *)

Local == {Letter, "."}

(* The labels after an @: letters, with single full stops between them.     *)
IsDomain(t) ==
    /\ t # <<>> /\ Head(t) = Letter /\ Last(t) = Letter
    /\ \A n \in DOMAIN t : t[n] \in {Letter, "."}
    /\ \E n \in DOMAIN t : t[n] = "."
    /\ \A n \in 1 .. Len(t) - 1 : t[n] = "." => t[n + 1] # "."

Domains(t, at) == {e \in at + 1 .. Len(t) : IsDomain(SubSeq(t, at + 1, e))}

(* Where the local part starts, which no address before may have.           *)
LocalStart(t, at, last) ==
    Min({s \in last + 1 .. at : \A n \in s .. at - 1 : t[n] \in Local})

(* From left to right, each with the end of the address before it; an @     *)
(* with nothing usable in front of it is not an address.                    *)
Addresses(t) ==
    LET ends[n \in 0 .. Len(t)] ==
            IF n = 0 THEN 0
            ELSE IF t[n] = "@" /\ Domains(t, n) # {} /\ LocalStart(t, n, ends[n - 1]) < n
                 THEN Max(Domains(t, n))
                 ELSE ends[n - 1]
    IN  {<<LocalStart(t, n, ends[n - 1]), ends[n]>> :
            n \in {m \in DOMAIN t : ends[m] # ends[m - 1]}}

RedactEmails(t) == Replaced(t, Addresses(t))

-----------------------------------------------------------------------------
(* The other patterns of safeErrorMessage().                                *)

(* The maximal stretches of a text within a set of characters.              *)
Stretches(t, chars) ==
    {r \in (DOMAIN t) \X (DOMAIN t) :
        /\ r[1] <= r[2]
        /\ \A n \in r[1] .. r[2] : t[n] \in chars
        /\ r[1] > 1 => t[r[1] - 1] \notin chars
        /\ r[2] < Len(t) => t[r[2] + 1] \notin chars}

(* A query or fragment goes up to the next blank, its ? or # stays.         *)
RedactQueries(t) ==
    LET InQuery(n) == \E m \in 1 .. n - 1 :
                         t[m] = "?" /\ \A k \in m .. n : t[k] # "blank"
        Piece(n) == IF ~InQuery(n) THEN IF t[n] = "?" THEN <<"?", Redacted>> ELSE <<t[n]>>
                    ELSE <<>>
    IN  FlattenSeq([n \in DOMAIN t |-> Piece(n)])

(* Three to five segments, none of them short.                              *)
IsCompactJose(run) ==
    LET dots == {n \in DOMAIN run : run[n] = "."}
        ends == {0, Len(run) + 1} \cup dots IN
    /\ Cardinality(dots) \in 2 .. 4
    /\ \A a, b \in ends :
          (a < b /\ \A n \in ends : n <= a \/ b <= n) => b - a - 1 >= MinSegment

(* Mutant: the punctuation around a run is part of it.                      *)
WithPunctuation(t, i, j) == <<i, j>>

(* A run without the full stops before and after it.                        *)
Trimmed(t, i, j) ==
    LET letters == {n \in i .. j : t[n] # "."} IN
    IF letters = {} THEN <<i, j>> ELSE <<Min(letters), Max(letters)>>

Tokens(t) ==
    {k \in {Trimmed(t, r[1], r[2]) :
               r \in {s \in Stretches(t, Local) : s[2] - s[1] + 1 >= 3 * MinSegment + 2}} :
        IsCompactJose(SubSeq(t, k[1], k[2]))}

RedactTokens(t) == Replaced(t, Tokens(t))

SafeErrorMessage(t) == RedactTokens(RedactQueries(RedactEmails(t)))

-----------------------------------------------------------------------------
(* sanitizeLogData().                                                       *)

(* Mutant: the structure in a text starts at the top again.                 *)
AnewInText(depth) == 0

DepthInText(depth) == depth

Scrubbed(leaf) ==
    CASE leaf = "plain" -> leaf
      [] leaf = "token" -> "scrubbed"
      [] leaf = "instance" -> Redacted

SanitizeLogData(value) ==
    LET kept[n \in 1 .. MaxPath + 1] == [depth \in 0 .. MaxDepth |->
            IF depth = MaxDepth THEN Redacted
            ELSE IF n > Len(value.path) THEN Scrubbed(value.leaf)
            ELSE CASE value.path[n] = "secret" -> Redacted
                   [] value.path[n] = "text" -> kept[n + 1][DepthInText(depth)]
                   [] OTHER -> kept[n + 1][depth + 1]]
    IN  kept[1][0]

-----------------------------------------------------------------------------

ScrubMessage ==
    /\ call = "none"
    /\ call' = "message"
    /\ \E message \in Messages :
          /\ given' = message
          /\ printed' = SafeErrorMessage(message)

SerializeBody ==
    /\ call = "none"
    /\ call' = "body"
    /\ \E value \in Values :
          /\ given' = value
          /\ printed' = SanitizeLogData(value)

Next == ScrubMessage \/ SerializeBody

Spec == Init /\ [][Next]_vars

-----------------------------------------------------------------------------
(* Properties.                                                              *)

Blanks(t) == {n \in DOMAIN t : t[n] = "blank"}

(* sanitize.ts:41-143, 175-190: in what is printed of a message             *)
(* there is no address, no query and no token, be it at the end of a        *)
(* sentence or next to another; and every blank outside a query is kept, so *)
(* nothing goes with them that stands apart.                                *)
MessageScrubbed ==
    call = "message" =>
        /\ \A at \in 2 .. Len(printed) :
              printed[at] = "@" /\ Domains(printed, at) # {} => printed[at - 1] \notin Local
        /\ \A at \in 1 .. Len(printed) - 1 : printed[at] = "?" => printed[at + 1] = Redacted
        /\ \A s \in Stretches(printed, Local) :
              \A i, j \in s[1] .. s[2] :
                 /\ i <= j
                 /\ \A n \in s[1] .. s[2] : n \notin i .. j => printed[n] = "."
                 => ~IsCompactJose(SubSeq(printed, i, j))
        /\ (\A n \in DOMAIN given : given[n] # "?")
              => Cardinality(Blanks(printed)) = Cardinality(Blanks(given))

(* sanitize.ts:318, 370-407: a value is printed exactly when no key on the  *)
(* way to it is sensitive and it does not lie too deep, where a text is no  *)
(* deeper than the structure it holds; and then without its token.          *)
BodyScrubbed ==
    call = "body" =>
        LET secret == \E n \in DOMAIN given.path : given.path[n] = "secret"
            deep == Cardinality({n \in DOMAIN given.path : given.path[n] # "text"})
        IN  printed = IF secret \/ deep >= MaxDepth THEN Redacted ELSE Scrubbed(given.leaf)

=============================================================================
