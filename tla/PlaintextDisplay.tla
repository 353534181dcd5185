-------------------------- MODULE PlaintextDisplay --------------------------
(***************************************************************************)
(* How cmd/plaintext_format.go finds readable text in the bytes captured   *)
(* from TLS.  A payload is the sequence of the layers around a text,       *)
(* outermost first, and its last member is what is inside them all.  A     *)
(* layer stands for its bytes; one that encodes what it wraps (base64 in a *)
(* record, escapes in a JSON value) hides it from a search of the bytes.   *)
(***************************************************************************)
EXTENDS Integers, SequencesExt

CONSTANTS MaxDepth,     \* maxPlaintextUnwrapDepth
          PrefixBytes   \* how long a "prefix" is

\* How many bytes stripLeadingApplicationPrefix may skip.
maxSkip == 8

ASSUME DepthAssumption == MaxDepth \in Nat \ {0}
ASSUME PrefixAssumption == PrefixBytes \in 1..maxSkip

\* A record of the agent that begins with one of the markers, and one that does not.
Records == {"record", "other record"}
Binary  == {"prefix", "frame", "binary"}   \* PrefixBytes, more than maxSkip, and only that
Layers  == Records \union {"prefix", "frame", "http", "json", "string"}
\* "request" is some lines, the first like that of a request; a "marked text" is one line
\* with a marker shortly after its start, as "a={", and what follows is not JSON.
Leaves  == {"text", "marked text", "request", "array", "binary"}

\* What begins with a marker within an array, a text, or the escaped text of a string.
Cuts == {"cut array", "cut text", "cut string"}

\* Layers whose bytes are followed by those of the next one.
Transparent == {"prefix", "frame", "http"}

Visible(payload) == { i \in DOMAIN payload : \A k \in 1..(i - 1) : payload[k] \in Transparent }

From(payload, i) == SubSeq(payload, i, Len(payload))

\* n rounds of a loop over the layers.
Repeat(Op(_), n, payload) ==
  LET after[i \in 0..n] == IF i = 0 THEN payload ELSE Op(after[i - 1])
  IN  after[n]

\* One of applicationTextMarkers.
isApplicationTextStart(payload) ==
  Head(payload) \in Records \union Cuts \union {"http", "json", "request"}

looksLikeStructuredJSON(payload) == Head(payload) \in Records \union {"json", "array"}

unwrapEmbeddedExportRecord(payload) ==
  IF Head(payload) \in Records THEN Tail(payload) ELSE payload

\* A mistake to catch: a record is looked for at the start only.
EmbeddedAtStart(payload) ==
  IF Head(payload) = "record" THEN Tail(payload) ELSE payload

\* What the first visible record with a marker holds.
extractEmbeddedExportJSON(payload) ==
  LET marked == { i \in Visible(payload) : payload[i] = "record" }
  IN  IF marked = {} THEN payload ELSE From(payload, Min(marked) + 1)

\* A mistake to catch: HTTP and JSON need no prefix removed.
StripForRecords(payload) ==
  IF Head(payload) = "prefix" /\ payload[2] \in Records THEN Tail(payload) ELSE payload

\* The first layer that is neither a prefix nor a quote.
Opening(payload) == Min({ i \in DOMAIN payload : payload[i] \notin {"prefix", "string"} })

\* A marker begins with that layer, or in it.
HasMarker(layer) == isApplicationTextStart(<<layer>>) \/ layer \in {"array", "marked text"}

\* How many bytes are before the marker: n strings begin with n quotes, of which each
\* doubles the escapes of the next.
Skipped(payload) ==
  LET i        == Opening(payload)
      prefixes == IF Head(payload) = "prefix" THEN 1 ELSE 0
      inside   == CASE payload[i] = "array"       -> 1   \* "["
                    [] payload[i] = "marked text" -> 2   \* "a="
                    [] OTHER                      -> 0
  IN  prefixes * PrefixBytes + 2^(i - 1 - prefixes) - 1 + inside

\* The bytes from the marker on.
FromMarker(payload) ==
  LET i == Opening(payload)
  IN  IF i > 1 /\ payload[i - 1] = "string" THEN <<"cut string">>
      ELSE IF payload[i] = "array" THEN <<"cut array">>
      ELSE IF payload[i] = "marked text" THEN <<"cut text">>
      ELSE From(payload, i)

\* Whatever is in the few bytes before a marker is dropped, a quote or text as well.
stripLeadingApplicationPrefix(payload) ==
  IF HasMarker(payload[Opening(payload)]) /\ Skipped(payload) \in 1..maxSkip
  THEN FromMarker(payload)
  ELSE payload

unwrapPayloadLayer(payload) ==
  LET record   == unwrapEmbeddedExportRecord(payload)
      embedded == extractEmbeddedExportJSON(payload)
  IN  IF record # payload THEN record
      ELSE IF embedded # payload THEN embedded
      ELSE stripLeadingApplicationPrefix(payload)

unwrapPayloadLayers(payload) == Repeat(unwrapPayloadLayer, MaxDepth, payload)

\* Plaintext or, without it, PlaintextPreview; the record always has one of them here.
plaintextPayloadBytes(captured) == unwrapPayloadLayers(captured)

extractHTTPBody(payload) == IF Head(payload) = "http" THEN Tail(payload) ELSE payload

\* The first line of what begins like a method: of a second HTTP head as well.
extractHTTPRequestLine(payload) ==
  IF Head(payload) \in {"request", "http"} THEN <<"line">> ELSE payload

\* The text of a JSON value, but not of a record, nor a text that is JSON again.
extractJSONTextBody(payload) ==
  IF \/ Head(payload) = "string"
     \/ Head(payload) = "json" /\ ~looksLikeStructuredJSON(Tail(payload))
  THEN Tail(payload)
  ELSE payload

\* "RecordType", or "Plaintext" and "Direction", in clear anywhere.
containsAgentExportLeak(payload) == \E i \in Visible(payload) : payload[i] \in Records

isNoisePayload(payload) == payload = <<"binary">> \/ containsAgentExportLeak(payload)

\* "\x": some byte had to be escaped.
isGarbageDisplay(payload) == \E i \in Visible(payload) : payload[i] \in Binary

Nothing == <<>>

Peel(payload) == extractJSONTextBody(extractHTTPRequestLine(extractHTTPBody(payload)))

formatPlaintextPayload(payload) ==
  LET shown == Repeat(Peel, 3, unwrapPayloadLayers(payload))
  IN  IF isNoisePayload(shown) \/ isGarbageDisplay(shown) THEN Nothing ELSE shown

\* What the table, the details and the export show; for Nothing, the table shows the
\* number of bytes.
plaintextPreviewForDisplay(captured) == formatPlaintextPayload(plaintextPayloadBytes(captured))

-----------------------------------------------------------------------------

\* JSON holds no binary, and two runs of binary bytes are one.
IsPayload(payload) ==
  /\ payload # <<>> /\ Last(payload) \in Leaves /\ Range(Front(payload)) \subseteq Layers
  /\ \A i \in 1..(Len(payload) - 1) :
       payload[i] \in Binary \union {"json", "string"} => payload[i + 1] \notin Binary

Payloads(n) == { p \in UNION { [1..k -> Layers \union Leaves] : k \in 1..n } : IsPayload(p) }

\* Both calls of unwrapPayloadLayers together reach this deep.
Reach == 2 * MaxDepth

\* The agent's own traffic, captured again, does not hide what it carries: a record
\* around a payload, in a frame or not, changes nothing of what is displayed, up to
\* the depth the code peels.
RecordsTransparent(payload) ==
  Len(payload) < Reach =>
    LET alone == plaintextPreviewForDisplay(payload)
    IN  /\ plaintextPreviewForDisplay(<<"record">> \o payload) = alone
        /\ plaintextPreviewForDisplay(<<"other record">> \o payload) = alone
        /\ plaintextPreviewForDisplay(<<"frame", "record">> \o payload) = alone

\* What a layer holds where a text is behind at most one HTTP head and one JSON value,
\* in records, each behind the bytes the agent may leave before it.
Texts == {"text", "marked text"}

Holds(layer) ==
  CASE layer \in Records            -> Layers \union Leaves
    [] layer = "frame"              -> {"record"}
    [] layer = "prefix"             -> Records \union {"http", "json"}
    [] layer = "http"               -> {"record", "json", "string"} \union Texts
    [] layer \in {"json", "string"} -> Texts

\* Nothing is before this layer, or a record, which gives all that it holds.
Begins(payload, i) == i = 1 \/ payload[i - 1] \in Records

\* What is displayed of such a text: itself, unless it has a marker near its start and
\* begins there, alone or in a string, where it is cut.
TextOrCut(payload) ==
  LET n == Len(payload)
  IN  IF payload[n] = "text" THEN <<"text">>
      ELSE IF Begins(payload, n) THEN <<"cut text">>
      ELSE IF payload[n - 1] = "string" /\ Begins(payload, n - 1) THEN <<"cut string">>
      ELSE <<"marked text">>

\* The text inside the usual wrappers is displayed without them, and whole but for a
\* beginning taken for a prefix (see TextOrCut): nowhere else does that rule fire early.
TextReached(payload) ==
  /\ Len(payload) <= Reach
  /\ Last(payload) \in Texts
  /\ \A i \in 1..(Len(payload) - 1) : payload[i + 1] \in Holds(payload[i])
  => plaintextPreviewForDisplay(payload) = TextOrCut(payload)
=============================================================================
