------------------------------ MODULE TextCuts ------------------------------
(***************************************************************************)
(* Where the program shortens text: the sample sent to the AI reviewer     *)
(* (parser.go), the evidence kept of a blocked field (store.go) and the    *)
(* User-Agent of an event (profile.go); and captureBody (proxy.go), which  *)
(* reads a body ahead and must hand on all of it.                          *)
(*                                                                         *)
(* A text is the sequence of its bytes, of which the cuts see only whether *)
(* they start a rune, a control rune, or continue one.  Offsets count the  *)
(* bytes before a position, as in Go.                                      *)
(***************************************************************************)
EXTENDS Integers, SequencesExt

CONSTANTS DefaultRunes,    \* DefaultMaxPromptRunes
          Marker           \* length of the text put where evidence was left out

ASSUME CutsAssumption == DefaultRunes \in Nat \ {0} /\ Marker \in Nat

Bytes == {"rune", "control", "more"}

RuneStart(byte) == byte # "more"

Starts(text) == {i \in DOMAIN text : RuneStart(text[i])}

\* utf8.ValidString
ValidText(text) == text # <<>> => RuneStart(text[1])

\* byteOffsetAtRune: the loop over the starts stops at the wanted one.
byteOffsetAtRune(text, rune) ==
  LET found == {i \in Starts(text) : Cardinality({j \in Starts(text) : j < i}) = rune}
  IN IF rune <= 0 THEN 0
     ELSE IF found = {} THEN Len(text) ELSE (CHOOSE i \in found : TRUE) - 1

\* A cut text keeps the bytes before the offset front and those from the
\* offset back on, with a separator between them.
Whole(text) == [front |-> Len(text), back |-> Len(text), cut |-> FALSE]

\* The limit that holds for a configured one.
SampleRunes(maxRunes) == IF maxRunes <= 0 THEN DefaultRunes ELSE maxRunes

PrepareAISample(text, maxRunes) ==
  LET runes == Cardinality(Starts(text))
      max == SampleRunes(maxRunes)
      first == (max * 2) \div 3
      last == max - first
  IN IF runes <= max THEN Whole(text)
     ELSE [front |-> byteOffsetAtRune(text, first),
           back |-> byteOffsetAtRune(text, runes - last), cut |-> TRUE]

\* Mutant: the cut of the back is not moved to the start of a rune.
boundedEvidenceUnaligned(text, limit) ==
  LET budget == limit - Marker
      first == (budget * 2) \div 3
  IN IF Len(text) <= limit THEN Whole(text)
     ELSE IF limit <= Marker THEN [front |-> 0, back |-> Len(text), cut |-> TRUE]
     ELSE [front |-> Max({i \in 0..first : i = 0 \/ RuneStart(text[i + 1])}),
           back |-> Len(text) - (budget - first), cut |-> TRUE]

\* At a limit below the marker nothing but its beginning is kept.  The front
\* ends before and the back begins after the rune the budget would cut.
boundedEvidence(text, limit) ==
  LET budget == limit - Marker
      first == (budget * 2) \div 3
      lastStart == Len(text) - (budget - first)
  IN IF Len(text) <= limit THEN Whole(text)
     ELSE IF limit <= Marker THEN [front |-> 0, back |-> Len(text), cut |-> TRUE]
     ELSE [front |-> Max({i \in 0..first : i = 0 \/ RuneStart(text[i + 1])}),
           back |-> Min({i \in lastStart..Len(text) : i = Len(text) \/ RuneStart(text[i + 1])}),
           cut |-> TRUE]

\* The start of the rune a byte belongs to, and the bytes of all runes but
\* the control ones: before a byte, and up to the end of a rune.
RuneOf(text, i) == Max({s \in Starts(text) : s <= i})
Printable(text) == {i \in DOMAIN text : text[RuneOf(text, i)] # "control"}
Before(text, s) == {i \in Printable(text) : i < s}
Through(text, s) == {i \in Printable(text) : RuneOf(text, i) <= s}

\* The bytes SanitizeUserAgent keeps of a text without blanks around it:
\* printable runes are written until the limit is reached, and the last
\* one is taken back if it reached past the limit.
SanitizeUserAgent(text, limit) ==
  LET written == {s \in Starts(text) : text[s] # "control" /\ Cardinality(Before(text, s)) < limit}
      left == {s \in written : Cardinality(Through(text, s)) <= limit}
  IN IF ValidText(text) THEN {i \in DOMAIN text : RuneOf(text, i) \in left} ELSE {}

\* io.ReadAll over a reader limited to limit + 1 bytes; failAt is the byte
\* whose read fails, or 0.
ReadAhead(body, failAt, limit) ==
  LET readable == IF failAt = 0 THEN Len(body) ELSE failAt - 1
      ahead == IF readable < limit + 1 THEN readable ELSE limit + 1
  IN [bytes |-> SubSeq(body, 1, ahead), rest |-> SubSeq(body, ahead + 1, readable),
      failed |-> failAt # 0 /\ failAt <= limit + 1, over |-> ahead > limit]

\* Mutant: a body over the limit is handed on as far as it was read.
captureBodyCut(body, failAt, limit) ==
  LET read == ReadAhead(body, failAt, limit)
  IN [replay |-> read.bytes \o (IF read.failed THEN read.rest ELSE <<>>),
      bypass |-> IF read.failed THEN "body_read_fail_open"
                 ELSE IF read.over THEN "oversize_bypass" ELSE ""]

\* What the upstream will read: the bytes read ahead, and behind them the
\* original reader unless that was exhausted; and the reason not to audit.
captureBody(body, failAt, limit) ==
  LET read == ReadAhead(body, failAt, limit)
  IN [replay |-> read.bytes \o (IF read.failed \/ read.over THEN read.rest ELSE <<>>),
      bypass |-> IF read.failed THEN "body_read_fail_open"
                 ELSE IF read.over THEN "oversize_bypass" ELSE ""]

\* decodeAuditBody: the bytes to audit, from what the body inflates to.
decodeAuditBody(body, encoding, inflated, corruptAt, limit) ==
  LET read == ReadAhead(inflated, corruptAt, limit)
      found(bypass, bytes) == [bypass |-> bypass, bytes |-> bytes]
  IN CASE encoding = "identity" -> found("", body)
       [] encoding = "gzip" /\ read.failed -> found("content_decode_fail_open", <<>>)
       [] encoding = "gzip" /\ ~read.failed /\ read.over -> found("oversize_bypass", <<>>)
       [] encoding = "gzip" /\ ~read.failed /\ ~read.over -> found("", read.bytes)
       [] OTHER -> found("unsupported_content_encoding_fail_open", <<>>)

\* The handler: what goes upstream if nothing blocks the request, and what
\* is audited.
Forwarded(body, failAt, encoding, inflated, corruptAt, limit) ==
  LET captured == captureBody(body, failAt, limit)
      decoded == decodeAuditBody(captured.replay, encoding, inflated, corruptAt, limit)
  IN [upstream |-> captured.replay,
      bypass |-> IF captured.bypass # "" THEN captured.bypass ELSE decoded.bypass,
      audited |-> IF captured.bypass # "" THEN <<>> ELSE decoded.bytes]
-----------------------------------------------------------------------------
\* Between two runes, or at an end.
Boundary(text, offset) == offset \in {0, Len(text)} \/ RuneStart(text[offset + 1])

\* A shortened text is a prefix and a suffix of whole runes that do not
\* overlap, and an unshortened one is the text itself.
IsCut(text, c) ==
  /\ c.front \in 0..c.back /\ c.back \in 0..Len(text)
  /\ Boundary(text, c.front) /\ Boundary(text, c.back)
  /\ ~c.cut => c.front = Len(text)

KeptRunes(text, c) == {s \in Starts(text) : s <= c.front \/ s > c.back}

\* The sample is cut only beyond the limit, and then has as many runes as
\* the limit allows, from both ends.
SampleFaithful(text, maxRunes) ==
  LET sample == PrepareAISample(text, maxRunes)
      max == SampleRunes(maxRunes)
  IN /\ IsCut(text, sample)
     /\ sample.cut <=> Cardinality(Starts(text)) > max
     /\ sample.cut => Cardinality(KeptRunes(text, sample)) = max

\* Evidence is cut only beyond the limit, and then fits with its marker.
EvidenceFaithful(text, limit) ==
  LET evidence == boundedEvidence(text, limit)
  IN /\ IsCut(text, evidence)
     /\ evidence.cut <=> Len(text) > limit
     /\ evidence.cut /\ limit > Marker =>
          evidence.front + (Len(text) - evidence.back) + Marker <= limit

\* What is kept of a User-Agent is the longest prefix of its printable
\* runes that fits, and nothing if it is not UTF-8.
AgentFaithful(text, limit) ==
  LET agent == SanitizeUserAgent(text, limit)
  IN IF ~ValidText(text) THEN agent = {}
     ELSE /\ agent \subseteq Printable(text) /\ Cardinality(agent) <= limit
          /\ \A i \in agent : Before(text, i) \subseteq agent
          /\ \A s \in (Starts(text) \cap Printable(text)) \ agent :
               Cardinality(Through(text, s)) > limit

\* What the client sent before it failed, or all of it.
Delivered(body, failAt) == IF failAt = 0 THEN body ELSE SubSeq(body, 1, failAt - 1)

\* Reading ahead for the audit never changes what the upstream receives:
\* all the bytes the client delivered, at the limit, over it and when the
\* client fails; and what is audited is the whole content or nothing.
Replayed(body, failAt, encoding, inflated, corruptAt, limit) ==
  LET out == Forwarded(body, failAt, encoding, inflated, corruptAt, limit)
  IN /\ out.upstream = Delivered(body, failAt)
     /\ out.bypass = "" =>
          /\ failAt = 0
          /\ out.audited = IF encoding = "identity" THEN body ELSE inflated
          /\ Len(out.audited) <= limit
=============================================================================
