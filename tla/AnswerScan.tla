----------------------------- MODULE AnswerScan -----------------------------
(***************************************************************************)
(* The search of internal/audit/openai_reviewer.go for the one JSON object *)
(* in what a model wrote around it.                                        *)
(***************************************************************************)
EXTENDS Integers, SequencesExt

\* Characters, as far as the scan tells them apart.
Open   == "{"
Close  == "}"
Quote  == "quote"
Escape == "backslash"

\* One iteration of topLevelJSONObjects.
Scan(s, char) ==
  LET at == s.at + 1
      next == [s EXCEPT !.at = at]
  IN IF s.failed THEN s
     ELSE IF s.inString
     THEN IF s.escaped THEN [next EXCEPT !.escaped = FALSE]
          ELSE [next EXCEPT !.escaped = (char = Escape), !.inString = (char # Quote)]
     ELSE IF char = Quote /\ s.depth > 0 THEN [next EXCEPT !.inString = TRUE]
     ELSE IF char = Open
     THEN [next EXCEPT !.start = IF s.depth = 0 THEN at ELSE @, !.depth = @ + 1]
     ELSE IF char # Close THEN next
     ELSE IF s.depth = 0 THEN [next EXCEPT !.failed = TRUE]
     ELSE IF s.depth > 1 THEN [next EXCEPT !.depth = @ - 1]
     ELSE [next EXCEPT !.depth = 0, !.objects = Append(@, SubSeq(s.content, s.start, at))]

topLevelJSONObjects(content) ==
  LET end == FoldLeft(Scan, [content |-> content, at |-> 0, start |-> 0, depth |-> 0,
                             inString |-> FALSE, escaped |-> FALSE,
                             failed |-> FALSE, objects |-> <<>>], content)
  IN IF end.failed \/ end.depth # 0 \/ end.inString THEN <<>> ELSE end.objects

\* compatibleJSONObject: a fence may say json or nothing.
compatibleJSONObject(fence, content) ==
  LET objects == topLevelJSONObjects(content)
  IN IF fence \in {"", "json", "none"} /\ Len(objects) = 1 THEN objects ELSE <<>>

\* The reference of the scan: the grammar of nested braces and strings.
RECURSIVE IsStringBody(_)
IsStringBody(s) ==
  \/ s = <<>>
  \/ s[1] = Escape /\ Len(s) >= 2 /\ IsStringBody(SubSeq(s, 3, Len(s)))
  \/ s[1] \notin {Escape, Quote} /\ IsStringBody(Tail(s))

IsString(s) == /\ Len(s) >= 2 /\ s[1] = Quote /\ s[Len(s)] = Quote
               /\ IsStringBody(SubSeq(s, 2, Len(s) - 1))

RECURSIVE IsBody(_)
IsObject(s) == /\ Len(s) >= 2 /\ s[1] = Open /\ s[Len(s)] = Close
               /\ IsBody(SubSeq(s, 2, Len(s) - 1))
IsBody(s) ==
  \/ s = <<>>
  \/ s[1] \notin {Open, Close, Quote} /\ IsBody(Tail(s))
  \/ \E k \in 2..Len(s) : /\ IsString(SubSeq(s, 1, k)) \/ IsObject(SubSeq(s, 1, k))
                          /\ IsBody(SubSeq(s, k + 1, Len(s)))

NoBrace(s) == \A i \in DOMAIN s : s[i] \notin {Open, Close}

\* The objects of a text that is one object between prose without braces.
OnlyObjects(content) ==
  {SubSeq(content, i, j) : <<i, j>> \in
     {p \in (1..Len(content)) \X (1..Len(content)) :
        /\ IsObject(SubSeq(content, p[1], p[2]))
        /\ NoBrace(SubSeq(content, 1, p[1] - 1))
        /\ NoBrace(SubSeq(content, p[2] + 1, Len(content)))}}
=============================================================================
