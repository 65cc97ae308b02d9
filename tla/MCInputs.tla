------------------------------ MODULE MCInputs ------------------------------
(***************************************************************************)
(* Inputs within bounds for the pure functions, among them the two that    *)
(* scan nested data: the parser of requests and the search for the object  *)
(* in a model's answer, which are compared with recursive definitions.     *)
(***************************************************************************)
EXTENDS Inputs, Parser, AnswerScan

CONSTANTS MaxText,     \* bound: bytes of a text
          MaxBody,     \* bound: bytes of a body
          MaxAnswer,   \* bound: characters of a model's answer
          MaxChain     \* bound: entries of X-Forwarded-For

-----------------------------------------------------------------------------
Empty == <<"str", <<>>>>
Word == <<"str", <<"a">>>>
Num == <<"num">>
Twice == <<"obj", <<<<"k", Num>>, <<"k", Num>>>>>>
Nest[n \in 0..6] == IF n = 0 THEN Num ELSE <<"arr", <<Nest[n - 1]>>>>

\* Values of a wrong shape at a depth: the deepest accepted and one more.
Odd(depth) == {Num, Twice, Nest[5 - depth], Nest[6 - depth]}

\* Zero or one member.
May(key, values) == {<<>>} \cup {<<<<key, v>>>> : v \in values}

Objects(a, b, c) == {<<"obj", x \o y \o z>> : x \in a, y \in b, z \in c}

Blocks == {Num, Word, Twice, Nest[1], Nest[2]} \cup
          Objects(May("type", {Input_text, Word, Num, Nest[1]}),
                  May("text", {Empty, Word, Num, Nest[1]}),
                  May("k", {Num, Nest[1]}) \cup May("type", {Input_text}))

FewBlocks == {Num} \cup Objects({<<<<"type", Input_text>>>>, <<<<"type", Word>>>>},
                                May("text", {Empty, Word}), {<<>>})

BlockLists == {<<>>} \cup {<<b>> : b \in Blocks} \cup (FewBlocks \X FewBlocks)

Items == Odd(2) \cup Objects(May("content", {Empty, Word} \cup Odd(3) \cup {<<"arr", l>> : l \in BlockLists}),
                             May("k", {Num, Twice}), {<<>>})

Lists == {<<>>, <<Twice>>} \cup ({Num, Twice} \X Items) \cup ({Num} \X Items \X {Twice, Nest[4]})

Documents ==
  Odd(0) \cup Objects(May("instructions", {Empty, Word} \cup Odd(1)),
                      May("input", {Word} \cup Odd(1) \cup {<<"arr", l>> : l \in Lists}),
                      May("k", {Num, Nest[5]}) \cup May("model", {Word, Twice}) \cup May("input", {Word}))

-----------------------------------------------------------------------------
MCTexts == BoundedSeq(Bytes, MaxText)
MCSizes == (-1)..(MaxText + 1)

Prefixed(n) == [i \in 1..n |-> i]

MCBodies == {b \in {[body |-> Prefixed(n), failAt |-> f, encoding |-> e, inflated |-> Prefixed(m),
                     corruptAt |-> c, limit |-> l] :
                      n \in 0..MaxBody, f \in 0..(MaxBody + 1), e \in {"identity", "gzip", "br"},
                      m \in 0..MaxBody, c \in 0..(MaxBody + 1), l \in 0..MaxBody} : Arriving(b)}

\* The fields of a model's verdict as they may be written, or left out.
Pair(key, exact, type, value, plain) ==
  [key |-> key, exact |-> exact, type |-> type, value |-> value, plain |-> plain]

Written(key, values) ==
  {<<>>} \cup {<<Pair(key, exact, v[1], v[2], v[3])>> : exact \in BOOLEAN, v \in values}

MCAnswers ==
  {a \o b \o c \o d \o e :
     a \in Written("result", {<<"string", "pass", TRUE>>, <<"string", "pass", FALSE>>,
                              <<"string", "maybe", TRUE>>, <<"number", "1", TRUE>>}),
     b \in Written("confidence", {<<"number", "inside", TRUE>>, <<"number", "outside", TRUE>>,
                                  <<"numeral", "inside", TRUE>>, <<"string", "high", TRUE>>}),
     c \in Written("reason", {<<"string", "r", TRUE>>, <<"string", "", TRUE>>}),
     d \in Written("category", {<<"string", "c", TRUE>>, <<"null", "", TRUE>>}),
     e \in Written("result", {<<"string", "reject", TRUE>>}) \cup Written("note", {<<"null", "", TRUE>>})}

Passes == [result |-> "pass", confidence |-> "inside", reason |-> "r", category |-> "c"]

MCProviders == [ToSet(Formats) -> {[status |-> s, verdict |-> v] :
                                   s \in {0, 200, 400, 404, 422, 500}, v \in {Passes, Refused}}]

MCChains == BoundedSeq(Entries, MaxChain)

MCOldEvents == (Reasons \X {"allow"}) \cup ({"risk_hash_match", "ai_reject"} \X {"block"})

Contents == ({"none"} \X BoundedSeq({Open, Close, Quote, Escape, "x"}, MaxAnswer))
            \cup ({"python"} \X BoundedSeq({Open, Close}, 2))

-----------------------------------------------------------------------------
Parse == Call("parse", Documents)
Find  == Call("find", Contents)

MCSpec == InputsInit /\ [][InputsNext \/ Parse \/ Find]_inputVars

\* The field, the text or the reason to bypass that the cursor arrives at is
\* what the contract above ParseResponses promises: instructions first, else
\* input[1].content if all of it is input_text, and no duplicate key or
\* excessive nesting anywhere, in skipped values as well.  The loop of
\* topLevelJSONObjects accepts exactly the answers that hold one object, by
\* the grammar of braces and strings, between prose without a brace.
ScannersAgree ==
  /\ call = "parse" => Selected(input) = Contract(input)
  /\ call = "find" => ToSet(compatibleJSONObject(input[1], input[2])) =
                        IF input[1] = "none" THEN OnlyObjects(input[2]) ELSE {}
=============================================================================
