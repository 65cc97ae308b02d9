------------------------------- MODULE Parser -------------------------------
(***************************************************************************)
(* ParseResponses of internal/audit/parser.go and the choice of the field  *)
(* to audit in Evaluate (engine.go).  The bytes and tokens of JSON are     *)
(* left to encoding/json: a document is the value the tokens spell.        *)
(*                                                                         *)
(*   <<"str", text>>     text is a sequence of words, <<>> the empty one   *)
(*   <<"num">>           a number, a boolean or null                       *)
(*   <<"arr", items>>    a sequence of values                              *)
(*   <<"obj", members>>  a sequence of <<key, value>>, keys may repeat     *)
(*                                                                         *)
(* Every error of the cursor ends the parse, so their order is left out.   *)
(***************************************************************************)
EXTENDS Integers, SequencesExt

CONSTANT MaxDepth    \* the nesting accepted (DefaultJSONDepth)

IsStr(v) == v[1] = "str"
IsArr(v) == v[1] = "arr"
IsObj(v) == v[1] = "obj"
Input_text == <<"str", <<"input_text">>>>

Keys(obj) == [i \in DOMAIN obj[2] |-> obj[2][i][1]]

\* objectKey with the set of the keys seen in this object.
Unique(obj) == \A i, j \in DOMAIN obj[2] : Keys(obj)[i] = Keys(obj)[j] => i = j

Valued(obj, key) == {obj[2][i][2] : i \in {j \in DOMAIN obj[2] : obj[2][j][1] = key}}

\* skipValue and skipDelimited: read past a value, TRUE without an error.
RECURSIVE SkipValue(_, _)
SkipValue(v, depth) ==
  /\ depth <= MaxDepth
  /\ IsArr(v) => \A i \in DOMAIN v[2] : SkipValue(v[2][i], depth + 1)
  /\ IsObj(v) => Unique(v) /\ \A i \in DOMAIN v[2] : SkipValue(v[2][i][2], depth + 1)

\* stringValue: a scalar needs no depth, anything else is read past.
StringValue(v, depth) == IsArr(v) \/ IsObj(v) => SkipValue(v, depth)

Missing == [state |-> "missing", text |-> <<>>]
Invalid == [state |-> "invalid", text |-> <<>>]
Failed  == [state |-> "error", text |-> <<>>]

newTextField(text) ==
  [state |-> IF text = <<>> THEN "empty" ELSE "valid", text |-> text]

\* A value of the wrong shape: read past, and the field is invalid.
Unusable(v, depth) == IF StringValue(v, depth) THEN Invalid ELSE Failed

parseInstructions(v) == IF IsStr(v) THEN newTextField(v[2]) ELSE Unusable(v, 1)

\* The text of one block; another block type invalidates the field.
parseContentBlock(v) ==
  IF ~IsObj(v) THEN Unusable(v, 4)
  ELSE IF ~Unique(v) \/ \E i \in DOMAIN v[2] :
            IF v[2][i][1] \in {"type", "text"} THEN ~StringValue(v[2][i][2], 5)
                                               ELSE ~SkipValue(v[2][i][2], 5)
  THEN Failed
  ELSE IF Valued(v, "type") = {Input_text} /\ \E t \in Valued(v, "text") : IsStr(t)
  THEN [state |-> "valid", text |-> (CHOOSE t \in Valued(v, "text") : TRUE)[2]]
  ELSE Invalid

\* Mutant: blocks of other types are passed over, the rest is the field.
parseContentLenient(v) ==
  IF IsStr(v) THEN newTextField(v[2])
  ELSE IF ~IsArr(v) THEN Unusable(v, 3)
  ELSE LET blocks == [i \in DOMAIN v[2] |-> parseContentBlock(v[2][i])]
       IN IF \E i \in DOMAIN blocks : blocks[i].state = "error" THEN Failed
          ELSE newTextField(FlattenSeq([i \in DOMAIN blocks |-> blocks[i].text]))

parseContent(v) ==
  IF IsStr(v) THEN newTextField(v[2])
  ELSE IF ~IsArr(v) THEN Unusable(v, 3)
  ELSE LET blocks == [i \in DOMAIN v[2] |-> parseContentBlock(v[2][i])]
           state(s) == \E i \in DOMAIN blocks : blocks[i].state = s
       IN IF state("error") THEN Failed
          ELSE IF state("invalid") THEN Invalid
          ELSE newTextField(FlattenSeq([i \in DOMAIN blocks |-> blocks[i].text]))

parseInputItem(v) ==
  IF ~IsObj(v) THEN Unusable(v, 2)
  ELSE LET content == {parseContent(c) : c \in Valued(v, "content")}
       IN IF \/ ~Unique(v) \/ Failed \in content
             \/ \E i \in DOMAIN v[2] : v[2][i][1] # "content" /\ ~SkipValue(v[2][i][2], 3)
          THEN Failed
          ELSE IF content = {} THEN Invalid ELSE CHOOSE f \in content : TRUE

\* Only the second item of input is looked at, the others are read past.
parseInput(v) ==
  IF ~IsArr(v) THEN Unusable(v, 1)
  ELSE IF \E i \in DOMAIN v[2] \ {2} : ~SkipValue(v[2][i], 2) THEN Failed
  ELSE IF Len(v[2]) < 2 THEN Missing ELSE parseInputItem(v[2][2])

Member(obj, key, parse(_)) ==
  LET values == Valued(obj, key)
  IN IF values = {} THEN Missing ELSE parse(CHOOSE v \in values : TRUE)

ParseResponses(doc) ==
  IF ~IsObj(doc) \/ ~Unique(doc) THEN [error |-> TRUE, instructions |-> Missing, input1 |-> Missing]
  ELSE LET instructions == Member(doc, "instructions", parseInstructions)
           input1 == Member(doc, "input", parseInput)
       IN [error |-> \/ Failed \in {instructions, input1}
                     \/ \E v \in Valued(doc, "model") : ~StringValue(v, 1)
                     \/ \E i \in DOMAIN doc[2] :
                          /\ Keys(doc)[i] \notin {"instructions", "input", "model"}
                          /\ ~SkipValue(doc[2][i][2], 1),
           instructions |-> instructions, input1 |-> input1]

\* What Evaluate goes on with: a field and its text, or the reason to bypass.
Selected(doc) ==
  LET parsed == ParseResponses(doc)
      states == {parsed.instructions.state, parsed.input1.state}
  IN IF parsed.error THEN <<"parse_bypass", <<>>>>
     ELSE IF parsed.instructions.state = "valid" THEN <<"instructions", parsed.instructions.text>>
     ELSE IF parsed.input1.state = "valid" THEN <<"input1", parsed.input1.text>>
     ELSE IF "invalid" \in states THEN <<"parse_bypass", <<>>>>
     ELSE <<"empty_bypass", <<>>>>
-----------------------------------------------------------------------------
\* The reference: the contract stated above ParseResponses, over the set of
\* all values of a document with their nesting and not along the cursor.
RECURSIVE Nested(_, _)
Nested(v, depth) ==
  {<<v, depth>>} \cup
  UNION {Nested(IF IsArr(v) THEN v[2][i] ELSE v[2][i][2], depth + 1) :
           i \in IF IsArr(v) \/ IsObj(v) THEN DOMAIN v[2] ELSE {}}

Readable(doc) == /\ IsObj(doc)
                 /\ \A n \in Nested(doc, 0) : n[2] <= MaxDepth /\ (IsObj(n[1]) => Unique(n[1]))

\* The texts a content can be read as: none unless all of it is input_text.
TextsOf(content) ==
  IF IsStr(content) THEN {content[2]}
  ELSE IF /\ IsArr(content)
          /\ \A i \in DOMAIN content[2] :
               /\ IsObj(content[2][i]) /\ Input_text \in Valued(content[2][i], "type")
               /\ \E t \in Valued(content[2][i], "text") : IsStr(t)
       THEN {FlattenSeq([i \in DOMAIN content[2] |->
               (CHOOSE t \in Valued(content[2][i], "text") : TRUE)[2]])}
       ELSE {}

\* instructions, if it is a text; else the text of input[1].content.
Contract(doc) ==
  LET instructions == UNION {IF IsStr(v) THEN {v[2]} ELSE {} : v \in Valued(doc, "instructions")}
      second == UNION {IF IsArr(v) /\ Len(v[2]) >= 2 THEN {v[2][2]} ELSE {} : v \in Valued(doc, "input")}
      texts == UNION {IF IsObj(item) THEN UNION {TextsOf(c) : c \in Valued(item, "content")} ELSE {} :
                        item \in second}
      shapes == /\ \A v \in Valued(doc, "instructions") : IsStr(v)
                /\ \A v \in Valued(doc, "input") : IsArr(v)
                /\ second # {} => texts # {}
  IN IF ~Readable(doc) THEN <<"parse_bypass", <<>>>>
     ELSE IF instructions \ {<<>>} # {} THEN <<"instructions", CHOOSE t \in instructions : TRUE>>
     ELSE IF texts \ {<<>>} # {} THEN <<"input1", CHOOSE t \in texts : TRUE>>
     ELSE IF shapes THEN <<"empty_bypass", <<>>>> ELSE <<"parse_bypass", <<>>>>
=============================================================================
