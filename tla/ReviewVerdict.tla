---------------------------- MODULE ReviewVerdict ----------------------------
(***************************************************************************)
(* How internal/audit/openai_reviewer.go gets a verdict from the JSON      *)
(* object a model wrote: the retries with simpler response formats, and    *)
(* the strict and the compatible reading of the object's fields.           *)
(***************************************************************************)
EXTENDS Integers, SequencesExt

\* An object of the model's answer is a sequence of [key, exact, type, value,
\* plain]: key is the key without case and blanks, exact tells whether it
\* was written so, and plain whether the value was.
Required == {"result", "confidence", "reason", "category"}

Refused == [result |-> "", confidence |-> "", reason |-> "", category |-> ""]

\* ValidateAIVerdict, on a confidence inside or outside 0..1.
Valid(v) == /\ v.result \in {"pass", "reject", "uncertain"}
            /\ v.confidence = "inside" /\ v.reason # "" /\ v.category # ""

Field(object, key) == object[CHOOSE i \in DOMAIN object : object[i].key = key]

\* The verdict the fields spell, if each has a type the reader accepts.
Decoded(object, numberTypes) ==
  LET v == [k \in Required |-> Field(object, k).value]
  IN IF /\ \A k \in Required \ {"confidence"} : Field(object, k).type = "string"
        /\ Field(object, "confidence").type \in numberTypes
        /\ Valid(v)
     THEN v ELSE Refused

parseStrict(object) ==
  IF /\ \A i \in DOMAIN object : object[i].key \in Required /\ object[i].exact
     /\ \A i, j \in DOMAIN object : object[i].key = object[j].key => i = j
     /\ Len(object) = 4
     /\ Field(object, "result").plain
  THEN Decoded(object, {"number"}) ELSE Refused

\* Mutant: duplicates are looked for before the keys are normalised, and
\* the last value of a key stays.
parseCompatibleLast(object) ==
  IF parseStrict(object) # Refused THEN parseStrict(object)
  ELSE IF /\ \A i, j \in DOMAIN object : 
               object[i].key = object[j].key /\ object[i].exact = object[j].exact => i = j
          /\ \A k \in Required : \E i \in DOMAIN object : object[i].key = k
  THEN Decoded(Reverse(object), {"number", "numeral"}) ELSE Refused

parseCompatible(object) ==
  IF parseStrict(object) # Refused THEN parseStrict(object)
  ELSE IF /\ \A i, j \in DOMAIN object : object[i].key = object[j].key => i = j
          /\ \A k \in Required : \E i \in DOMAIN object : object[i].key = k
  THEN Decoded(object, {"number", "numeral"}) ELSE Refused
-----------------------------------------------------------------------------
Formats == <<"json_schema", "json_object_no_thinking", "json_object">>

\* responseFormatFallbackStatus
Fallback(status) == status \in {400, 404, 422}

\* reviewWithFormat, on what the provider does with the request: no answer in
\* time (status 0), or a status and a body that holds a verdict or does not.
reviewWithFormat(answer) ==
  [status |-> answer.status,
   error |-> IF answer.status = 0 THEN "deadline"
             ELSE IF answer.status \notin 200..299 THEN "unavailable"
             ELSE IF answer.verdict = Refused THEN "invalid" ELSE "none"]

\* Review: a simpler format is tried only after a status that says the
\* format is not understood; any other outcome is final.
Review(provider) ==
  LET outcome(i) == reviewWithFormat(provider[Formats[i]])
      retried(i) == outcome(i).error # "none" /\ Fallback(outcome(i).status)
      last == IF ~retried(1) THEN 1 ELSE IF ~retried(2) THEN 2 ELSE 3
  IN [tried |-> last, error |-> outcome(last).error,
      verdict |-> IF outcome(last).error = "none" THEN provider[Formats[last]].verdict ELSE Refused]
-----------------------------------------------------------------------------
\* What the strict reader accepts the compatible one reads alike, and a
\* verdict of either is the only value the object gives each field.
ReadingFaithful(object) ==
  LET verdict == parseCompatible(object)
      values(k) == {object[i].value : i \in {j \in DOMAIN object : object[j].key = k}}
  IN /\ parseStrict(object) # Refused => verdict = parseStrict(object)
     /\ verdict # Refused => Valid(verdict) /\ \A k \in Required : values(k) = {verdict[k]}

\* A verdict is the one in a successful answer to the first format that the
\* provider understands, and there is none without such an answer.
ReviewFaithful(provider) ==
  LET answer(i) == provider[Formats[i]]
      understood == {i \in 1..3 : ~Fallback(answer(i).status)}
      outcome == Review(provider)
      success(i) == /\ understood # {} /\ i = Min(understood)
                    /\ answer(i).status \in 200..299 /\ answer(i).verdict # Refused
  IN /\ outcome.error = "none" <=> \E i \in 1..3 : success(i)
     /\ \A i \in 1..3 : success(i) => outcome.tried = i /\ outcome.verdict = answer(i).verdict
     /\ outcome.error # "none" => outcome.verdict = Refused
=============================================================================
