------------------------------- MODULE Inputs -------------------------------
(***************************************************************************)
(* The pure functions of the program on data from outside, called with any *)
(* input of the given sets.  A behaviour is one call: the state holds the  *)
(* function and its input.                                                 *)
(***************************************************************************)
EXTENDS TextCuts, ReviewVerdict, Forwarding, EventContract

CONSTANTS Texts, Sizes,    \* texts to shorten, and configured limits
          Bodies,          \* bodies: what arrives, how it fails, what it inflates to
          Answers,         \* objects of a model's answer
          Providers,       \* what a provider answers to each response format
          Chains,          \* X-Forwarded-For
          OldEvents        \* reason and decision of rows of an older version

Pairs == [key : STRING, exact : BOOLEAN, type : STRING, value : STRING, plain : BOOLEAN]

\* A body that can arrive: a read fails at one of its bytes or behind them.
Arriving(b) ==
  /\ b.limit \in Nat /\ b.body \in Seq(Nat) /\ b.inflated \in Seq(Nat)
  /\ b.failAt \in 0..(Len(b.body) + 1) /\ b.corruptAt \in 0..(Len(b.inflated) + 1)

\* A block is always by a risk rule or by a rejection of the AI.
ASSUME InputsAssumption ==
  /\ Texts \subseteq Seq(Bytes) /\ Sizes \subseteq Int
  /\ \A b \in Bodies : Arriving(b)
  /\ Answers \subseteq Seq(Pairs)
  /\ Providers \subseteq [ToSet(Formats) -> [status : Int, verdict : [Required -> STRING]]]
  /\ Chains \subseteq Seq(Entries)
  /\ \A e \in OldEvents : e[2] = "block" => e[1] \in {"risk_hash_match", "ai_reject"}

VARIABLES call, input

inputVars == <<call, input>>

InputsInit == call = "none" /\ input = <<>>

Call(name, arguments) == call = "none" /\ call' = name /\ input' \in arguments

Cut      == Call("cut", Texts \X Sizes)
Capture  == Call("capture", Bodies)
Read     == Call("read", Answers)
Ask      == Call("ask", Providers)
Forward  == Call("forward", Entries \X Chains)
Migrate  == Call("migrate", OldEvents)

InputsNext == Cut \/ Capture \/ Read \/ Ask \/ Forward \/ Migrate

InputsSpec == InputsInit /\ [][InputsNext]_inputVars
-----------------------------------------------------------------------------
\* Sample and evidence of a text keep whole runes, from the front and the
\* back without overlap, as many as their limits allow; the User-Agent keeps
\* the longest prefix of its printable runes; a text that fits is kept.
CutsFaithful ==
  call = "cut" => LET text == input[1]
                      size == input[2]
                  IN /\ ValidText(text) => SampleFaithful(text, size) /\ EvidenceFaithful(text, size)
                     /\ size >= 0 => AgentFaithful(text, size)

\* The upstream receives what the client delivered, whatever was read ahead
\* for the audit, and the audit sees all of the content or nothing.
BodyReplayed ==
  call = "capture" => Replayed(input.body, input.failAt, input.encoding, input.inflated,
                               input.corruptAt, input.limit)

\* The compatible reader agrees with the strict reader, invents no field and
\* never chooses between two values of one; the answer to the first of the
\* three formats a provider understands counts, and no other.
VerdictAgrees ==
  /\ call = "read" => ReadingFaithful(input)
  /\ call = "ask" => ReviewFaithful(input)

\* The two readers of X-Forwarded-For are honest about the client's address:
\* the upstream is told of no hop behind an untrusted one, and limits are
\* charged to the client it is told of wherever every entry is an address.
ClientAddressHonest == call = "forward" => AddressHonest(input[1], input[2])

\* setXForwarded's comment: values to the left of the first untrusted or
\* malformed hop cannot be authenticated.  Here of the address that clientIP
\* charges, on chains with malformed entries as well.
ChargedAuthenticated == call = "forward" => Authenticated(input[1], input[2])

\* The SQL of the migration gives an old row the action and outcome that
\* the program gives a new event with the same reason and decision.
ContractAgrees ==
  call = "migrate" =>
    migrateEventContractV2(input[1], input[2]) = DeriveEventContract(input[1], input[2] = "block")
=============================================================================
