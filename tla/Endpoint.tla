------------------------------ MODULE Endpoint ------------------------------
(***************************************************************************)
(* The adaptive endpointer's text rules (go/internal/turn/endpoint.go).    *)
(*                                                                         *)
(* A caller text is the sequence of its tokens (what tokenize returns), so *)
(* joining two texts with a space is concatenation and a blank text is the *)
(* empty sequence.  A dictionary is one set of tokens per locale; the      *)
(* number dictionary also holds the tokens made of digits, and QMark the   *)
(* tokens written with a trailing question mark.  Waits are counted in     *)
(* media frames (20 ms).                                                   *)
(***************************************************************************)
EXTENDS Naturals, Sequences, Functions

CONSTANTS
  Token,           \* the tokens callers say
  Locale,          \* conversation locales (en-CA, fr-CA)
  Hesitation,      \* [Locale -> SUBSET Token]: "um", "euh"
  Numeric,         \* [Locale -> SUBSET Token]: number words, digit groups
  Incomplete,      \* [Locale -> SUBSET Token]: words that end no sentence
  QuestionLed,     \* [Locale -> SUBSET Token]: words that open a question
  BackchannelDict, \* [Locale -> SUBSET Token]: "yeah", "ouais"
  QMark,           \* tokens that end with "?"
  Runes,           \* [Token -> Nat]: non-space runes of a token
  Delays           \* EndpointDelays, in frames

ASSUME EndpointAssumption ==
  /\ Delays \in [hesitation : Nat, number : Nat, incomplete : Nat,
                 question : Nat, default : Nat]
  /\ Runes \in [Token -> Nat]

Text == Seq(Token)

\* waitForMs: how many frames of silence close a user turn with this text.
\* The order of the tests is the precedence of the code.
waitForMs(text, loc) ==
  IF text = << >> THEN Delays.default
  ELSE LET last == text[Len(text)] IN
       IF last \in Hesitation[loc] THEN Delays.hesitation
       ELSE IF last \in Numeric[loc] THEN Delays.number
       ELSE IF last \in Incomplete[loc] THEN Delays.incomplete
       ELSE IF last \in QMark \/ text[1] \in QuestionLed[loc] THEN Delays.question
       ELSE Delays.default

\* isBackchannel: one to three tokens, all in the locale's dictionary.
isBackchannel(text, loc) ==
  /\ Len(text) \in 1..3
  /\ \A i \in 1..Len(text) : text[i] \in BackchannelDict[loc]

\* realTextLen: non-space runes of the text.
realTextLen(text) ==
  FoldFunction(LAMBDA a, b : a + b, 0, [i \in DOMAIN text |-> Runes[text[i]]])
=============================================================================
