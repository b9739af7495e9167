----------------------------- MODULE EventText -----------------------------
(***************************************************************************)
(* lib/sse.ts: events read out of text that arrives in chunks cut anywhere.*)
(* A line that begins with "d" adds the rest of it to the data, one with   *)
(* "e" names the event, any other line is a comment; "n" and "r" stand for *)
(* the two line ends, which may follow each other as one.                  *)
(***************************************************************************)
EXTENDS Naturals, Sequences, SequencesExt

CONSTANTS
  Letters,      \* what texts are made of
  MaxText       \* bound: length of a text

ASSUME LettersAssumption == {"n", "r"} \subseteq Letters /\ MaxText \in Nat

Streams == UNION {[1 .. n -> Letters] : n \in 0 .. MaxText}
Fields == [event : Seq(Letters), data : Seq(Seq(Letters))]
NoFields == [event |-> <<>>, data |-> <<>>]

VARIABLES
  streamed,     \* the whole text the server sends
  readTo,       \* how much of it was read
  buf,          \* text that is not a whole line yet
  fields,       \* event and data of the event being read
  given,        \* events handed on
  ended         \* the stream was read to its end

textVars == <<streamed, readTo, buf, fields, given, ended>>

-----------------------------------------------------------------------------
\* line: an empty line ends the event, which counts if it has data.
AfterLine(s, l) ==
  CASE l = <<>> -> [fields |-> NoFields,
                    out |-> IF s.fields.data = <<>> THEN s.out ELSE Append(s.out, s.fields)]
    [] l # <<>> /\ Head(l) = "d" -> [s EXCEPT !.fields.data = Append(@, Tail(l))]
    [] l # <<>> /\ Head(l) = "e" -> [s EXCEPT !.fields.event = Tail(l)]
    [] OTHER -> s

\* Where lines of b end: at every "n" or "r", an "n" after an "r" being the
\* second half of one end.
EndsIn(b) == {i \in DOMAIN b : b[i] = "r" \/ (b[i] = "n" /\ ~(i > 1 /\ b[i - 1] = "r"))}
NextLine(b, i) == IF b[i] = "r" /\ i < Len(b) /\ b[i + 1] = "n" THEN i + 2 ELSE i + 1

\* Mutant: an "r" at the end of a chunk ends its line at once.
MutWholeEnds(b) == EndsIn(b)
\* push: an "r" at the end may be half of a line end, it waits for the next chunk.
WholeEnds(b) == EndsIn(b) \ (IF b # <<>> /\ b[Len(b)] = "r" THEN {Len(b)} ELSE {})

\* The loop of push: where the next line starts, and what the lines so far gave.
Lines(b, ends, s) ==
  LET read[i \in 0 .. Len(b)] ==
        IF i = 0 THEN [start |-> 1, at |-> s]
        ELSE IF i \notin ends THEN read[i - 1]
        ELSE [start |-> NextLine(b, i),
              at |-> AfterLine(read[i - 1].at, SubSeq(b, read[i - 1].start, i - 1))]
  IN read

-----------------------------------------------------------------------------
EventTextInit ==
  /\ streamed \in Streams /\ readTo = 0 /\ buf = <<>> /\ fields = NoFields
  /\ given = <<>> /\ ended = FALSE

\* readSSE reads a chunk.
PushChunk(n) ==
  LET b == buf \o SubSeq(streamed, readTo + 1, n)
      read == Lines(b, WholeEnds(b), [fields |-> fields, out |-> given])[Len(b)]
  IN /\ ~ended /\ n > readTo
     /\ readTo' = n /\ buf' = SubSeq(b, read.start, Len(b))
     /\ fields' = read.at.fields /\ given' = read.at.out
     /\ UNCHANGED <<streamed, ended>>

\* end: what is left is a line, and the event ends with it.
End ==
  LET s == [fields |-> fields, out |-> given]
      l == IF buf # <<>> /\ Last(buf) = "r" THEN Front(buf) ELSE buf
      after == AfterLine(IF buf # <<>> THEN AfterLine(s, l) ELSE s, <<>>)
  IN /\ ~ended /\ readTo = Len(streamed)
     /\ ended' = TRUE /\ buf' = <<>>
     /\ fields' = after.fields /\ given' = after.out
     /\ UNCHANGED <<streamed, readTo>>

EventTextNext == End \/ \E n \in 1 .. Len(streamed) : PushChunk(n)
EventTextSpec == EventTextInit /\ [][EventTextNext]_textVars
-----------------------------------------------------------------------------
\* Every variable keeps its kind of value.
EventTextTypeOK ==
  /\ streamed \in Seq(Letters) /\ readTo \in 0 .. Len(streamed) /\ buf \in Seq(Letters)
  /\ fields \in Fields /\ given \in Seq(Fields) /\ ended \in BOOLEAN

\* The whole text read letter by letter, an "n" after an "r" being no end of its
\* own: the line so far, and what the lines before it gave.
SecondHalf(t, i) == i > 1 /\ t[i] = "n" /\ t[i - 1] = "r"
ByLetter(t) ==
  LET read[i \in 0 .. Len(t)] ==
        IF i = 0 THEN [line |-> <<>>, at |-> [fields |-> NoFields, out |-> <<>>]]
        ELSE IF SecondHalf(t, i) THEN read[i - 1]
        ELSE IF t[i] \in {"n", "r"}
        THEN [line |-> <<>>, at |-> AfterLine(read[i - 1].at, read[i - 1].line)]
        ELSE [line |-> Append(read[i - 1].line, t[i]), at |-> read[i - 1].at]
  IN read

\* Its events: the last one ends with the text.
EventsOf(t) ==
  LET read == ByLetter(t)[Len(t)] IN AfterLine(AfterLine(read.at, read.line), <<>>).out

\* However the text was cut into chunks, what was handed on is the beginning of
\* the events of the whole text, and all of them once it ended.
ChunksDoNotMatter ==
  /\ IsPrefix(given, EventsOf(streamed))
  /\ ended => given = EventsOf(streamed)
=============================================================================
