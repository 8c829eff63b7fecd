----------------------------- MODULE Redaction -----------------------------
(***************************************************************************)
(* The streaming redactor (redact.rs) and the limit on both streams of a   *)
(* run together (supervisor.rs, enforce_combined_limit).  Output arrives   *)
(* in chunks of any size; secrets are replaced, bytes that are not UTF-8   *)
(* are escaped, and what exceeds the limit is dropped from the middle.     *)
(* Bytes are symbols: "L" starts a character of two bytes, "T" one of      *)
(* three, "C" continues either, and every other symbol is ASCII.           *)
(***************************************************************************)
EXTENDS Naturals, Sequences, SequencesExt, FiniteSetsExt

CONSTANTS
  Byte,         \* the symbols that stand for bytes
  SecretSets,   \* the sets of secrets a run may use
  Chunks,       \* the pieces a read of the pipe may return
  MaxText,      \* bound on the bytes the command writes
  Limit,        \* output_limit_bytes
  MinLimit,     \* MIN_OUTPUT_LIMIT_BYTES
  Marker,       \* REDACTION_MARKER
  FewOmitted,   \* the line that tells how much was dropped, and the longer
  ManyOmitted,  \* one from the number on that has a digit more
  Many,
  OtherTexts    \* what the other stream may have left, as characters

\* A character has at least one byte.
Character == Seq(Byte) \ {<<>>}

ASSUME LimitAssumption ==
  /\ MaxText \in Nat /\ Limit \in Nat /\ MinLimit \in Nat \ {0}
  /\ Limit >= MinLimit /\ Many \in Nat

ASSUME TextAssumption ==
  /\ {"\\", "x", "h"} \subseteq Byte
  /\ Chunks \subseteq Seq(Byte) /\ OtherTexts \subseteq Seq(Character)
  /\ Marker \in Seq(Byte)

\* The line fits beside a full head: the limit is at least 128 bytes, and the
\* line with a number of 20 digits has 44.
ASSUME LineAssumption ==
  \A line \in {FewOmitted, ManyOmitted} :
    line \in Seq(Character) /\ Limit \div 2 + Len(FlattenSeq(line)) <= Limit

\* A secret is the patterns made from it and whether it is under four bytes.
ASSUME SecretAssumption ==
  \A secrets \in SecretSets :
    /\ IsFiniteSet(secrets)
    /\ \A s \in secrets :
         /\ s \in [patterns : SUBSET (Seq(Byte) \ {<<>>}), short : BOOLEAN]
         /\ IsFiniteSet(s.patterns)

VARIABLES
  text,    \* every byte read so far
  rd,      \* the redactor
  out,     \* RedactedOutput, its text as a sequence of characters
  shown    \* the two streams after the combined limit

RedactionVars == <<text, rd, out, shown>>

NoOutput == [done |-> FALSE, text |-> <<>>, count |-> 0, truncated |-> FALSE,
             omitted |-> 0, suppressed |-> FALSE]
NotShown == [done |-> FALSE, stdout |-> <<>>, stderr |-> <<>>, other |-> <<>>]

Patterns(secrets) == UNION {s.patterns : s \in secrets}

Occurs(p, s, i) ==
  /\ i + Len(p) - 1 <= Len(s)
  /\ SubSeq(s, i, i + Len(p) - 1) = p

ContainsPattern(s, patterns) ==
  \E p \in patterns : \E i \in 1 .. Len(s) : Occurs(p, s, i)

MaximumPattern(patterns) == Max({Len(p) : p \in patterns} \cup {1})

\* The bytes of a sequence of characters.
Bytes(chars) == FlattenSeq(chars)

-----------------------------------------------------------------------------
(* BoundedCapture                                                          *)

HeadCapacity == Limit \div 2

\* pop_front_character until the rest fits.
DropUntil(chars, capacity) ==
  LET from(k) == SubSeq(chars, k, Len(chars))
      fitting == {k \in 1 .. Len(chars) + 1 : Len(Bytes(from(k))) <= capacity}
  IN  from(Min(fitting))

\* push_str for one character: once the tail has begun the head is closed.
PushChar(capture, char) ==
  IF ~ capture.tailStarted
     /\ Len(Bytes(capture.head)) + Len(char) <= HeadCapacity
  THEN [capture EXCEPT !.head = Append(@, char), !.total = @ + Len(char)]
  ELSE [capture EXCEPT
          !.tail = DropUntil(Append(@, char), Limit - HeadCapacity),
          !.tailStarted = TRUE, !.total = @ + Len(char)]

\* push_str
PushStr(capture, chars) ==
  LET upTo[n \in 0 .. Len(chars)] ==
        IF n = 0 THEN capture ELSE PushChar(upTo[n - 1], chars[n])
  IN  upTo[Len(chars)]

Retained(capture) == Len(Bytes(capture.head)) + Len(Bytes(capture.tail))

\* The line about the omitted bytes; its width is that of their number.
OmittedLine(n) == IF n < Many THEN FewOmitted ELSE ManyOmitted

CaptureFinishMutant(capture) ==
  LET omitted == capture.total - Retained(capture)
  IN  IF capture.total <= Limit /\ omitted = 0
      THEN [text |-> capture.head \o capture.tail, truncated |-> FALSE,
            omitted |-> 0]
      ELSE [text |-> capture.head \o OmittedLine(omitted) \o capture.tail,
            truncated |-> TRUE, omitted |-> omitted]

\* finish: the tail loses characters until the line about all that is missing
\* fits too; the line may grow as the tail shrinks.
CaptureFinish(capture) ==
  LET head == capture.head
      from(k) == SubSeq(capture.tail, k, Len(capture.tail))
      omitted(k) == capture.total - Len(Bytes(head)) - Len(Bytes(from(k)))
      line(k) == OmittedLine(omitted(k))
      fitting == {k \in 1 .. Len(capture.tail) + 1 :
                    Len(Bytes(head)) + Len(Bytes(line(k))) + Len(Bytes(from(k)))
                      <= Limit}
      first == Min(fitting)
  IN  IF capture.total <= Limit /\ Retained(capture) = capture.total
      THEN [text |-> head \o capture.tail, truncated |-> FALSE, omitted |-> 0]
      ELSE [text |-> head \o line(first) \o from(first), truncated |-> TRUE,
            omitted |-> omitted(first)]

-----------------------------------------------------------------------------
(* Utf8Escaper                                                             *)

Width(b) == CASE b = "L" -> 2 [] b = "T" -> 3 [] OTHER -> 1

\* Each invalid byte becomes four ASCII characters.
Escaped(bytes) ==
  FlattenSeq([i \in 1 .. Len(bytes) |-> << <<"\\">>, <<"x">>, <<"h">>, <<"h">> >>])

\* The continuation bytes that follow the first, as far as they are wanted.
Continued(bytes) ==
  Max({k \in 0 .. Width(bytes[1]) - 1 :
         k < Len(bytes) /\ \A i \in 2 .. k + 1 : bytes[i] = "C"})

\* The next characters of the buffer go to the capture; an incomplete last
\* one is kept.
EscaperStep(x) ==
  LET n == Continued(x.rest) + 1
      taken == SubSeq(x.rest, 1, n)
      after(chars) == [x EXCEPT !.capture = PushStr(@, chars),
                                !.rest = SubSeq(@, n + 1, Len(@))]
  IN  IF x.rest = <<>> THEN x
      ELSE IF n < Width(x.rest[1])
      THEN IF n = Len(x.rest) THEN [x EXCEPT !.utf8 = x.rest, !.rest = <<>>]
           ELSE after(Escaped(taken))
      ELSE IF x.rest[1] = "C" THEN after(Escaped(taken))
      ELSE after(<<taken>>)

\* push: the loop takes at least one byte of the buffer each time.
EscaperPush(esc, bytes) ==
  LET buffer == esc.utf8 \o bytes
      after[n \in 0 .. Len(buffer)] ==
        IF n = 0 THEN [capture |-> esc.capture, utf8 |-> <<>>, rest |-> buffer]
        ELSE EscaperStep(after[n - 1])
  IN  [capture |-> after[Len(buffer)].capture, utf8 |-> after[Len(buffer)].utf8]

\* finish: what is still incomplete is escaped.
EscaperFinish(esc) == PushStr(esc.capture, Escaped(esc.utf8))

-----------------------------------------------------------------------------
(* StreamingRedactor                                                       *)

\* find_next, among the positions after pos up to safeEnd: the leftmost
\* occurrence, and the longest of those that start there.
FindNext(buffer, pos, safeEnd, patterns) ==
  LET starts == {i \in pos + 1 .. safeEnd :
                   \E p \in patterns : Occurs(p, buffer, i)}
  IN  IF starts = {} THEN <<>>
      ELSE <<Min(starts),
             Max({Len(p) : p \in {q \in patterns :
                                    Occurs(q, buffer, Min(starts))}})>>

SafeEndMutant(r, finishing) ==
  IF finishing THEN Len(r.pending)
  ELSE Min({Len(r.pending),
            Max({0, Len(r.pending) - MaximumPattern(r.patterns) + 2})})

\* A pattern that starts before this point has its end in the buffer.
SafeEnd(r, finishing) ==
  IF finishing THEN Len(r.pending)
  ELSE Max({0, Len(r.pending) - (MaximumPattern(r.patterns) - 1)})

\* One turn of process's loop, from position x.pos of the buffer.
ProcessStep(r, x, safeEnd) ==
  LET buffer == r.pending
      next == FindNext(buffer, x.pos, safeEnd, r.patterns)
  IN  IF x.pos >= safeEnd THEN x
      ELSE IF next = <<>>
      THEN [x EXCEPT !.esc = EscaperPush(@, SubSeq(buffer, x.pos + 1, safeEnd)),
                     !.pos = safeEnd]
      ELSE [x EXCEPT !.esc = EscaperPush(
                               EscaperPush(@, SubSeq(buffer, x.pos + 1, next[1] - 1)),
                               r.marker),
                     !.count = @ + 1, !.pos = next[1] + next[2] - 1]

Process(r, finishing) ==
  LET safeEnd == SafeEnd(r, finishing)
      after[n \in 0 .. safeEnd] ==
        IF n = 0 THEN [esc |-> r.esc, count |-> r.count, pos |-> 0]
        ELSE ProcessStep(r, after[n - 1], safeEnd)
      last == after[safeEnd]
  IN  [r EXCEPT !.esc = last.esc, !.count = last.count,
                !.pending = SubSeq(@, last.pos + 1, Len(@))]

\* StreamingRedactor::new
NewRedactor(secrets) ==
  LET patterns == Patterns(secrets)
  IN  [patterns |-> patterns,
       marker |-> IF ContainsPattern(Marker, patterns) THEN <<>> ELSE Marker,
       pending |-> <<>>, count |-> 0,
       suppressed |-> \E s \in secrets : s.short,
       esc |-> [utf8 |-> <<>>,
                capture |-> [head |-> <<>>, tail |-> <<>>,
                             tailStarted |-> FALSE, total |-> 0]]]

RedactionInit ==
  /\ text = <<>> /\ out = NoOutput /\ shown = NotShown
  /\ \E secrets \in SecretSets : rd = NewRedactor(secrets)

\* redact_reader: one read of the pipe is pushed.
Push(chunk) ==
  /\ ~ out.done /\ Len(text) + Len(chunk) <= MaxText
  /\ text' = text \o chunk
  /\ rd' = IF rd.suppressed THEN rd
           ELSE Process([rd EXCEPT !.pending = @ \o chunk], FALSE)
  /\ UNCHANGED <<out, shown>>

OutputOfMutant(r) ==
  LET last == Process(r, TRUE)
      captured == CaptureFinish(EscaperFinish(last.esc))
  IN  IF r.suppressed
      THEN [NoOutput EXCEPT !.done = TRUE, !.suppressed = TRUE]
      ELSE [NoOutput EXCEPT
              !.done = TRUE, !.count = last.count, !.text = captured.text,
              !.truncated = captured.truncated, !.omitted = captured.omitted]

\* finish: the text is searched once more, for what redaction itself and the
\* removed middle may have joined.
OutputOf(r) ==
  LET last == Process(r, TRUE)
      captured == CaptureFinish(EscaperFinish(last.esc))
      joined == ContainsPattern(Bytes(captured.text), r.patterns)
  IN  IF r.suppressed
      THEN [NoOutput EXCEPT !.done = TRUE, !.suppressed = TRUE]
      ELSE [done |-> TRUE, text |-> IF joined THEN <<>> ELSE captured.text,
            count |-> last.count, truncated |-> captured.truncated,
            omitted |-> captured.omitted, suppressed |-> joined]

\* The end of the pipe.
FinishReader ==
  /\ ~ out.done
  /\ out' = OutputOf(rd)
  /\ UNCHANGED <<text, rd, shown>>

-----------------------------------------------------------------------------
(* enforce_combined_limit                                                  *)

\* truncate_utf8: as many whole characters as fit.
Truncated(chars, limit) ==
  LET upTo(k) == SubSeq(chars, 1, k)
      fitting == {k \in 0 .. Len(chars) : Len(Bytes(upTo(k))) <= limit}
  IN  upTo(Max(fitting))

\* The longer stream loses its last character while both do not fit.
ShrinkStep(s) ==
  IF Len(Bytes(s.stdout)) + Len(Bytes(s.stderr)) <= Limit THEN s
  ELSE IF Len(Bytes(s.stdout)) >= Len(Bytes(s.stderr))
  THEN [s EXCEPT !.stdout = Front(@)]
  ELSE [s EXCEPT !.stderr = Front(@)]

Shrunk(stdout, stderr) ==
  LET after[n \in 0 .. Len(stdout) + Len(stderr)] ==
        IF n = 0 THEN [stdout |-> stdout, stderr |-> stderr]
        ELSE ShrinkStep(after[n - 1])
  IN  after[Len(stdout) + Len(stderr)]

Combined(stdout, stderr) ==
  IF Len(Bytes(stdout)) + Len(Bytes(stderr)) <= Limit
  THEN [stdout |-> stdout, stderr |-> stderr]
  ELSE Shrunk(Truncated(stdout, Max({HeadCapacity, MinLimit \div 2})),
              Truncated(stderr, Max({Limit - HeadCapacity, MinLimit \div 2})))

\* The other stream has left one of the texts a redactor may leave.
Combine(other) ==
  /\ out.done /\ ~ shown.done
  /\ LET both == Combined(out.text, other)
     IN  shown' = [done |-> TRUE, stdout |-> both.stdout, stderr |-> both.stderr,
                   other |-> other]
  /\ UNCHANGED <<text, rd, out>>

RedactionNext ==
  \/ \E chunk \in Chunks : Push(chunk)
  \/ FinishReader
  \/ \E other \in OtherTexts : Combine(other)

RedactionSpec == RedactionInit /\ [][RedactionNext]_RedactionVars

-----------------------------------------------------------------------------
(* Reference: redaction, escaping and loss, on the whole text at once.     *)

\* Every place is replaced by the longest pattern that starts there.
Redacted(patterns, marker) ==
  LET of[s \in Seq(Byte)] ==
        LET fits == {p \in patterns : IsPrefix(p, s)}
            n == IF fits = {} THEN 1 ELSE Max({Len(p) : p \in fits})
            rest == of[SubSeq(s, n + 1, Len(s))]
        IN  IF s = <<>> THEN [bytes |-> <<>>, count |-> 0]
            ELSE IF fits = {}
            THEN [bytes |-> <<s[1]>> \o rest.bytes, count |-> rest.count]
            ELSE [bytes |-> marker \o rest.bytes, count |-> rest.count + 1]
  IN  of

\* Whole characters as they are, and every other byte escaped.
Decoded[s \in Seq(Byte)] ==
  LET n == Width(s[1])
      whole == s[1] # "C" /\ n <= Len(s) /\ \A i \in 2 .. n : s[i] = "C"
  IN  IF s = <<>> THEN <<>>
      ELSE IF whole
      THEN <<SubSeq(s, 1, n)>> \o Decoded[SubSeq(s, n + 1, Len(s))]
      ELSE Escaped(<<s[1]>>) \o Decoded[Tail(s)]

-----------------------------------------------------------------------------
(* Properties.                                                             *)

\* The streams and the redactor keep their shape, and an output that was
\* suppressed carries no text (RedactedOutput).
RedactionTypeOK ==
  /\ Len(text) <= MaxText
  /\ Len(rd.pending) < MaximumPattern(rd.patterns)
  /\ out.done \in BOOLEAN /\ shown.done \in BOOLEAN
  /\ out.suppressed => out.text = <<>>
  /\ ~ out.truncated => out.omitted = 0

\* However the output is cut into reads, the result is that of redacting and
\* escaping the whole text at once: complete when nothing was dropped, and
\* otherwise its beginning and its end in whole characters, with the number
\* of bytes between them (process, Utf8Escaper, BoundedCapture).
ChunkingIsInvisible ==
  out.done /\ ~ rd.suppressed =>
    LET whole == Redacted(rd.patterns, rd.marker)[text]
        chars == Decoded[whole.bytes]
        n == Len(chars)
    IN  /\ out.count = whole.count
        /\ out.suppressed \/
             IF ~ out.truncated THEN out.text = chars
             ELSE \E i \in 0 .. n : \E j \in i + 1 .. n + 1 :
                    /\ out.text = SubSeq(chars, 1, i) \o OmittedLine(out.omitted)
                                    \o SubSeq(chars, j, n)
                    /\ out.omitted = Len(Bytes(SubSeq(chars, i + 1, j - 1)))

\* No pattern of any secret is in what a run returns, also where replacing,
\* escaping or dropping joined bytes that the command wrote apart (finish),
\* and the combined limit adds none to either stream (enforce_combined_limit).
PatternsNeverShown ==
  /\ out.done => /\ ~ ContainsPattern(Bytes(out.text), rd.patterns)
                 /\ ~ ContainsPattern(Bytes(shown.stdout), rd.patterns)
  /\ shown.done /\ ~ ContainsPattern(Bytes(shown.other), rd.patterns)
       => ~ ContainsPattern(Bytes(shown.stderr), rd.patterns)

\* Each stream stays within the limit with the line about dropped bytes, and
\* so do both together, which lose whole characters at their ends and nothing
\* when they fit (CaptureFinish's loop, enforce_combined_limit).
OutputBounded ==
  /\ Len(Bytes(out.text)) <= Limit
  /\ shown.done =>
       /\ Len(Bytes(shown.stdout)) + Len(Bytes(shown.stderr)) <= Limit
       /\ IsPrefix(shown.stdout, out.text) /\ IsPrefix(shown.stderr, shown.other)
       /\ Len(Bytes(out.text)) + Len(Bytes(shown.other)) <= Limit =>
            shown.stdout = out.text /\ shown.stderr = shown.other
=============================================================================
