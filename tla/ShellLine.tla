----------------------------- MODULE ShellLine -----------------------------
(***************************************************************************)
(* How the gate takes a shell command apart before it classifies the       *)
(* pieces (gate/bash_classify.py): logical lines, the pieces between       *)
(* operators, and two scanners for text that is live outside quotes.  Each *)
(* of them reads quotes and backslashes for itself; what they make of the  *)
(* same text must fit together.  Which program a piece runs, and whether   *)
(* that program is on the list, is a call's data in PreToolGate.           *)
(*                                                                         *)
(* A character is a letter "a", a blank "sp", a dash, a quote "sq" or "dq",*)
(* a backslash "bs", "bar", "semi" (for ; and &&), a newline "nl", "sub"   *)
(* (for a command substitution's opening) or "redir" (for < and >).        *)
(***************************************************************************)
EXTENDS Naturals, Sequences, SequencesExt

CONSTANTS Characters, MaxLength  \* bound: characters of a command

VARIABLE command

(* A tool call's command, of any text.                                     *)
Types ==
  /\ Len(command) < MaxLength
  /\ \E c \in Characters : command' = Append(command, c)

ShellSpec == command = << >> /\ [][Types]_command

-----------------------------------------------------------------------------
(* str.strip: no blanks and newlines at the ends.                          *)
Solid(text) == {i \in 1 .. Len(text) : text[i] \notin {"sp", "nl"}}
Strip(text) ==
  IF Solid(text) = {} THEN << >>
  ELSE SubSeq(text, CHOOSE i \in Solid(text) : \A j \in Solid(text) : i <= j,
                    CHOOSE i \in Solid(text) : \A j \in Solid(text) : i >= j)

(* str.splitlines.                                                         *)
TakeChar(lines, c) ==
  IF c = "nl" THEN Append(lines, << >>) ELSE [lines EXCEPT ![Len(lines)] = Append(@, c)]
RawLines(text) ==
  LET at[i \in 0 .. Len(text)] == IF i = 0 THEN << << >> >> ELSE TakeChar(at[i - 1], text[i])
  IN  at[Len(text)]

Continues(buf) == buf # << >> /\ Last(buf) = "bs"
Joined(buf, part) == IF buf = << >> THEN part ELSE buf \o <<"sp">> \o part

\* Faulty variant: the buffer is not cleared when its line is done.
TakeLineKept(s, part) ==
  LET buf == Joined(s.buf, part)
  IN  IF buf = << >> THEN s
      ELSE IF Continues(buf) THEN [s EXCEPT !.buf = Strip(Front(buf))]
      ELSE [lines |-> Append(s.lines, buf), buf |-> buf]

(* _logical_lines: a line that ends in a backslash goes on in the next.    *)
TakeLine(s, part) ==
  LET buf == Joined(s.buf, part)
  IN  IF buf = << >> THEN s
      ELSE IF Continues(buf) THEN [s EXCEPT !.buf = Strip(Front(buf))]
      ELSE [lines |-> Append(s.lines, buf), buf |-> << >>]

LogicalLines(text) ==
  LET raws == RawLines(text)
      at[i \in 0 .. Len(raws)] == IF i = 0 THEN [lines |-> << >>, buf |-> << >>]
                                  ELSE TakeLine(at[i - 1], Strip(raws[i]))
      end == at[Len(raws)]
  IN  IF end.buf = << >> THEN end.lines ELSE Append(end.lines, end.buf)

(* _join_flag_lines: a line of flags belongs to the command before it.     *)
JoinLine(joined, line) ==
  IF Head(line) = "dash" /\ joined # << >>
  THEN [joined EXCEPT ![Len(joined)] = @ \o <<"sp">> \o line]
  ELSE Append(joined, line)
JoinedLines(lines) ==
  LET at[i \in 0 .. Len(lines)] == IF i = 0 THEN << >> ELSE JoinLine(at[i - 1], lines[i])
  IN  at[Len(lines)]

-----------------------------------------------------------------------------
(* _split_outside_quotes, one character further.  `next` says what becomes *)
(* of the following character: it is read, kept unread, or dropped.        *)
Keep(s, c, quote, next) ==
  [parts |-> s.parts, buf |-> Append(s.buf, c), quote |-> quote, next |-> next]
Cut(s, next) ==
  [parts |-> Append(s.parts, s.buf), buf |-> << >>, quote |-> s.quote, next |-> next]

Step(text, pipe, compound, s, i) ==
  LET c == text[i]
      more == i < Len(text)
  IN  IF s.next = "drop" THEN [s EXCEPT !.next = "read"]
      ELSE IF s.next = "keep" \/ (s.quote = "sq" /\ c # "sq") THEN Keep(s, c, s.quote, "read")
      ELSE IF s.quote = c THEN Keep(s, c, "none", "read")
      ELSE IF c = "bs" /\ more THEN Keep(s, c, s.quote, "keep")
      ELSE IF s.quote = "dq" THEN Keep(s, c, s.quote, "read")
      ELSE IF c \in {"sq", "dq"} THEN Keep(s, c, c, "read")
      ELSE IF compound /\ c = "bar" /\ more /\ text[i + 1] = "bar" THEN Cut(s, "drop")
      ELSE IF (compound /\ c = "semi") \/ (pipe /\ c = "bar") THEN Cut(s, "read")
      ELSE Keep(s, c, s.quote, "read")

Reading(text, pipe, compound) ==
  LET at[i \in 0 .. Len(text)] ==
        IF i = 0 THEN [parts |-> << >>, buf |-> << >>, quote |-> "none", next |-> "read"]
        ELSE Step(text, pipe, compound, at[i - 1], i)
  IN  at

(* What is left of the parts: stripped, and no empty ones.                 *)
Solids(parts) ==
  FlattenSeq([i \in 1 .. Len(parts) |->
                IF Strip(parts[i]) = << >> THEN << >> ELSE <<Strip(parts[i])>>])

\* Faulty variant: what comes after the last operator is lost.
SplitLost(text, pipe, compound) == Solids(Reading(text, pipe, compound)[Len(text)].parts)

Split(text, pipe, compound) ==
  LET end == Reading(text, pipe, compound)[Len(text)]
  IN  Solids(Append(end.parts, end.buf))

(* The quotation that is open at the end of the text.                      *)
OpenQuote(text) == Reading(text, TRUE, TRUE)[Len(text)].quote

Compounds(line) == Split(line, FALSE, TRUE)
Pipes(compound) == Split(compound, TRUE, FALSE)

(* The pieces of one line, and of a command, as is_allowed_research_bash   *)
(* and explore_script_in_command go through them.                          *)
PiecesOf(line) == FlattenSeq([i \in 1 .. Len(Compounds(line)) |-> Pipes(Compounds(line)[i])])
Lines(text) == JoinedLines(LogicalLines(text))
Pieces(text) == FlattenSeq([i \in 1 .. Len(Lines(text)) |-> PiecesOf(Lines(text)[i])])

-----------------------------------------------------------------------------
\* Faulty variant: an escaped quote opens a quotation.
LookEscapes(text, s, i) ==
  LET c == text[i]
  IN  IF s.single THEN [s EXCEPT !.single = c # "sq"]
      ELSE IF c = "sq" THEN [s EXCEPT !.single = TRUE]
      ELSE IF c = "dq" THEN [s EXCEPT !.double = ~ @]
      ELSE IF c = "redir" /\ s.double THEN s
      ELSE [s EXCEPT !.live = @ \cup {c}]

(* _command_substitution_reason and _redirection_reason: the characters    *)
(* that are live.  A redirection is literal between any quotes, a          *)
(* substitution between single ones only.  Unlike the splitter they take   *)
(* an apostrophe between double quotes for the start of a quotation.       *)
Look(text, s, i) ==
  LET c == text[i]
  IN  IF s.skip THEN [s EXCEPT !.skip = FALSE]
      ELSE IF s.single THEN [s EXCEPT !.single = c # "sq"]
      ELSE IF c = "bs" /\ i < Len(text) THEN [s EXCEPT !.skip = TRUE]
      ELSE IF c = "sq" THEN [s EXCEPT !.single = TRUE]
      ELSE IF c = "dq" THEN [s EXCEPT !.double = ~ @]
      ELSE IF c = "redir" /\ s.double THEN s
      ELSE [s EXCEPT !.live = @ \cup {c}]

Scan(text) ==
  LET at[i \in 0 .. Len(text)] ==
        IF i = 0 THEN [single |-> FALSE, double |-> FALSE, skip |-> FALSE, live |-> {}]
        ELSE Look(text, at[i - 1], i)
  IN  at[Len(text)]

Live(text) == Scan(text).live \cap {"sub", "redir"}

-----------------------------------------------------------------------------
(* Cutting a line at ; && and || and then each compound at | finds the     *)
(* pieces that one pass for all of them finds.                             *)
PassesAgree ==
  \A i \in DOMAIN Lines(command) : PiecesOf(Lines(command)[i]) = Split(Lines(command)[i], TRUE, TRUE)

(* A line is searched whole for substitutions and each piece for           *)
(* redirections, by scanners that read quotes for themselves: what is live *)
(* in a line is live in one of its pieces, and the other way round, where  *)
(* no apostrophe stands between double quotes.                             *)
Apostrophe(text) == \E i \in DOMAIN text : text[i] = "sq" /\ OpenQuote(SubSeq(text, 1, i - 1)) = "dq"
LiveInPieces ==
  \A i \in DOMAIN Lines(command) :
    LET line == Lines(command)[i]
    IN  ~Apostrophe(line) => Live(line) = UNION {Live(PiecesOf(line)[k]) : k \in DOMAIN PiecesOf(line)}

(* A newline outside quotes ends a command as a semicolon does, unless a   *)
(* backslash comes before it or a line of flags after it.                  *)
Semicolons == [i \in DOMAIN command |-> IF command[i] = "nl" THEN "semi" ELSE command[i]]
NewlineEndsCommand ==
  (\A i \in DOMAIN command :
     command[i] = "nl" =>
       /\ OpenQuote(SubSeq(command, 1, i - 1)) = "none"
       /\ ~Continues(Strip(SubSeq(command, 1, i - 1)))
       /\ ~ \E j \in i + 1 .. Len(command) :
              command[j] = "dash" /\ \A k \in i + 1 .. j - 1 : command[k] \in {"sp", "nl"})
  => Pieces(command) = Pieces(Semicolons)

(* The passes agree on where a command begins and ends.                    *)
CommandsCut == PassesAgree /\ LiveInPieces /\ NewlineEndsCommand
=============================================================================
