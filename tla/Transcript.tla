----------------------------- MODULE Transcript -----------------------------
(***************************************************************************)
(* The host's transcript, appended to while hooks read it, and what two    *)
(* readers make of it (gate/transcript_tail.py): the text a judge is shown *)
(* and the fingerprint of the prompt the session is working on, which the  *)
(* breaker takes for the task's lineage.                                   *)
(*                                                                         *)
(* A line is a prompt, an assistant's reply, an edit or a tool's result.   *)
(* Rendered, it has Whole characters.  An edit or a result older than the  *)
(* last `recent` lines is compacted to Short ones.  The last line may be   *)
(* half written, and is then rendered as it stands: one character.  A      *)
(* character is named by its line, the line's form and its place.          *)
(***************************************************************************)
EXTENDS Retention, Sequences, SequencesExt

CONSTANTS
  Prompts,   \* texts of prompts
  Whole, Short,
  Recents,   \* values of UNIFABLE_JUDGE_TOOL_OUTPUT_KEEP_RECENT; 0 is off
  Wrappers,  \* lengths of what a caller puts around the text
  MaxLines   \* bound: lines of the transcript

(* Lengths are numbers of characters.                                      *)
ASSUME TranscriptConstants == Whole \in Nat /\ Short \in Nat /\ Wrappers \subseteq Nat

VARIABLES
  lines,   \* the transcript
  half,    \* is its last line half written?
  recent,  \* the setting, fixed for a session
  shown    \* the last judge call: where its window began, its text, whether
           \* it met a half-written line, the length of its message

transcriptVars == <<lines, half, recent, shown>>

Kinds == Prompts \cup {"reply", "edit", "result"}

TranscriptInit ==
  /\ lines = << >> /\ half = FALSE
  /\ recent \in Recents
  /\ shown = [start |-> 0, text |-> << >>, half |-> FALSE, size |-> 0]

-----------------------------------------------------------------------------
(* Rendering. *)

(* _apply_record_compression.                                              *)
Compacted(i) ==
  /\ recent > 0
  /\ i <= Len(lines) - recent
  /\ lines[i] \in {"edit", "result"}

TextOf(i, form, n) == [k \in 1 .. n |-> <<i, form, k>>]

(* _render_stripped_record: a line that is no JSON is shown raw.           *)
Rendered(i) ==
  IF half /\ i = Len(lines) THEN TextOf(i, "raw", 1)
  ELSE IF Compacted(i) THEN TextOf(i, "compact", Short)
  ELSE TextOf(i, "whole", Whole)

(* stripped_transcript.                                                    *)
Stripped == FlattenSeq([i \in 1 .. Len(lines) |-> Rendered(i)])

(* retention_window.                                                       *)
Retained(text) == SubSeq(text, StickyStart(Len(text)) + 1, Len(text))

-----------------------------------------------------------------------------
(* The prompt. *)

\* Faulty variant: any record of the user's role is taken for a prompt, and
\* a tool's result has that role.
IsPromptByRole(i) == lines[i] \in Prompts \cup {"result"}

(* _is_human_user_turn, on a line that can be parsed.                      *)
IsPrompt(i) == lines[i] \in Prompts

(* latest_user_prompt_fingerprint: "" when there is none.                  *)
Fingerprint ==
  LET found == {i \in 1 .. Len(lines) : ~(half /\ i = Len(lines)) /\ IsPrompt(i)}
  IN  IF found = {} THEN "" ELSE lines[CHOOSE i \in found : \A j \in found : j <= i]

-----------------------------------------------------------------------------
(* The host writes a line, in one write or in two. *)
Writes(kind) ==
  /\ ~half /\ Len(lines) < MaxLines
  /\ lines' = Append(lines, kind)
  /\ half' \in BOOLEAN
  /\ UNCHANGED <<recent, shown>>

Completes ==
  /\ half /\ half' = FALSE
  /\ UNCHANGED <<lines, recent, shown>>

(* A judge call: stripped_transcript_retained, then the message.           *)
Shows(prefix, suffix) ==
  LET text == Stripped
  IN  /\ shown' = [start |-> StickyStart(Len(text)), text |-> Retained(text), half |-> half,
                   size |-> Fitted(prefix, Len(Retained(text)), suffix)]
      /\ UNCHANGED <<lines, half, recent>>

TranscriptNext ==
  \/ \E kind \in Kinds : Writes(kind)
  \/ Completes
  \/ \E prefix, suffix \in Wrappers : Shows(prefix, suffix)

TranscriptSpec == TranscriptInit /\ [][TranscriptNext]_transcriptVars

-----------------------------------------------------------------------------
(* The window and the message stay within their limits, and a window that  *)
(* dropped something kept more than the budget less one chunk.             *)
WindowBounded ==
  /\ Len(shown.text) <= Budget
  /\ shown.start > 0 => Len(shown.text) > Budget - Chunk \/ (Chunk = 0 /\ Len(shown.text) = Budget)
  /\ shown.size <= MaxSize

SamePrefix ==
  shown'.start = shown.start /\ ~shown.half => IsPrefix(shown.text, shown'.text)

(* With compaction off what was shown stays in place, and the window moves *)
(* only forward, and by no less than a chunk.                              *)
PrefixKept ==
  recent = 0 /\ ~shown.half =>
    /\ SamePrefix
    /\ shown'.start = shown.start \/ shown'.start >= shown.start + Chunk

(* The lineage of a task changes when a prompt has been written, whole,    *)
(* and by nothing else: not by a tool's result, which has the user's role, *)
(* nor by a line the host is still writing.                                *)
LineageFollowsPrompts ==
  Fingerprint' # Fingerprint => ~half' /\ lines'[Len(lines')] \in Prompts

(* A transcript that grows while it is read gives each reader a window     *)
(* within its bounds that later ones extend, and one task at a time.       *)
ReadsSteady == [][PrefixKept /\ LineageFollowsPrompts /\ WindowBounded']_transcriptVars
=============================================================================
