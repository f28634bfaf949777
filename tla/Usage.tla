------------------------------- MODULE Usage -------------------------------
(***************************************************************************)
(* The shapes of internal/queue (queue.go) and internal/pick that both     *)
(* provider parsers fill: token counts that may be absent, tool calls and  *)
(* web requests.                                                           *)
(*                                                                         *)
(* The zero value of a string is "", the nil pointer to a count is Absent. *)
(* The input of a call is the sequence of its fragments, in order.         *)
(***************************************************************************)
EXTENDS Integers, Sequences, SequencesExt

Absent == -1

(* SumTokens: nil counts as zero, but a sum of nothing is nil.             *)
SumTokens(counts) ==
  LET present == SelectSeq(counts, LAMBDA c : c # Absent)
  IN IF present = << >> THEN Absent ELSE FoldLeft(+, 0, present)

(* pick.First.                                                             *)
First(a, b, zero) == IF a # zero THEN a ELSE b

(* NewToolCall and NewWebRequest, without the columns that they project    *)
(* from the input for display.                                             *)
Call(id, name, input) == [id |-> id, name |-> name, input |-> input]

(* What a call of a stream holds: the pieces received, or else the input   *)
(* that came whole.                                                        *)
Input(call) == IF call.partial # << >> THEN call.partial ELSE call.input

(* IsWebToolBlock: the marker may be in the type or in the name.           *)
WebMarked == {"web_search", "WebSearch", "web_search_tool_result"}

IsWebToolBlock(type, name) == {type, name} \cap WebMarked # {}

(* The elements of s at the indices I, in order.                           *)
Selected(s, I) ==
  LET taken[n \in 0..Len(s)] ==
        IF n = 0 THEN << >>
        ELSE IF n \in I THEN Append(taken[n - 1], s[n]) ELSE taken[n - 1]
  IN taken[Len(s)]

Ids(calls) == {calls[i].id : i \in DOMAIN calls}
============================================================================
