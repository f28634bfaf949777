--------------------------- MODULE StreamContract ---------------------------
(***************************************************************************)
(* What internal/usageparse promises of a stream parser, whatever the      *)
(* provider: the interface StreamParser and its comments (usageparse.go).  *)
(*                                                                         *)
(* The proxy feeds chunks and asks in between whether the response has     *)
(* reached a terminal event; at the end it asks for the result, and for    *)
(* what was seen if there is none.                                         *)
(***************************************************************************)
CONSTANT Fact    \* what a parser can learn of a response

VARIABLES
  seen,          \* the facts a partial result holds
  terminated,    \* Terminated()
  outcome        \* of Result(): "none" before it is called, "ok" or "error"

contractVars == <<seen, terminated, outcome>>

ContractInit ==
  /\ seen = {}
  /\ terminated = FALSE
  /\ outcome = "none"

(* Feeding may teach the parser something and may show it the terminal     *)
(* event.  It takes back neither.                                          *)
Learn ==
  /\ outcome = "none"
  /\ seen' \in SUBSET Fact
  /\ seen \subseteq seen'
  /\ terminated' \in {terminated, TRUE}
  /\ UNCHANGED outcome

(* Result() "errors only when the stream ended before any terminal event". *)
Conclude ==
  /\ outcome = "none"
  /\ outcome' = IF terminated THEN "ok" ELSE "error"
  /\ UNCHANGED <<seen, terminated>>

ContractNext == Learn \/ Conclude

ContractSpec == ContractInit /\ [][ContractNext]_contractVars
============================================================================
