-------------------------------- MODULE Sse --------------------------------
(***************************************************************************)
(* The frame splitter of internal/sse (parser.go).  The bytes of a         *)
(* response reach it in chunks that fall anywhere; it keeps the frame that *)
(* is not complete yet and hands every complete one to its handler.        *)
(*                                                                         *)
(* A token stands for a run of bytes that no chunk boundary divides: the   *)
(* two characters that delimit frames are tokens of their own, the text of *)
(* a line is cut into as many tokens as an instance likes.                 *)
(*                                                                         *)
(* Feed is a loop around its handler.  Here its beginning, up to the loop, *)
(* is the action Feed and a turn of the loop the action Frame; no other    *)
(* action is enabled until the loop has run out of complete frames.        *)
(*                                                                         *)
(* An error of the handler would be latched like the limit's.  Both        *)
(* handlers of the program return nil always, so there is no such error    *)
(* here.                                                                   *)
(***************************************************************************)
EXTENDS Integers, Sequences

CONSTANTS
  Token,      \* what a chunk is made of
  LF, CR,     \* the tokens for line feed and carriage return
  Wires,      \* the responses, as sequences of tokens
  Limit,      \* Parser.limit, in tokens
  MaxChunk    \* the copy buffer, in tokens: no chunk is longer

ASSUME SseAssumption ==
  /\ LF \in Token
  /\ CR \in Token
  /\ LF # CR
  /\ Wires \subseteq Seq(Token)
  /\ Limit \in Nat
  /\ MaxChunk \in Nat \ {0}

VARIABLES
  wire,       \* the response
  fed,        \* how many of its tokens have been fed
  buf,        \* Parser.buf: the partial frame
  latched,    \* Parser.err # nil
  cut,        \* history: how many tokens have left buf at its front
  frames      \* history: the frames that were cut off, in order

sseVars == <<wire, fed, buf, latched, cut, frames>>

----------------------------------------------------------------------------
(* Mutant: frames end with two line feeds only.                            *)
DelimitersOfLF(b) ==
  {i \in 1..Len(b) : i + 1 <= Len(b) /\ b[i] = LF /\ b[i + 1] = LF}

(* The positions at which a delimiter starts: "\n\n" or "\r\n\r\n".  No    *)
(* position has both.                                                      *)
Delimiters(b) ==
  {i \in 1..Len(b) :
     \/ i + 1 <= Len(b) /\ b[i] = LF /\ b[i + 1] = LF
     \/ i + 3 <= Len(b) /\ b[i] = CR /\ b[i + 1] = LF
                        /\ b[i + 2] = CR /\ b[i + 3] = LF}

(* frameEnd: the first of them, and its length.                            *)
FrameEnd(b) == CHOOSE i \in Delimiters(b) : \A j \in Delimiters(b) : i <= j

DelimiterLength(b, i) == IF b[i] = LF THEN 2 ELSE 4

(* The loop of Feed has cut off every complete frame.                      *)
Idle == Delimiters(buf) = {}

----------------------------------------------------------------------------
SseStart ==
  /\ fed = 0
  /\ buf = << >>
  /\ latched = FALSE
  /\ cut = 0
  /\ frames = << >>

SseInit == wire \in Wires /\ SseStart

(* Mutant: only the partial frame is held against the limit.               *)
FeedUnbounded(n) ==
  /\ Idle
  /\ fed + n <= Len(wire)
  /\ fed' = fed + n
  /\ latched' = (latched \/ Len(buf) > Limit)
  /\ buf' = IF latched' THEN buf ELSE buf \o SubSeq(wire, fed + 1, fed + n)
  /\ UNCHANGED <<wire, cut, frames>>

(* Feed with the next n tokens, up to its loop.  The limit is compared     *)
(* with the partial frame and the whole chunk, before any frame of it is   *)
(* cut off; once exceeded, every later chunk is dropped.                   *)
Feed(n) ==
  /\ Idle
  /\ fed + n <= Len(wire)
  /\ fed' = fed + n
  /\ latched' = (latched \/ Len(buf) + n > Limit)
  /\ buf' = IF latched' THEN buf ELSE buf \o SubSeq(wire, fed + 1, fed + n)
  /\ UNCHANGED <<wire, cut, frames>>

(* A turn of the loop of Feed.                                             *)
Frame ==
  /\ ~ Idle
  /\ LET end == FrameEnd(buf)
         next == end + DelimiterLength(buf, end)
     IN /\ frames' = Append(frames, SubSeq(buf, 1, end - 1))
        /\ buf' = SubSeq(buf, next, Len(buf))
        /\ cut' = cut + next - 1
  /\ UNCHANGED <<wire, fed, latched>>

SseNext == (\E n \in 1..MaxChunk : Feed(n)) \/ Frame

SseSpec == SseInit /\ [][SseNext]_sseVars

(* Finalize: it is an error to end inside a frame, or after a latched one. *)
Blank(b) == \A i \in 1..Len(b) : b[i] \in {LF, CR}

FinalizeFails == latched \/ ~ Blank(buf)

----------------------------------------------------------------------------
(* The values of the variables.                                            *)
SseTypeOK ==
  /\ wire \in Seq(Token)
  /\ fed \in 0..Len(wire)
  /\ buf \in Seq(Token)
  /\ latched \in BOOLEAN
  /\ cut \in Nat
  /\ frames \in Seq(Seq(Token))

(* Parser "keeps only the current partial frame in memory, bounded by      *)
(* limit" (parser.go:17): whatever arrives, and in whatever chunks, the    *)
(* buffer stays within the limit.                                          *)
BufferBounded == Len(buf) <= Limit

(* No token is lost, kept twice or moved while chunks are appended and     *)
(* frames cut off: the buffer is the part of the response after the last   *)
(* frame, up to all that was fed unless the limit was hit.                 *)
BufferIsTheRest ==
  /\ cut + Len(buf) <= fed
  /\ buf = SubSeq(wire, cut + 1, cut + Len(buf))
  /\ ~ latched => cut + Len(buf) = fed
============================================================================
