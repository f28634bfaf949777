------------------------------ MODULE Streams ------------------------------
(***************************************************************************)
(* A streamed response on its way through the splitter into the parser of  *)
(* its provider: sse.Parser, with the handler of anthropic.StreamParser or *)
(* of openai.StreamParser (usage.go of each), behind the registry of the   *)
(* proxy.                                                                  *)
(*                                                                         *)
(* An exchange is a body that the provider could have sent whole, and the  *)
(* frames in which it streams it.  The upstream or the client may break    *)
(* off after any chunk.                                                    *)
(***************************************************************************)
EXTENDS Sse, SequencesExt

CONSTANT Exchanges    \* records [provider, body, frames, events, complete]

VARIABLES
  exchange,
  parser,     \* the provider's StreamParser, its splitter apart
  outcome     \* of Result(): "none" before it is called

streamVars == <<sseVars, exchange, parser, outcome>>

A == INSTANCE Anthropic
O == INSTANCE OpenAI

----------------------------------------------------------------------------
(* The registry of parsers.                                                *)
NewStreamParser(provider) ==
  IF provider = "anthropic" THEN A!Start ELSE O!Start

Handle(provider, p, event) ==
  IF provider = "anthropic" THEN A!Handle(p, event) ELSE O!Handle(p, event)

ExtractCompleted(provider, body) ==
  IF provider = "anthropic" THEN A!Completed(body) ELSE O!Completed(body)

(* The text of event e is cut in two by the end of a line.  A comment has  *)
(* no event.                                                               *)
Text(e) == <<e, 1>>
MoreText(e) == <<e, 2>>
Comment == <<0, 1>>

(* parseFrame: the event of a frame; none for a comment, and one that is   *)
(* not JSON if the frame is not as it was sent.                            *)
Parse(x, frame) ==
  LET lines == SelectSeq(frame, LAMBDA t : t \notin {LF, CR, Comment})
      whole == {e \in DOMAIN x.events : lines = <<Text(e), MoreText(e)>>}
  IN IF lines = << >> THEN << >>
     ELSE IF whole = {} THEN <<[type |-> "malformed", depth |-> 0]>>
     ELSE <<x.events[CHOOSE e \in whole : TRUE]>>

(* How a frame may end, and whether f ends so.                             *)
BlankLines == {<<LF, LF>>, <<CR, LF, CR, LF>>}

EndsFrame(f) == \E d \in BlankLines :
  Len(d) <= Len(f) /\ SubSeq(f, Len(f) - Len(d) + 1, Len(f)) = d

Tells(provider, body, event) ==
  IF provider = "anthropic" THEN A!Tells(body, event) ELSE O!Tells(body, event)

WellNamed(provider, body) ==
  IF provider = "anthropic" THEN A!WellNamed(body) ELSE O!WellNamed(body)

(* OpenAI's final event carries the response again.                        *)
CarriesResponse(provider, event) ==
  /\ provider # "anthropic"
  /\ event.type \in {"response.completed", "response.failed", "response.incomplete"}
  /\ event.carries = "response"

(* What the frames of an exchange parse to, each without the blank line    *)
(* that ends it; comments and what is not JSON left out.                   *)
Content(f) == SubSeq(f, 1, Len(f) - (IF f[Len(f) - 1] = LF THEN 2 ELSE 4))

Parsed(x) == [i \in DOMAIN x.frames |-> Parse(x, Content(x.frames[i]))]

Proper(x) ==
  {i \in DOMAIN x.frames : Parsed(x)[i] # << >> /\ Parsed(x)[i][1].type # "malformed"}

(* They are the events in which the provider streams the body, its usage   *)
(* included if it is reported.                                             *)
Told(x, events) ==
  A!Selected(Parsed(x), Proper(x)) = [e \in DOMAIN events |-> <<events[e]>>]

StreamsBody(x) ==
  IF x.provider = "anthropic"
  THEN /\ A!WellFormed(x.body)
       /\ \E whole \in BOOLEAN : Told(x, A!Events(x.body, whole))
       /\ x.plain => \A i \in DOMAIN x.body.content :
                       A!IsWeb(x.body.content[i]) => x.body.content[i].name # ""
  ELSE /\ O!WellFormed(x.body)
       /\ \E whole \in BOOLEAN, depth \in 0..O!MaxNestDepth :
            /\ Told(x, O!Events(x.body, whole, depth))
            /\ x.reported /\ x.body.chat # << >> => whole /\ x.body.usage # O!NoUsage

(* Every exchange is streamed as one of the responses, in frames that end  *)
(* where they first can, of events that speak of its body; nothing follows *)
(* the event that carries the response.  A complete one streams its body.  *)
ASSUME StreamsAssumption ==
  \A x \in Exchanges :
    /\ x.frames \in Seq(Seq(Token))
    /\ \A i \in DOMAIN x.frames : \A n \in 0..Len(x.frames[i]) :
         EndsFrame(SubSeq(x.frames[i], 1, n)) <=> n = Len(x.frames[i])
    /\ FlattenSeq(x.frames) \in Wires
    /\ WellNamed(x.provider, x.body)
    /\ \A e \in DOMAIN x.events : Tells(x.provider, x.body, x.events[e])
    /\ \A i \in DOMAIN x.frames : \A n \in 0..Len(x.frames[i]) :
         \A e \in DOMAIN x.events :
           /\ Parse(x, SubSeq(x.frames[i], 1, n)) = <<x.events[e]>>
           /\ CarriesResponse(x.provider, x.events[e])
           => i = Len(x.frames)
    /\ x.complete \in BOOLEAN
    /\ x.complete => StreamsBody(x)

----------------------------------------------------------------------------
StreamsInit ==
  /\ exchange \in Exchanges
  /\ wire = FlattenSeq(exchange.frames)
  /\ SseStart
  /\ parser = NewStreamParser(exchange.provider)
  /\ outcome = "none"

(* Feed: an error of the splitter is noted.                                *)
Receive(n) ==
  /\ outcome = "none"
  /\ Feed(n)
  /\ parser' = [parser EXCEPT !.malformed = @ \/ latched']
  /\ UNCHANGED <<exchange, outcome>>

(* A complete frame goes to handleEvent, an empty one nowhere.             *)
HandleFrame ==
  /\ Frame
  /\ LET event == Parse(exchange, frames'[Len(frames')])
     IN parser' = IF event = << >> THEN parser
                  ELSE Handle(exchange.provider, parser, event[1])
  /\ UNCHANGED <<exchange, outcome>>

(* Result, once the response has ended or has been broken off.             *)
End ==
  /\ outcome = "none"
  /\ Idle
  /\ outcome' = CASE parser.terminal  -> "ok"
                  [] ~ parser.terminal /\ FinalizeFails -> "partial frame"
                  [] ~ parser.terminal /\ ~ FinalizeFails /\ parser.malformed -> "malformed"
                  [] OTHER -> "no terminal event"
  /\ UNCHANGED <<sseVars, exchange, parser>>

StreamsNext == (\E n \in 1..MaxChunk : Receive(n)) \/ HandleFrame \/ End

StreamsSpec == StreamsInit /\ [][StreamsNext]_streamVars

----------------------------------------------------------------------------
(* The frames of the exchange that are complete in its first n tokens, as  *)
(* they were sent.                                                         *)
Arrived(n) ==
  LET counts == {k \in 0..Len(exchange.frames) :
                   Len(FlattenSeq(SubSeq(exchange.frames, 1, k))) <= n}
  IN SubSeq(exchange.frames, 1, CHOOSE k \in counts : \A j \in counts : j <= k)

(* Wherever the chunks fall, in the middle of a line or of a delimiter,    *)
(* the handler has been given the frames that arrived, whole and in order, *)
(* each without the blank line that ends it.                               *)
FramesAsSent ==
  Idle /\ ~ latched =>
    LET sent == Arrived(fed)
    IN /\ Len(frames) = Len(sent)
       /\ \A i \in DOMAIN sent : \E d \in BlankLines : sent[i] = frames[i] \o d

(* Both results list the same calls; an input that the body does not have  *)
(* is not compared.                                                        *)
SameCalls(calls, reference) ==
  /\ Len(calls) = Len(reference)
  /\ \A i \in DOMAIN calls :
       /\ calls[i].id = reference[i].id
       /\ calls[i].name = reference[i].name
       /\ reference[i].input # << >> => calls[i].input = reference[i].input

NotWeb(calls, web) ==
  A!Selected(calls, {i \in DOMAIN calls : calls[i].id \notin A!Ids(web)})

(* A response that was streamed to its end is accounted for like the same  *)
(* response in one body (ExtractCompleted): the same usage, tool calls,    *)
(* web requests and error.  Left out are the web calls that the Anthropic  *)
(* parser may list among the tool calls (WebIsNotTool), the web requests   *)
(* of an Anthropic body with result blocks, each of which the body's       *)
(* parser counts as a request without a name, and a usage that the client  *)
(* did not ask for.                                                        *)
AgreesWithBody ==
  LET whole  == ExtractCompleted(exchange.provider, exchange.body)
      result == parser.result
  IN exchange.complete /\ ~ latched /\ outcome # "none" /\ fed = Len(wire) =>
       /\ outcome = "ok"
       /\ result.id = whole.id
       /\ result.error = exchange.body.error
       /\ exchange.reported => result.usage = whole.usage
       /\ SameCalls(NotWeb(result.tools, whole.web), whole.tools)
       /\ exchange.plain => SameCalls(result.web, whole.web)

(* A web call is recorded as a web request and not as a tool call as well: *)
(* "WebSearch must not be double-counted" (anthropic/usage_test.go:267).   *)
WebIsNotTool ==
  (A!Ids(parser.result.tools) \cap A!Ids(parser.result.web)) \ {""} = {}

----------------------------------------------------------------------------
(* What a partial result holds.                                            *)
Facts(result) ==
  {<<"tool", id>> : id \in A!Ids(result.tools)}
  \cup {<<"web", id>> : id \in A!Ids(result.web)}
  \cup {<<"error", result.error>>}
  \cup {<<"response", result.id>>}

Known(result) == {f \in Facts(result) : f[2] # ""}

Contract == INSTANCE StreamContract WITH
  Fact       <- {"tool", "web", "error", "response"} \X STRING,
  seen       <- Known(parser.result),
  terminated <- parser.terminal,
  outcome    <- IF outcome \in {"none", "ok"} THEN outcome ELSE "error"

(* Both parsers keep the contract of usageparse: what they have seen of a  *)
(* response is not lost by what follows, a terminal event is not           *)
(* forgotten, and the result is an error only without one, be it that the  *)
(* limit was hit or that frames were malformed.                            *)
ImplementsContract == Contract!ContractSpec
============================================================================
