------------------------------- MODULE OpenAI -------------------------------
(***************************************************************************)
(* The parsers of internal/openai (usage.go) for the Responses API and for *)
(* Chat Completions: of a whole body, and of a stream of events.  Models   *)
(* and statuses are left out.                                              *)
(*                                                                         *)
(* The input of an item is a sequence of fragments.  given says whether    *)
(* the item has any field that responseOutputInput reads; if so it may     *)
(* still be empty (`arguments` of "" or {}).                               *)
(***************************************************************************)
EXTENDS Usage

UsageFields == {"input", "cached", "output", "total"}

NoUsage == [f \in UsageFields |-> Absent]

(* toUsage: the total is derived if a body omits it.                       *)
ToUsage(u) ==
  [u EXCEPT !.total = First(@, SumTokens(<<u.input, u.output>>), Absent)]

(* isToolOutputType, isCodexWebSearchCall.                                 *)
ToolTypes == {"function_call", "local_shell_call", "web_search_call", "image_generation_call"}

IsWeb(item) == item.type = "web_search_call"

(* A tool whose item has no name goes by its type.                         *)
NameOf(item) ==
  IF item.name = "" /\ item.type \in ToolTypes THEN item.type ELSE item.name

(* The JSON of the item itself, in place of an input.                      *)
Raw == <<"item">>

----------------------------------------------------------------------------
(* ExtractCompleted of a body [id, usage, output, chat, error]; an item of *)
(* the output is [type, id, callId, name, given, input], and chat are the  *)
(* tool calls of the choices.                                              *)
Key(item) == First(item.callId, item.id, "")

OutputCalls(items) ==
  LET tools == Selected(items, {i \in DOMAIN items : ~ IsWeb(items[i]) /\ NameOf(items[i]) # ""})
  IN [i \in DOMAIN tools |-> Call(Key(tools[i]), NameOf(tools[i]), tools[i].input)]

OutputWebRequests(items) ==
  LET web == Selected(items, {i \in DOMAIN items : IsWeb(items[i])})
  IN [i \in DOMAIN web |->
        Call(Key(web[i]), "web_search_call",
             IF web[i].given THEN web[i].input ELSE Raw)]

Named(calls) == {i \in DOMAIN calls : calls[i].name # ""}

ChatCalls(calls) ==
  LET named == Selected(calls, Named(calls))
  IN [i \in DOMAIN named |-> Call(named[i].id, named[i].name, named[i].input)]

Completed(body) ==
  [id    |-> body.id,
   usage |-> ToUsage(body.usage),
   tools |-> OutputCalls(body.output) \o ChatCalls(body.chat),
   web   |-> OutputWebRequests(body.output),
   error |-> ""]

----------------------------------------------------------------------------
(* The state of a StreamParser.                                            *)
Start ==
  [result    |-> [id |-> "", usage |-> NoUsage, tools |-> << >>, web |-> << >>, error |-> ""],
   calls     |-> << >>,      \* responseTools
   chat      |-> << >>,      \* chatToolCalls
   terminal  |-> FALSE,
   malformed |-> FALSE]

(* syncToolCalls, syncWebRequests.                                         *)
KeyedCalls(calls, I) ==
  LET listed == Selected(calls, I)
  IN [i \in DOMAIN listed |-> Call(Key(listed[i]), listed[i].name, Input(listed[i]))]

SyncToolCalls(p) ==
  [p EXCEPT !.result.tools =
     KeyedCalls(p.calls, {i \in Named(p.calls) : ~ p.calls[i].web})
     \o ChatCalls([i \in DOMAIN p.chat |->
          Call(p.chat[i].id, p.chat[i].name, p.chat[i].partial)])]

SyncWebRequests(p) ==
  [p EXCEPT !.result.web =
     KeyedCalls(p.calls, {i \in DOMAIN p.calls : p.calls[i].web /\ IsWeb(p.calls[i])})]

(* responseToolCall: the first call that has the item's id or the call id  *)
(* in either place, or its place in the output; a new one if none has.     *)
MatchesItem(call, id, callId, index) ==    \* mutant: the item's id only
  \/ id # ""         /\ id = call.id
  \/ index # Absent  /\ index = call.index

Matches(call, id, callId, index) ==
  \/ id # ""         /\ id \in {call.id, call.callId}
  \/ callId # ""     /\ callId \in {call.id, call.callId}
  \/ index # Absent  /\ index = call.index

Slot(calls, id, callId, index) ==
  IF \E i \in DOMAIN calls : Matches(calls[i], id, callId, index) THEN calls
  ELSE Append(calls, [index |-> index, id |-> id, callId |-> callId, type |-> "", name |-> "",
                      input |-> << >>, partial |-> << >>, web |-> FALSE])

At(calls, id, callId, index) ==
  SelectInSeq(calls, LAMBDA c : Matches(c, id, callId, index))

(* mergeResponseOutputItem.                                                *)
MergeItem(p, item, index) ==
  LET calls == Slot(p.calls, item.id, item.callId, index)
      i     == At(calls, item.id, item.callId, index)
      old   == calls[i]
      fresh == item.given /\ item.input # << >>
      bare  == ~ item.given /\ Input(old) = << >>
      new   == [old EXCEPT !.id      = First(item.id, @, ""),
                           !.callId  = First(item.callId, @, ""),
                           !.type    = First(item.type, @, ""),
                           !.name    = NameOf(item),
                           !.web     = IsWeb(item),
                           !.input   = IF fresh THEN item.input ELSE IF bare THEN Raw ELSE @,
                           !.partial = IF fresh THEN << >> ELSE @]
  IN IF NameOf(item) = "" THEN p
     ELSE SyncWebRequests(SyncToolCalls([p EXCEPT !.calls = [calls EXCEPT ![i] = new]]))

(* appendResponseToolInput, setResponseToolInput: the fragments are added  *)
(* one by one and replaced by the whole at the end.                        *)
ChangeInput(p, id, index, Change(_)) ==
  LET calls == Slot(p.calls, id, "", index)
      i     == At(calls, id, "", index)
      q     == [p EXCEPT !.calls = [calls EXCEPT ![i] = Change(@)]]
  IN IF calls[i].web THEN SyncWebRequests(q) ELSE SyncToolCalls(q)

AppendInput(p, event) ==
  ChangeInput(p, event.id, event.index,
              LAMBDA c : [c EXCEPT !.partial = Append(@, event.fragment)])

SetInput(p, event) ==
  ChangeInput(p, event.id, event.index,
              LAMBDA c : [c EXCEPT !.input = event.input, !.partial = << >>])

(* mergeWebSearchCallEvent: the lifecycle of a web search.                 *)
MergeWebEvent(p, event) ==
  LET calls == Slot(p.calls, event.id, "", event.index)
      i     == At(calls, event.id, "", event.index)
      new   == [calls[i] EXCEPT !.id = event.id, !.type = "web_search_call",
                                !.name = "web_search_call", !.web = TRUE,
                                !.input = First(event.action, First(@, Raw, << >>), << >>),
                                !.partial = << >>]
  IN IF event.id = "" THEN p
     ELSE SyncWebRequests([p EXCEPT !.calls = [calls EXCEPT ![i] = new]])

(* mergeCompletedToolCalls: the calls of the final response join those of  *)
(* the stream.                                                             *)
MergeCompletedCall(calls, call) ==
  LET all == Slot(calls, call.id, "", Absent)
      i   == At(all, call.id, "", Absent)
      new == [all[i] EXCEPT !.id      = First(call.id, @, ""),
                            !.name    = call.name,
                            !.input   = First(call.input, @, << >>),
                            !.partial = IF call.input = << >> THEN @ ELSE << >>]
  IN [all EXCEPT ![i] = new]

MergeCompletedCalls(p, tools) ==
  LET merged[n \in 0..Len(tools)] ==
        IF n = 0 THEN p.calls ELSE MergeCompletedCall(merged[n - 1], tools[n])
  IN SyncToolCalls([p EXCEPT !.calls = merged[Len(tools)]])

(* mergeWebRequests: those of the stream, then the others; if there are    *)
(* none of the stream, what comes as it is.                                *)
IncomingWebRequests(previous, incoming) == incoming    \* mutant: those of the stream lost

MergeWebRequest(merged, request) ==
  IF request.id # "" /\ request.id \in Ids(merged) THEN merged
  ELSE Append(merged, request)

MergeWebRequests(previous, incoming) ==
  LET merged[n \in 0..Len(incoming)] ==
        IF n = 0 THEN previous ELSE MergeWebRequest(merged[n - 1], incoming[n])
  IN IF previous = << >> THEN incoming ELSE merged[Len(incoming)]

(* The final event of a response.  It may come without the response, or    *)
(* with one that does not parse; it ends the stream all the same.          *)
TakeResponse(p, event) ==
  LET completed == Completed(event.response)
      replaced  == [p EXCEPT !.result = [completed EXCEPT !.error = p.result.error]]
      failed    == event.type = "response.failed" /\ event.response.error # ""
  IN [MergeCompletedCalls(replaced, completed.tools) EXCEPT
        !.result.web   = MergeWebRequests(p.result.web, completed.web),
        !.result.error = IF failed THEN event.response.error ELSE @]

Conclude(p, event) ==
  LET q == CASE event.carries = "response"  -> TakeResponse(p, event)
             [] event.carries = "malformed" -> [p EXCEPT !.malformed = TRUE]
             [] event.carries = "nothing"   -> p
  IN [q EXCEPT !.terminal = TRUE, !.result.error = First(@, event.error, "")]

(* mergeChatToolCalls, handleChatChunk.                                    *)
ChatSlot(chat, index) ==
  IF \E i \in DOMAIN chat : chat[i].index = index THEN chat
  ELSE Append(chat, [index |-> index, id |-> "", name |-> "", partial |-> << >>])

ChatAt(chat, index) == CHOOSE i \in DOMAIN chat : chat[i].index = index

MergeChatCall(chat, delta) ==
  LET all == ChatSlot(chat, delta.index)
      i   == ChatAt(all, delta.index)
      new == [all[i] EXCEPT !.id      = First(delta.id, @, ""),
                            !.name    = First(delta.name, @, ""),
                            !.partial = @ \o delta.input]
  IN [all EXCEPT ![i] = new]

MergeChatCalls(chat, deltas) ==
  LET merged[n \in 0..Len(deltas)] ==
        IF n = 0 THEN chat ELSE MergeChatCall(merged[n - 1], deltas[n])
  IN merged[Len(deltas)]

HandleChunk(p, event) ==
  LET q == SyncToolCalls([p EXCEPT !.result.id = First(event.id, @, ""),
                                   !.chat = MergeChatCalls(@, event.calls)])
  IN IF event.usage = NoUsage THEN q
     ELSE [q EXCEPT !.result.usage = ToUsage(event.usage), !.terminal = TRUE]

(* handleEventDepth.  A frame may hold another in its data, as Codex sends *)
(* them; below maxNestDepth it is taken for JSON, and is malformed.        *)
MaxNestDepth == 2

HandleInner(p, event) ==
  CASE event.type \in {"response.completed", "response.failed", "response.incomplete"} ->
         Conclude(p, event)
    [] event.type = "error" /\ event.error # "" ->
         [p EXCEPT !.terminal = TRUE, !.result.error = event.error]
    [] event.type \in {"response.output_item.added", "response.output_item.done"} ->
         MergeItem(p, event.item, event.index)
    [] event.type = "response.web_search_call" ->
         MergeWebEvent(p, event)
    [] event.type = "arguments.delta" ->
         AppendInput(p, event)
    [] event.type = "arguments.done" ->
         SetInput(p, event)
    [] event.type = "chat.completion.chunk" ->
         HandleChunk(p, event)
    [] event.type = "[DONE]" ->
         [p EXCEPT !.terminal = TRUE]
    [] event.type = "malformed" ->
         [p EXCEPT !.malformed = TRUE]
    [] OTHER -> p

Handle(p, event) ==
  IF event.depth > MaxNestDepth THEN [p EXCEPT !.malformed = TRUE]
  ELSE HandleInner(p, event)

----------------------------------------------------------------------------
(* The events of a response, as the providers send them.  An item is       *)
(* announced without its input, then comes its input in fragments or the   *)
(* lifecycle of a search, then the item as a whole.  The last event holds  *)
(* the response, listed with its output or, as some backends send it,      *)
(* without.                                                                *)
ItemEvents(item, index) ==
  LET added(i) == [type |-> "response.output_item.added", item |-> i, index |-> index]
      done     == [type |-> "response.output_item.done", item |-> item, index |-> index]
      search   == [type |-> "response.web_search_call", id |-> item.id, index |-> index,
                   action |-> << >>]
      delta(f) == [type |-> "arguments.delta", id |-> item.id, index |-> index, fragment |-> f]
      whole    == [type |-> "arguments.done", id |-> item.id, index |-> index,
                   input |-> item.input]
  IN CASE IsWeb(item) ->
            <<added([item EXCEPT !.input = << >>, !.given = FALSE]), search, search, done>>
       [] item.type = "function_call" ->
            <<added([item EXCEPT !.input = << >>])>>
            \o [i \in DOMAIN item.input |-> delta(item.input[i])] \o <<whole, done>>
       [] OTHER ->
            <<added([item EXCEPT !.input = << >>, !.given = FALSE]), done>>

ResponseEvents(body, listed) ==
  FlattenSeq([i \in DOMAIN body.output |-> ItemEvents(body.output[i], i - 1)])
  \o <<[type     |-> IF body.error = "" THEN "response.completed" ELSE "response.failed",
        carries  |-> "response",
        response |-> IF listed THEN body ELSE [body EXCEPT !.output = << >>],
        error    |-> ""]>>

(* Chat Completions: the fragments of each call in turn, identified in the *)
(* first of them; the usage if the client asked for it; the sentinel.      *)
Chunk(id, calls, usage) ==
  [type |-> "chat.completion.chunk", id |-> id, calls |-> calls, usage |-> usage]

CallChunks(body, i) ==
  LET call     == body.chat[i]
      delta(j) == [index |-> i - 1, input |-> <<call.input[j]>>,
                   id    |-> IF j = 1 THEN call.id ELSE "",
                   name  |-> IF j = 1 THEN call.name ELSE ""]
  IN [j \in DOMAIN call.input |-> Chunk(body.id, <<delta(j)>>, NoUsage)]

ChatEvents(body, usageAsked) ==
  FlattenSeq([i \in DOMAIN body.chat |-> CallChunks(body, i)])
  \o (IF usageAsked THEN <<Chunk(body.id, << >>, body.usage)>> ELSE << >>)
  \o <<[type |-> "[DONE]"]>>

(* An event speaks of the response and of its items and calls as the body  *)
(* does, whether by id, by place or by both, and of the one error that it  *)
(* ends with.                                                              *)
SameItem(item, other) ==
  /\ item.id = other.id
  /\ item.callId = other.callId
  /\ item.type = other.type
  /\ item.name = other.name

IsPlace(index, i) == index \in {Absent, i - 1}

Tells(body, event) ==
  CASE event.type \in {"response.output_item.added", "response.output_item.done"} ->
         \E i \in DOMAIN body.output :
           SameItem(event.item, body.output[i]) /\ IsPlace(event.index, i)
    [] event.type = "response.web_search_call" ->
         \E i \in DOMAIN body.output :
           /\ IsWeb(body.output[i])
           /\ event.id \in {"", body.output[i].id}
           /\ IsPlace(event.index, i)
    [] event.type \in {"arguments.delta", "arguments.done"} ->
         \E i \in DOMAIN body.output :
           /\ event.id \in {"", body.output[i].id}
           /\ IsPlace(event.index, i)
           /\ event.id # "" \/ event.index # Absent
    [] event.type = "chat.completion.chunk" ->
         /\ event.id \in {"", body.id}
         /\ event.calls \in Seq({event.calls[j] : j \in DOMAIN event.calls})
         /\ \A j \in DOMAIN event.calls : \E i \in DOMAIN body.chat :
              event.calls[j].index = i - 1 /\ event.calls[j].id \in {"", body.chat[i].id}
    [] event.type \in {"response.completed", "response.failed", "response.incomplete"} ->
         /\ event.carries \in {"response", "malformed", "nothing"}
         /\ event.error \in {"", body.error}
         /\ event.carries = "response" =>
              /\ event.response.id = body.id
              /\ event.response.error \in {"", body.error}
              /\ event.response.chat = << >>
              /\ event.response.output \in
                   Seq({event.response.output[j] : j \in DOMAIN event.response.output})
              /\ \A j \in DOMAIN event.response.output : \E i \in DOMAIN body.output :
                   SameItem(event.response.output[j], body.output[i])
    [] event.type = "error" ->
         event.error \in {"", body.error}
    [] OTHER -> TRUE

(* No two items share an id, and every one has one.  A web search has no   *)
(* call id.                                                                *)
WellNamed(body) ==
  /\ {body.id, body.error} \subseteq STRING
  /\ DOMAIN body.output \cup DOMAIN body.chat \subseteq Nat \ {0}
  /\ \A i \in DOMAIN body.chat : body.chat[i].id \in STRING
  /\ \A i \in DOMAIN body.output :
       /\ {body.output[i].id, body.output[i].callId} \subseteq STRING
       /\ Key(body.output[i]) # ""
       /\ IsWeb(body.output[i]) => body.output[i].callId = ""
       /\ \A j \in DOMAIN body.output \ {i} :
            {body.output[i].id, body.output[i].callId}
              \cap {body.output[j].id, body.output[j].callId} \subseteq {""}

(* Every item has all its fields, and an input only if one is given; a web *)
(* search has no name.  The calls of a chat have some input, and come      *)
(* alone.                                                                  *)
WellFormed(body) ==
  /\ DOMAIN body = {"id", "usage", "output", "chat", "error"}
  /\ body.output \in Seq({body.output[i] : i \in DOMAIN body.output})
  /\ body.chat \in Seq({body.chat[i] : i \in DOMAIN body.chat})
  /\ body.chat # << >> => body.output = << >> /\ body.error = ""
  /\ \A i \in DOMAIN body.output :
       LET item == body.output[i]
       IN  /\ DOMAIN item = {"type", "id", "callId", "name", "given", "input"}
           /\ item.given \in BOOLEAN
           /\ item.input \in Seq({item.input[j] : j \in DOMAIN item.input})
           /\ ~ item.given => item.input = << >>
           /\ IsWeb(item) => item.name = ""
  /\ \A i \in DOMAIN body.chat :
       LET call == body.chat[i]
       IN  /\ DOMAIN call = {"id", "name", "input"}
           /\ call.input \in Seq({call.input[j] : j \in DOMAIN call.input})
           /\ call.input # << >>

(* A response in as many layers of frames as the backend wraps it in.      *)
Wrapped(event, depth) ==
  [f \in DOMAIN event \cup {"depth"} |-> IF f = "depth" THEN depth ELSE event[f]]

Events(body, whole, depth) ==
  LET events == IF body.chat = << >> THEN ResponseEvents(body, whole)
                ELSE ChatEvents(body, whole)
  IN [i \in DOMAIN events |-> Wrapped(events[i], depth)]
============================================================================
