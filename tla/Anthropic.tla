----------------------------- MODULE Anthropic -----------------------------
(***************************************************************************)
(* The parsers of the Messages API in internal/anthropic (usage.go): of a  *)
(* whole body, and of a stream of events.  Models, stop reasons and the    *)
(* raw usage object are left out: they follow the same rules as the fields *)
(* that are here.                                                          *)
(*                                                                         *)
(* A usage object is a record of counts, NoUsage when it is missing.       *)
(* web is server_tool_use.web_search_requests.                             *)
(***************************************************************************)
EXTENDS Usage

UsageFields == {"input", "output", "write", "read", "web"}

NoUsage == [f \in UsageFields |-> Absent]

(* toUsage: Anthropic's input is what was not cached; the ledger's is all. *)
ToUsage(u) ==
  LET input == SumTokens(<<u.input, u.read, u.write>>)
  IN [input  |-> input,
      cached |-> u.read,
      write  |-> u.write,
      output |-> u.output,
      total  |-> SumTokens(<<input, u.output>>)]

(* addSyntheticWebRequests: searches that were counted but not seen.       *)
Synthetic == Call("", "web_search", <<"usage">>)

AddSynthetic(requests, count) ==
  requests \o [i \in 1..(count - Len(requests)) |-> Synthetic]

----------------------------------------------------------------------------
(* ExtractCompleted of a body [id, usage, content]; a block of the content *)
(* is [type, id, name, input].                                             *)
IsTool(block) ==
  /\ block.type = "tool_use"
  /\ block.name # ""
  /\ ~ IsWebToolBlock(block.type, block.name)

IsWeb(block) == IsWebToolBlock(block.type, block.name)

CallsOf(blocks) ==
  [i \in DOMAIN blocks |-> Call(blocks[i].id, blocks[i].name, blocks[i].input)]

Completed(body) ==
  [id    |-> body.id,
   usage |-> ToUsage(body.usage),
   tools |-> CallsOf(Selected(body.content, {i \in DOMAIN body.content : IsTool(body.content[i])})),
   web   |-> AddSynthetic(
               CallsOf(Selected(body.content, {i \in DOMAIN body.content : IsWeb(body.content[i])})),
               body.usage.web),
   error |-> ""]

----------------------------------------------------------------------------
(* The state of a StreamParser: the result so far, and what it is built    *)
(* from.                                                                   *)
Start ==
  [result    |-> [id |-> "", usage |-> ToUsage(NoUsage), tools |-> << >>,
                  web |-> << >>, error |-> ""],
   usage     |-> NoUsage,
   calls     |-> << >>,
   terminal  |-> FALSE,
   malformed |-> FALSE]

(* syncToolCalls goes through every call that has a name, those marked as  *)
(* web included.                                                           *)
Named(calls) == {i \in DOMAIN calls : calls[i].name # ""}

SyncToolCalls(p) ==
  LET named == Selected(p.calls, Named(p.calls))
  IN [p EXCEPT !.result.tools =
        [i \in DOMAIN named |-> Call(named[i].id, named[i].name, Input(named[i]))]]

NamedWeb(calls) == {i \in Named(calls) : calls[i].web}

SyncWebRequests(p) ==
  LET web == Selected(p.calls, NamedWeb(p.calls))
  IN [p EXCEPT !.result.web =
        AddSynthetic([i \in DOMAIN web |-> Call(web[i].id, web[i].name, Input(web[i]))],
                     p.usage.web)]

(* mergeUsage: later events win, field by field.  Left out is a usage      *)
(* object that does not decode, which changes nothing here and is noted as *)
(* a frame that is not JSON is.                                            *)
MergeUsage(p, u) ==
  LET merged == [f \in UsageFields |-> First(u[f], p.usage[f], Absent)]
  IN IF u = NoUsage THEN p
     ELSE SyncWebRequests([p EXCEPT !.usage = merged,
                                    !.result.usage = ToUsage(merged)])

(* toolCall: the call of a content block, a new one if there is none.      *)
Slot(calls, index) ==
  IF \E i \in DOMAIN calls : calls[i].index = index THEN calls
  ELSE Append(calls, [index |-> index, id |-> "", name |-> "", input |-> << >>,
                      partial |-> << >>, web |-> FALSE])

At(calls, index) == CHOOSE i \in DOMAIN calls : calls[i].index = index

StartBlock(p, index, block) ==
  LET calls == Slot(p.calls, index)
      i     == At(calls, index)
      begun == [calls[i] EXCEPT !.id    = block.id,
                                !.name  = block.name,
                                !.web   = @ \/ IsWeb(block),
                                !.input = First(block.input, @, << >>)]
      q     == [p EXCEPT !.calls = [calls EXCEPT ![i] = begun]]
  IN IF IsTool(block) THEN SyncToolCalls(q)
     ELSE IF IsWeb(block) THEN SyncWebRequests(q)
     ELSE p

AppendInput(p, index, fragment) ==
  LET calls == Slot(p.calls, index)
      i     == At(calls, index)
      q     == [p EXCEPT !.calls = [calls EXCEPT ![i].partial = Append(@, fragment)]]
  IN IF calls[i].web THEN SyncWebRequests(q) ELSE SyncToolCalls(q)

(* handleEvent.                                                            *)
Handle(p, event) ==
  CASE event.type = "message_start" ->
         MergeUsage([p EXCEPT !.result.id = event.id], event.usage)
    [] event.type = "message_delta" ->
         MergeUsage(p, event.usage)
    [] event.type = "content_block_start" ->
         StartBlock(p, event.index, event.block)
    [] event.type = "input_json_delta" ->
         AppendInput(p, event.index, event.fragment)
    [] event.type = "message_stop" ->
         [p EXCEPT !.terminal = TRUE]
    [] event.type = "error" /\ event.error # "" ->
         [p EXCEPT !.terminal = TRUE, !.result.error = event.error]
    [] event.type = "malformed" ->
         [p EXCEPT !.malformed = TRUE]
    [] OTHER -> p

----------------------------------------------------------------------------
(* The events of a message, as the provider sends them: the usage of the   *)
(* beginning, each block with its input whole in its first event or in     *)
(* fragments after it, the usage of the end.  An error may come in place   *)
(* of the end.                                                             *)
BlockEvents(block, index, whole) ==
  LET begun == [block EXCEPT !.input = IF whole THEN @ ELSE << >>]
  IN <<[type |-> "content_block_start", index |-> index, block |-> begun]>>
     \o (IF whole THEN << >>
         ELSE [i \in DOMAIN block.input |->
                 [type |-> "input_json_delta", index |-> index, fragment |-> block.input[i]]])
     \o <<[type |-> "content_block_stop"]>>

(* An event speaks of the message and of its blocks as the body does, and  *)
(* of the one error that it ends with.                                     *)
Tells(body, event) ==
  CASE event.type = "message_start" ->
         event.id = body.id /\ event.usage \in [UsageFields -> Int]
    [] event.type = "message_delta" ->
         event.usage \in [UsageFields -> Int]
    [] event.type = "content_block_start" ->
         \E i \in DOMAIN body.content :
           /\ event.index = i - 1
           /\ event.block.type = body.content[i].type
           /\ event.block.id = body.content[i].id
           /\ event.block.name = body.content[i].name
    [] event.type = "error" ->
         event.error \in {"", body.error}
    [] OTHER -> TRUE

WellNamed(body) ==
  /\ {body.id, body.error} \subseteq STRING
  /\ DOMAIN body.content \subseteq Nat \ {0}
  /\ \A i \in DOMAIN body.content : body.content[i].id \in STRING

(* A block has all its fields, and the id of a tool's is its own among     *)
(* those of the web searches.                                              *)
WellFormed(body) ==
  /\ body.error = ""
  /\ body.usage \in [UsageFields -> Int]
  /\ body.content \in Seq({body.content[i] : i \in DOMAIN body.content})
  /\ \A i \in DOMAIN body.content :
       LET block == body.content[i]
       IN  /\ DOMAIN block = {"type", "id", "name", "input"}
           /\ block.input \in Seq({block.input[j] : j \in DOMAIN block.input})
           /\ IsTool(block) => block.id # ""
           /\ \A j \in DOMAIN body.content :
                IsTool(block) /\ IsWeb(body.content[j]) => block.id # body.content[j].id

Early(u) == [u EXCEPT !.output = IF @ = Absent THEN Absent ELSE 1, !.web = Absent]

Late(u) == [NoUsage EXCEPT !.output = u.output, !.web = u.web]

Events(body, whole) ==
  <<[type |-> "message_start", id |-> body.id, usage |-> Early(body.usage)]>>
  \o FlattenSeq([i \in DOMAIN body.content |-> BlockEvents(body.content[i], i - 1, whole)])
  \o <<[type |-> "message_delta", usage |-> Late(body.usage)],
       [type |-> "message_stop"]>>
============================================================================
