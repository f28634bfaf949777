----------------------------- MODULE MCStreams -----------------------------
(***************************************************************************)
(* Bodies of up to two blocks, items or calls of each provider, the ways   *)
(* they are streamed, and what may be in between.                          *)
(***************************************************************************)
EXTENDS Streams

CONSTANTS lf, cr

----------------------------------------------------------------------------
(* Anthropic.  The ids tell apart the blocks of a body.                    *)
Kinds == {"text", "tool", "client web", "server web", "result"}

ABlock(kind, n) ==
  LET id == <<"a", "b">>[n]
  IN CASE kind = "text" ->
            [type |-> "text", id |-> "", name |-> "", input |-> << >>]
       [] kind = "tool" ->
            [type |-> "tool_use", id |-> id, name |-> "Bash", input |-> <<"x", "y">>]
       [] kind = "client web" ->
            [type |-> "tool_use", id |-> id, name |-> "WebSearch", input |-> <<"q", "r">>]
       [] kind = "server web" ->
            [type |-> "server_tool_use", id |-> id, name |-> "web_search", input |-> <<"q">>]
       [] kind = "result" ->
            [type |-> "web_search_tool_result", id |-> "", name |-> "", input |-> << >>]

UpTo2(S) == {<< >>} \cup {<<x>> : x \in S} \cup (S \X S)

AUsages ==
  {[input |-> 4, output |-> 7, read |-> r, write |-> A!Absent, web |-> w] :
     r \in {A!Absent, 3}, w \in {A!Absent, 2}}

ABodies ==
  {[id |-> "m", usage |-> u, error |-> "",
    content |-> [i \in DOMAIN k |-> ABlock(k[i], i)]] : k \in UpTo2(Kinds), u \in AUsages}

----------------------------------------------------------------------------
(* OpenAI.                                                                 *)
OItem(type, n) ==
  LET id == <<"a", "b">>[n]
  IN [type |-> type, id |-> id,
      callId |-> IF type \in {"function_call", "local_shell_call"} THEN <<"c", "d">>[n] ELSE "",
      name |-> IF type = "function_call" THEN "shell" ELSE "",
      given |-> type \in {"function_call", "local_shell_call", "web_search_call"},
      input |-> CASE type = "function_call" -> <<"x", "y">>
                  [] type \in {"local_shell_call", "web_search_call"} -> <<"action">>
                  [] OTHER -> << >>]

Types == {"message", "function_call", "local_shell_call", "web_search_call",
          "image_generation_call"}

OUsages ==
  {[input |-> 4, output |-> 7, cached |-> 3, total |-> t] : t \in {O!Absent, 11}}

ResponseBodies ==
  {[id |-> "r", usage |-> u, chat |-> << >>, error |-> e,
    output |-> [i \in DOMAIN k |-> OItem(k[i], i)]] :
     k \in UpTo2(Types), u \in OUsages, e \in {"", "overloaded"}}

ChatCall(n) == [id |-> <<"a", "b">>[n], name |-> "shell", input |-> <<"x", "y">>]

ChatBodies ==
  {[id |-> "r", usage |-> u, output |-> << >>, error |-> "",
    chat |-> [i \in 1..n |-> ChatCall(i)]] : n \in 1..2, u \in OUsages}

----------------------------------------------------------------------------
(* The text of an event and the end of its frame, in either style.  A      *)
(* comment may come in between.                                            *)
EventFrame(e, crlf) ==
  IF crlf THEN <<Text(e), CR, LF, MoreText(e), CR, LF, CR, LF>>
  ELSE <<Text(e), LF, MoreText(e), LF, LF>>

CommentFrame(crlf) ==
  IF crlf THEN <<Comment, CR, LF, CR, LF>> ELSE <<Comment, LF, LF>>

(* What may disturb the events: nothing, a comment or a frame that is not  *)
(* JSON before the last event, an error in its place.                      *)
Disturbances == {"none", "comment", "malformed", "error"}

Bad == [type |-> "malformed", depth |-> 0]

Failure == [type |-> "error", error |-> "overloaded", depth |-> 1]

Disturbed(events, how) ==
  CASE how \in {"none", "comment"} -> events
    [] how = "malformed" -> InsertAt(events, Len(events), Bad)
    [] how = "error" -> Append(Front(events), Failure)

Exchange(provider, body, events, how, crlf, reported) ==
  LET sent  == Disturbed(events, how)
      bare  == [e \in DOMAIN sent |-> EventFrame(e, crlf)]
      plain == provider # "anthropic" \/ ~ \E i \in DOMAIN body.content :
                 body.content[i].type = "web_search_tool_result"
      told  == IF how = "error" THEN [body EXCEPT !.error = Failure.error] ELSE body
  IN [provider |-> provider, body |-> told, events |-> sent,
      frames   |-> IF how = "comment" THEN InsertAt(bare, Len(bare), CommentFrame(crlf)) ELSE bare,
      complete |-> how # "error",
      reported |-> reported,
      plain    |-> plain]

(* Every body in the plain style; every disturbance and the longer         *)
(* delimiter on those of one block.                                        *)
Variants(short) == IF short THEN Disturbances \X BOOLEAN ELSE {<<"none", FALSE>>}

MCExchanges ==
  UNION {{Exchange("anthropic", b, A!Events(b, whole), v[1], v[2], TRUE) :
            whole \in BOOLEAN, v \in Variants(Len(b.content) < 2)} : b \in ABodies}
  \cup
  UNION {{Exchange("openai", b, O!Events(b, whole, depth), v[1], v[2],
                   whole \/ b.chat = << >>) :
            whole \in BOOLEAN, depth \in {0, 2}, v \in Variants(Len(b.output \o b.chat) < 2)} :
         b \in ResponseBodies \cup ChatBodies}

(* The tokens of the longest exchange.                                     *)
MCToken == {LF, CR} \cup (0..20) \X {1, 2}

MCWires == {FlattenSeq(x.frames) : x \in MCExchanges}
============================================================================
