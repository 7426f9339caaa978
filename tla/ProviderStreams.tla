-------------------------- MODULE ProviderStreams --------------------------
(***************************************************************************)
(* agent-runtime/src/llm/*.provider.ts: one streamCompletion of each       *)
(* vendor, turned into the chunks the agent loop reads.  The vendor sends  *)
(* the model's answer in pieces; the adapter holds what it cannot pass on  *)
(* yet.  Tool calls are numbered in the order the model begins them, and a *)
(* piece of an input is <<call, number>>.                                  *)
(*                                                                         *)
(* The vendor's side is external: a block or delta belongs to a call, a    *)
(* call that is not whole is sent only when the token limit cuts it, and   *)
(* OpenAI reports its usage in a last chunk that has no choices.           *)
(***************************************************************************)
EXTENDS Naturals, Sequences, SequencesExt

CONSTANTS MaxCalls,        \* bound: tool calls of one answer
          Pieces,          \* pieces of a call's input
          Histories        \* conversations a request may carry

(* A conversation as the agent loop keeps it: a result follows the message *)
(* that asked for its call, with nothing but other results between.  The   *)
(* loop's prior history, which may begin in the middle, is none of these.  *)
Answers(h, i, j) == /\ h[j].role = "assistant"
                    /\ \E k \in DOMAIN h[j].calls : h[j].calls[k] = h[i].call
                    /\ \A n \in (j + 1)..(i - 1) : h[n].role = "tool"

ASSUME ProviderAssumption ==
  /\ MaxCalls \in Nat /\ Pieces \in Nat \ {0}
  /\ \A h \in Histories :
       /\ Len(h) \in Nat /\ DOMAIN h = 1..Len(h)
       /\ \A i \in DOMAIN h : h[i].role \in {"user", "assistant", "tool"}
       /\ \A i \in DOMAIN h : h[i].role = "tool" => \E j \in 1..(i - 1) : Answers(h, i, j)

VARIABLES provider, conversation, request,
          phase,           \* "asked", "streaming", "stopped", "returned", "threw"
          begun, sent,     \* vendor: calls begun, pieces sent of each
          stop,            \* vendor: why the model stopped
          block,           \* vendor: the open Anthropic block, 0 if none
          held, order,     \* adapter: pieces held per call; calls held, in order
          usage,           \* adapter: output tokens it was told of
          out              \* chunks yielded

askedVars == <<provider, conversation, request>>
vendor == <<begun, sent, stop, block>>
adapter == <<held, order, usage>>
providerVars == <<askedVars, phase, vendor, adapter, out>>

Providers == {"anthropic", "openai", "gemini", "ollama"}
CallNumbers == 1..MaxCalls
Whole(c) == [k \in 1..Pieces |-> <<c, k>>]

(* A finished answer's tokens, abstracted to what the model produced.      *)
Tokens(n, pieces) == 1 + FoldFunction(LAMBDA x, y : x + y, n, pieces)
Produced == Tokens(begun, sent)

-----------------------------------------------------------------------------
(* The request.  OpenAI and Anthropic link a tool result to its call by    *)
(* id, Gemini by the tool's name, Ollama not at all.  A conversation never *)
(* has the system message that the adapters would drop from it.            *)
Linked(h, link(_)) ==
  [i \in DOMAIN h |->
     CASE h[i].role = "tool"
            -> [role |-> "tool", links |-> <<link(h[i].call)>>]
       [] h[i].role = "assistant"
            -> [role |-> "assistant",
                links |-> [j \in DOMAIN h[i].calls |-> link(h[i].calls[j])]]
       [] OTHER -> [role |-> "user", links |-> <<>>]]

AnthropicMessages(h) == Linked(h, LAMBDA c : c.id)
OpenAIMessages(h) == Linked(h, LAMBDA c : c.id)
GeminiContents(h) == Linked(h, LAMBDA c : c.tool)
OllamaMessages(h) == Linked(h, LAMBDA c : "unlinked")

Request(h) == CASE provider = "anthropic" -> AnthropicMessages(h)
                [] provider = "openai" -> OpenAIMessages(h)
                [] provider = "gemini" -> GeminiContents(h)
                [] provider = "ollama" -> OllamaMessages(h)

ProviderInit ==
  /\ provider \in Providers
  /\ conversation \in Histories
  /\ request = <<>>
  /\ phase = "asked"
  /\ begun = 0
  /\ sent = [c \in CallNumbers |-> 0]
  /\ stop = "none"
  /\ block = 0
  /\ held = [c \in CallNumbers |-> <<>>]
  /\ order = <<>>
  /\ usage = 0
  /\ out = <<>>

Text == [type |-> "text"]
ToolCall(c, input) == [type |-> "tool_call", call |-> c, input |-> input]
Finish(reason, tokens) == [type |-> "finish", reason |-> reason, usage |-> tokens]
Error == [type |-> "error"]

(* JSON.parse of a call's input; what does not parse becomes {}.           *)
Parsed(c, pieces) == IF Len(pieces) = Pieces THEN pieces ELSE <<>>
Yield(chunks) == out' = out \o chunks
HasCall(chunks) == \E i \in DOMAIN chunks : chunks[i].type = "tool_call"

StreamStarts ==
  /\ phase = "asked"
  /\ request' = Request(conversation)
  /\ phase' = "streaming"
  /\ UNCHANGED <<provider, conversation, vendor, adapter, out>>

(* Only Gemini and Ollama answer a request the vendor refuses.             *)
StartFails ==
  /\ phase = "asked"
  /\ IF provider \in {"gemini", "ollama"}
     THEN phase' = "returned" /\ Yield(<<Error>>)
     ELSE phase' = "threw" /\ UNCHANGED out
  /\ UNCHANGED <<askedVars, vendor, adapter>>

(* The connection is lost: only Ollama turns it into an error chunk.       *)
StreamBreaks ==
  /\ phase \in {"streaming", "stopped"}
  /\ IF provider = "ollama"
     THEN phase' = "returned" /\ Yield(<<Error>>)
     ELSE phase' = "threw" /\ UNCHANGED out
  /\ UNCHANGED <<askedVars, vendor, adapter>>

TextDelta ==
  /\ phase = "streaming"
  /\ stop = "none"
  /\ block = 0
  /\ ~ \E i \in DOMAIN out : out[i] = Text                      \* bound
  /\ Yield(<<Text>>)
  /\ UNCHANGED <<askedVars, phase, vendor, adapter>>

Streaming(p) == phase = "streaming" /\ provider = p /\ stop = "none"
Begin(pieces) == /\ begun < MaxCalls
                 /\ begun' = begun + 1
                 /\ sent' = [sent EXCEPT ![begun + 1] = pieces]

-----------------------------------------------------------------------------
(* Anthropic: one block at a time.                                         *)
(* Mutant: the input of the last block is not thrown away. *)
ToolBlockStartKeeping ==
  /\ Streaming("anthropic")
  /\ block = 0
  /\ Begin(0)
  /\ block' = begun + 1
  /\ order' = <<begun + 1>>
  /\ held' = [held EXCEPT ![begun + 1] = IF begun = 0 THEN <<>> ELSE held[begun]]
  /\ UNCHANGED <<askedVars, phase, stop, usage, out>>

ToolBlockStart ==
  /\ Streaming("anthropic")
  /\ block = 0
  /\ Begin(0)
  /\ block' = begun + 1
  /\ order' = <<begun + 1>>
  /\ held' = [held EXCEPT ![begun + 1] = <<>>]
  /\ UNCHANGED <<askedVars, phase, stop, usage, out>>

InputJsonDelta ==
  /\ Streaming("anthropic")
  /\ block # 0
  /\ sent[block] < Pieces
  /\ sent' = [sent EXCEPT ![block] = @ + 1]
  /\ held' = [held EXCEPT ![block] = Append(@, <<block, sent[block] + 1>>)]
  /\ UNCHANGED <<askedVars, phase, begun, stop, block, order, usage, out>>

(* The block stops; if the limit cut it, the model has stopped with it.    *)
ContentBlockStop ==
  /\ Streaming("anthropic")
  /\ block # 0
  /\ Yield(<<ToolCall(block, Parsed(block, held[block]))>>)
  /\ stop' = IF sent[block] < Pieces THEN "length" ELSE stop
  /\ block' = 0
  /\ order' = <<>>
  /\ UNCHANGED <<askedVars, phase, begun, sent, held, usage>>

(* message_delta: the stop reason and the tokens.                          *)
MessageDelta ==
  /\ provider = "anthropic" /\ phase = "streaming"
  /\ block = 0
  /\ \/ stop = "length" /\ UNCHANGED stop
     \/ stop = "none" /\ stop' \in {IF begun > 0 THEN "tool" ELSE "end", "length"}
  /\ usage' = Produced
  /\ phase' = "stopped"
  /\ UNCHANGED <<askedVars, begun, sent, block, held, order, out>>

MessageStop ==
  /\ provider = "anthropic" /\ phase = "stopped"
  /\ Yield(<<Finish(IF stop = "tool" THEN "tool_use" ELSE "end_turn", usage)>>)
  /\ phase' = "returned"
  /\ UNCHANGED <<askedVars, vendor, adapter>>

-----------------------------------------------------------------------------
(* OpenAI: the deltas of several calls, by index.                          *)
ToolCallBegins ==
  /\ Streaming("openai")
  /\ Begin(0)
  /\ order' = Append(order, begun + 1)
  /\ UNCHANGED <<askedVars, phase, stop, block, held, usage, out>>

ArgumentsDelta(c) ==
  /\ Streaming("openai")
  /\ c <= begun /\ sent[c] < Pieces
  /\ sent' = [sent EXCEPT ![c] = @ + 1]
  /\ held' = [held EXCEPT ![c] = Append(@, <<c, sent[c] + 1>>)]
  /\ UNCHANGED <<askedVars, phase, begun, stop, block, order, usage, out>>

HeldCalls == [i \in DOMAIN order |-> ToolCall(order[i], Parsed(order[i], held[order[i]]))]

(* The chunk with the finish reason: the calls, then the finish.           *)
FinishReason ==
  /\ Streaming("openai")
  /\ \/ (\A c \in 1..begun : sent[c] = Pieces)
        /\ stop' = IF begun > 0 THEN "tool" ELSE "end"
     \/ stop' = "length"
  /\ IF stop' = "length" THEN UNCHANGED order /\ Yield(<<Finish("end_turn", usage)>>)
     ELSE /\ order' = <<>>
          /\ Yield(HeldCalls \o <<Finish(IF stop' = "tool" THEN "tool_use"
                                         ELSE "end_turn", usage)>>)
  /\ phase' = "stopped"
  /\ UNCHANGED <<askedVars, begun, sent, block, held, usage>>

(* The usage chunk has no choice, so the loop goes on before reading it.   *)
UsageChunk ==
  /\ provider = "openai" /\ phase = "stopped"
  /\ phase' = "returned"
  /\ UNCHANGED <<askedVars, vendor, adapter, out>>

-----------------------------------------------------------------------------
(* Gemini: whole calls, held to the end; every chunk has the usage so far. *)
FunctionCall ==
  /\ Streaming("gemini")
  /\ Begin(Pieces)
  /\ order' = Append(order, begun + 1)
  /\ held' = [held EXCEPT ![begun + 1] = Whole(begun + 1)]
  /\ usage' = Tokens(begun', sent')
  /\ UNCHANGED <<askedVars, phase, stop, block, out>>

GeminiEnds ==
  /\ Streaming("gemini")
  /\ stop' \in {"end", "length"}
  /\ usage' = Produced                       \* the last chunk's usageMetadata
  /\ Yield(HeldCalls \o <<Finish(IF order # <<>> THEN "tool_use" ELSE "end_turn",
                                 Produced)>>)
  /\ order' = <<>>
  /\ phase' = "returned"
  /\ UNCHANGED <<askedVars, begun, sent, block, held>>

(* Ollama: whole calls, passed on at once; the counts come with done.      *)
ToolCalls ==
  /\ Streaming("ollama")
  /\ Begin(Pieces)
  /\ Yield(<<ToolCall(begun + 1, Whole(begun + 1))>>)
  /\ UNCHANGED <<askedVars, phase, stop, block, adapter>>

Done ==
  /\ Streaming("ollama")
  /\ stop' \in {"end", "length"}
  /\ usage' = Produced
  /\ Yield(<<Finish(IF HasCall(out) THEN "tool_use" ELSE "end_turn", Produced)>>)
  /\ phase' = "stopped"
  /\ UNCHANGED <<askedVars, begun, sent, block, held, order>>

OllamaEnds ==
  /\ provider = "ollama" /\ phase = "stopped"
  /\ phase' = "returned"
  /\ UNCHANGED <<askedVars, vendor, adapter, out>>

ProviderNext ==
  \/ StreamStarts \/ StartFails \/ StreamBreaks \/ TextDelta
  \/ ToolBlockStart \/ InputJsonDelta \/ ContentBlockStop
  \/ MessageDelta \/ MessageStop
  \/ ToolCallBegins \/ (\E c \in CallNumbers : ArgumentsDelta(c))
  \/ FinishReason \/ UsageChunk
  \/ FunctionCall \/ GeminiEnds
  \/ ToolCalls \/ Done \/ OllamaEnds

ProviderSpec == ProviderInit /\ [][ProviderNext]_providerVars

-----------------------------------------------------------------------------
(* What the adapter holds and has yielded is of its types.                 *)
ProviderTypeOK ==
  /\ provider \in Providers
  /\ phase \in {"asked", "streaming", "stopped", "returned", "threw"}
  /\ stop \in {"none", "tool", "end", "length"}
  /\ begun \in 0..MaxCalls /\ block \in 0..begun
  /\ \A c \in CallNumbers : /\ sent[c] \in 0..Pieces
                            /\ held[c] \in Seq(CallNumbers \X (1..Pieces))
  /\ \A i \in DOMAIN out : out[i].type \in {"text", "tool_call", "finish", "error"}

Chunks(type) == {i \in DOMAIN out : out[i].type = type}

(* However the pieces of several calls arrive, a tool runs with the input  *)
(* the model wrote for that call: the whole of it, or none where the limit *)
(* cut it short.                                                           *)
CallsOwnInput ==
  \A i \in Chunks("tool_call") :
    LET e == out[i]
    IN  IF sent[e.call] = Pieces THEN e.input = Whole(e.call)
                                 ELSE e.input = <<>> /\ stop = "length"

(* Once an adapter says the answer is finished, every call the model wrote *)
(* whole was passed on before, once and in order, and the loop is told to  *)
(* go on exactly when there are calls; only the limit may cut that.  A     *)
(* stream that ends says so: it finished, it failed, or it threw.          *)
FinishIsComplete ==
  /\ \A f, g \in Chunks("finish") : f = g
  /\ \A f \in Chunks("finish") : stop # "length" =>
       /\ {out[i].call : i \in Chunks("tool_call")} = 1..begun
       /\ \A i, j \in Chunks("tool_call") : i < j => out[i].call < out[j].call
       /\ \A i \in Chunks("tool_call") : i < f
       /\ out[f].reason = IF begun > 0 THEN "tool_use" ELSE "end_turn"
  /\ phase = "returned" => out # <<>> /\ (Chunks("finish") # {} \/ Last(out) = Error)

(* The tokens a finished answer reports are those the model produced, for  *)
(* the three vendors that send them before the end.                        *)
UsageExact ==
  provider # "openai" => \A f \in Chunks("finish") : out[f].usage = Produced

(* The conversation the vendor gets: each tool result can be traced to a   *)
(* call of the last assistant message before it.                           *)
ResultsTraceable ==
  \A i \in DOMAIN request :
    request[i].role = "tool" =>
      \E j \in 1..(i - 1) :
        /\ request[j].role = "assistant"
        /\ request[i].links[1] \in {request[j].links[k] : k \in DOMAIN request[j].links}
        /\ \A n \in (j + 1)..(i - 1) : request[n].role = "tool"

(* llm/*.provider.ts: the loop is told what the model said - each call     *)
(* with the whole input sent for it, a finish only after all of the        *)
(* answer, the vendor's token counts - and the model which call each       *)
(* result answers.                                                         *)
NothingMisreported ==
  CallsOwnInput /\ FinishIsComplete /\ UsageExact /\ ResultsTraceable

(* "Unbounded API spend | Per-user daily cost caps enforced at two layers: *)
(* gateway and agent runtime" (README.md): a cap can only be enforced on   *)
(* answers whose tokens are reported.                                      *)
TokensReported == \A f \in Chunks("finish") : out[f].usage > 0
=============================================================================
