-------------------------------- MODULE LlmStream --------------------------------
(***************************************************************************)
(* One streamed response: the events a provider sends and what the three   *)
(* adapters make of them (chat_completion_stream of OpenAIAdapter,         *)
(* ClaudeAdapter and LangChainAdapter), chunk by chunk, for the loop that  *)
(* reads them.                                                             *)
(*                                                                         *)
(* The provider's side is external: it sends text and tool calls one after *)
(* the other, the arguments of a call in fragments, and ends with a reason *)
(* (finish_reason, stop_reason), without one, or breaks off.  An adapter   *)
(* handles an event at once: nothing else sees its buffer.  Text is        *)
(* abstracted to its presence, and yielded as it comes; the arguments of a *)
(* call to the number of the call they belong to.                          *)
(***************************************************************************)
EXTENDS Naturals, Sequences, SequencesExt

CONSTANTS
    Tools,          \* tool names a model may ask for
    MaxBlocks,      \* bound: texts and calls in a response
    MaxFragments    \* bound: fragments of the arguments of a call

ASSUME BoundsAssumption == MaxBlocks \in Nat /\ MaxFragments \in Nat

VARIABLES
    adapter,        \* the adapter that reads the response
    phase,          \* "streaming", "ended" or "raised"
    reason,         \* finish_reason or stop_reason
    asked,          \* the provider's calls, oldest first
    texts,          \* the provider's texts, each yielded at once
    buffer,         \* tool_use_buffer (Claude), tool_call_accumulator (LangChain)
    emitted         \* sentinels yielded, oldest first

vars == <<adapter, phase, reason, asked, texts, buffer, emitted>>

Adapters == {"openai", "claude", "langchain"}

\* The arguments of a call that has none, and of one that does not parse.
NoArguments == 0

-----------------------------------------------------------------------------

Init ==
    /\ adapter \in Adapters
    /\ phase = "streaming"
    /\ reason = "none"
    /\ asked = << >>
    /\ texts = 0
    /\ buffer = << >>
    /\ emitted = << >>

CallOpen == asked # << >> /\ ~Last(asked).closed

\* The fragments of one call, from the first to the last and nothing else.
IsWhole(fragments) ==
    /\ fragments # << >>
    /\ Last(fragments).last
    /\ \A n \in DOMAIN fragments :
         /\ fragments[n].of = Last(fragments).of
         /\ fragments[n].no = n

\* json.loads of the fragments put together, or {}.
Loads(fragments) == IF IsWhole(fragments) THEN Last(fragments).of ELSE NoArguments

\* Slip: the name, which only the first fragment carries, is not gathered.
SentinelNameless(call) ==
    [tool |-> IF adapter = "langchain" THEN "" ELSE call.tool,
     args |-> Loads(call.fragments)]

Sentinel(call) == [tool |-> call.tool, args |-> Loads(call.fragments)]

Sentinels(calls) == [i \in DOMAIN calls |-> Sentinel(calls[i])]

\* What the provider has sent of call number i; the OpenAI client keeps it.
Received(i) ==
    [tool |-> asked[i].tool,
     fragments |-> [n \in 1..asked[i].sent |->
                      [of |-> i, no |-> n, last |-> asked[i].closed /\ n = asked[i].sent]]]

\* Slip: the buffer is kept after its sentinel.
ClaudeBlockStopsKept(call) ==
    /\ emitted' = emitted \o Sentinels(call)
    /\ buffer' = call

\* content_block_stop: the buffer of a tool_use block is emitted and cleared.
ClaudeBlockStops(call) ==
    /\ emitted' = emitted \o Sentinels(call)
    /\ buffer' = << >>

\* A text delta is yielded as it comes; Claude ends the text block as well.
SendText ==
    /\ phase = "streaming"
    /\ ~CallOpen
    /\ Len(asked) + texts < MaxBlocks
    /\ texts' = texts + 1
    /\ IF adapter = "claude"
       THEN ClaudeBlockStops(buffer)
       ELSE UNCHANGED <<buffer, emitted>>
    /\ UNCHANGED <<adapter, phase, reason, asked>>

\* The call the OpenAI client announces when the next one begins or the reason
\* arrives, which show that it is complete.
LastReceived == IF asked = << >> THEN << >> ELSE <<Received(Len(asked))>>

Announced == IF adapter = "openai" THEN emitted \o Sentinels(LastReceived) ELSE emitted

OpenCall(tool) ==
    /\ phase = "streaming"
    /\ ~CallOpen
    /\ Len(asked) + texts < MaxBlocks
    /\ asked' = Append(asked, [tool |-> tool, sent |-> 0, closed |-> FALSE])
    /\ LET call == [tool |-> tool, fragments |-> << >>] IN
       buffer' = CASE adapter = "openai" -> buffer
                   [] adapter = "claude" -> <<call>>
                   [] adapter = "langchain" -> Append(buffer, call)
    /\ emitted' = Announced
    /\ UNCHANGED <<adapter, phase, reason, texts>>

\* LangChain's fragments carry the index of their call, Claude has one call.
AddFragment(calls, fragment) ==
    [calls EXCEPT ![Len(calls)].fragments = Append(@, fragment)]

\* A fragment of the arguments; with the last one the call is complete.
SendFragment(last) ==
    /\ phase = "streaming"
    /\ CallOpen
    /\ Last(asked).sent < MaxFragments
    /\ asked' = [asked EXCEPT ![Len(asked)].sent = @ + 1, ![Len(asked)].closed = last]
    /\ LET fragment == [of |-> Len(asked), no |-> Last(asked).sent + 1, last |-> last]
           calls == IF adapter = "openai" THEN buffer ELSE AddFragment(buffer, fragment)
       IN  IF adapter = "claude" /\ last
           THEN ClaudeBlockStops(calls)
           ELSE buffer' = calls /\ UNCHANGED emitted
    /\ UNCHANGED <<adapter, phase, reason, texts>>

\* A call without arguments is complete as it is.
CloseEmptyCall ==
    /\ phase = "streaming"
    /\ CallOpen
    /\ Last(asked).sent = 0
    /\ asked' = [asked EXCEPT ![Len(asked)].closed = TRUE]
    /\ IF adapter = "claude"
       THEN ClaudeBlockStops(buffer)
       ELSE UNCHANGED <<buffer, emitted>>
    /\ UNCHANGED <<adapter, phase, reason, texts>>

\* Slip: calls of a response that ends with "stop" are forgotten.
FlushesOnToolCalls(why) == why = "tool_calls"

\* LangChainAdapter yields what it has gathered for these reasons only.
Flushes(why) == why \in {"tool_calls", "stop"}

Flush(why) ==
    IF Flushes(why)
    THEN emitted' = emitted \o Sentinels(buffer) /\ buffer' = << >>
    ELSE UNCHANGED <<buffer, emitted>>

\* The response is complete.
Finish(why) ==
    /\ phase = "streaming"
    /\ ~CallOpen
    /\ why = "tool_calls" => asked # << >>
    /\ phase' = "ended"
    /\ reason' = why
    /\ IF adapter = "langchain"
       THEN Flush(why)
       ELSE emitted' = Announced /\ UNCHANGED buffer
    /\ UNCHANGED <<adapter, asked, texts>>

\* The response is cut, by max_tokens or by the provider's filter, wherever it
\* is.  The OpenAI client raises, since the tools are strict; Claude stops the
\* open block; LangChain flushes for its two reasons only.
CutOff(why) ==
    /\ phase = "streaming"
    /\ reason' = why
    /\ CASE adapter = "openai" -> phase' = "raised" /\ UNCHANGED <<buffer, emitted>>
         [] adapter = "claude" -> phase' = "ended" /\ ClaudeBlockStops(buffer)
         [] adapter = "langchain" -> phase' = "ended" /\ Flush(why)
    /\ UNCHANGED <<adapter, asked, texts>>

\* The chunks cease, wherever the response is, and no reason has come.
EndUnexplained ==
    /\ phase = "streaming"
    /\ phase' = "ended"
    /\ UNCHANGED <<adapter, reason, asked, texts, buffer, emitted>>

\* The connection or the provider fails.
Break ==
    /\ phase = "streaming"
    /\ phase' = "raised"
    /\ UNCHANGED <<adapter, reason, asked, texts, buffer, emitted>>

Over == phase # "streaming" /\ UNCHANGED vars

Next ==
    \/ SendText
    \/ \E tool \in Tools : OpenCall(tool)
    \/ \E last \in BOOLEAN : SendFragment(last)
    \/ CloseEmptyCall
    \/ \E why \in {"stop", "tool_calls"} : Finish(why)
    \/ \E why \in {"length", "content_filter"} : CutOff(why)
    \/ EndUnexplained
    \/ Break
    \/ Over

Spec == Init /\ [][Next]_vars

-----------------------------------------------------------------------------

Fragments == [of : Nat, no : Nat, last : BOOLEAN]

TypeOK ==
    /\ adapter \in Adapters
    /\ phase \in {"streaming", "ended", "raised"}
    /\ reason \in {"none", "stop", "tool_calls", "length", "content_filter"}
    /\ asked \in Seq([tool : Tools, sent : 0..MaxFragments, closed : BOOLEAN])
    /\ texts \in 0..MaxBlocks
    /\ buffer \in Seq([tool : Tools, fragments : Seq(Fragments)])
    /\ adapter = "claude" => Len(buffer) <= 1
    /\ emitted \in Seq([tool : Tools, args : Nat])

\* What the model meant by call number i.
Arguments(i) == IF asked[i].sent = 0 THEN NoArguments ELSE i

\* The calls the loop is shown are those of the model, each once and in the
\* model's order, so that the last of them is the model's last; a call carries
\* its own arguments, or none, and none in place of its own only if Claude's
\* response was cut in the middle of it (openai_adapter.py:94-114,
\* claude_adapter.py:104-136, langchain_adapter.py:156-196).
SentinelsAreFaithful ==
    /\ Len(emitted) <= Len(asked)
    /\ \A i \in DOMAIN emitted :
         /\ emitted[i].tool = asked[i].tool
         /\ \/ asked[i].closed /\ emitted[i].args = Arguments(i)
            \/ /\ adapter = "claude" /\ reason \in {"length", "content_filter"}
               /\ ~asked[i].closed /\ i = Len(asked)
               /\ emitted[i].args = NoArguments

\* The loop takes a response with text and no call for the answer.
TakenForAnswer == phase = "ended" /\ emitted = << >> /\ texts > 0

\* How many of the calls a response that ends may keep from the loop: through
\* LangChain all of them, for every reason but "stop" and "tool_calls"; through
\* the others the last one, if no reason came.
MayLose ==
    CASE adapter = "langchain" /\ reason \notin {"stop", "tool_calls"} -> Len(asked)
      [] adapter # "langchain" /\ reason = "none" -> 1
      [] OTHER -> 0

\* A response that ends without raising has shown every call of the model but
\* those of MayLose, and where none may be lost it is taken for an answer only
\* if the model asked for no tool (openai_adapter.py:94-114,
\* langchain_adapter.py:180-196, react_orchestrator.py:112-120).
LostCallsNeedCut ==
    phase = "ended" =>
      /\ Len(emitted) + MayLose >= Len(asked)
      /\ TakenForAnswer /\ MayLose = 0 => asked = << >>
=============================================================================
