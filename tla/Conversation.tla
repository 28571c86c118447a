------------------------------ MODULE Conversation ------------------------------
(***************************************************************************)
(* The history of the conversation (src/bridge/relay/history.go and the    *)
(* calls that append to it) and its translation for the two language       *)
(* models, there and back (src/bridge/llm): tool calls and their answers   *)
(* are paired by ids that each interface writes in a way of its own.       *)
(***************************************************************************)
EXTENDS Naturals, Sequences, FiniteSets, SequencesExt

CONSTANTS Turns,      \* bound: messages in the history
          Providers   \* subset of {"anthropic", "codex"}

VARIABLES
    provider,
    history,          \* messages, the system prompt apart
    lastToolCallID,   \* NoID before the first tool call
    due,              \* callAndDispatch is about to ask the model
    uttered           \* what the model said, as it meant it, per answer

convVars == <<provider, history, lastToolCallID, due, uttered>>

(* An id of the Codex interface has two parts, that of a call and that of an
   item, which the bridge joins; an Anthropic id has one. *)
NoID == [call |-> 0, item |-> 0]
CallID(n) == [call |-> n, item |-> IF provider = "codex" THEN Turns + Turns + n ELSE 0]

(* The parts of an answer: text, no text, or a tool call. *)
Text(n) == [type |-> "text", n |-> n]
Call(id) == [type |-> "call", id |-> id]

\* The members of s at the positions in S, in order.
Rank(S, i) == Cardinality({j \in S : j <= i})
Chosen(s, S) == [k \in 1..Cardinality(S) |-> s[CHOOSE i \in S : Rank(S, i) = k]]

CallParts(parts) == Chosen(parts, {i \in 1..Len(parts) : parts[i].type = "call"})
Ids(parts) == [k \in 1..Len(CallParts(parts)) |-> CallParts(parts)[k].id]
Words(parts) == Chosen(parts, {i \in 1..Len(parts) : parts[i].type = "text" /\ parts[i].n > 0})

User(n) == [role |-> "user", words |-> n, calls |-> <<>>, answers |-> NoID]
Assistant(parts) ==
    [role |-> "assistant", words |-> Words(parts), calls |-> Ids(parts), answers |-> NoID]
ToolAnswer(id) == [role |-> "tool", words |-> <<>>, calls |-> <<>>, answers |-> id]

Init ==
    /\ provider \in Providers
    /\ history = <<>> /\ lastToolCallID = NoID /\ due = FALSE /\ uttered = <<>>

-----------------------------------------------------------------------------
(* What the model says, and what the clients make of it *)

\* A Codex stream: the parts one by one, the whole with the last event, or both; it
\* may fail or be cut.  Events that are not understood are passed over.
Stream(parts, form) ==
    LET items == IF form = "final" THEN <<>>
                 ELSE [i \in 1..Len(parts) |-> [event |-> "item", part |-> parts[i]]]
        noise == <<[event |-> "noise"]>>
        end == [event |-> "completed", output |-> IF form = "streamed" THEN <<>> ELSE parts]
    IN  noise \o items \o
        (IF form = "cut" THEN <<>>
         ELSE IF form = "failed" THEN <<[event |-> "failed"]>> ELSE <<end>>)

Failure == [role |-> "error"]

\* Mutant: parts that came one by one are added to the whole.
OutputTwice(streamed, output) == streamed \o output

\* What came one by one counts when the last event has nothing.
Output(streamed, output) == IF output = <<>> THEN streamed ELSE output

\* parseOpenAICodexSSE and codexResponseToMessage.
FromCodex(events) ==
    LET ends == {i \in 1..Len(events) : events[i].event \in {"failed", "completed"}}
        items == Chosen(events, {i \in 1..Len(events) : events[i].event = "item"})
        end == events[Min(ends)]
    IN  IF ends = {} \/ end.event = "failed" THEN Failure
        ELSE Assistant(Output([k \in 1..Len(items) |-> items[k].part], end.output))

\* fromAnthResponse.
FromAnthropic(parts) == Assistant(parts)

-----------------------------------------------------------------------------
(* toAnthMessages, buildOpenAICodexBody *)

\* An assistant's message is one message of blocks; an answer to a tool call is a
\* message of the user.
ToAnthropic(m) ==
    [role |-> IF m.role = "tool" THEN "user" ELSE m.role,
     uses |-> [i \in 1..Len(m.calls) |-> m.calls[i].call],
     answers |-> m.answers.call]

OutputID(id) == id.call

\* Calls and text of a message are items of their own, the calls first.
ToCodex(m) ==
    IF m.role = "tool" THEN <<[type |-> "output", call |-> OutputID(m.answers)]>>
    ELSE IF m.role = "user" THEN <<[type |-> "user"]>>
    ELSE [i \in 1..Len(m.calls) |-> [type |-> "call", call |-> m.calls[i].call]]
         \o (IF m.words # <<>> THEN <<[type |-> "text"]>> ELSE <<>>)

\* The items of a message come after those of the messages before it.
CodexInput == [i \in 1..Len(history) |-> ToCodex(history[i])]
AnthropicMessages == [i \in 1..Len(history) |-> ToAnthropic(history[i])]

-----------------------------------------------------------------------------
(* The event loop and callAndDispatch *)

Room(n) == Len(history) + n <= Turns

\* One message for the events that the C64 sends in a row.
AppendC64LLMEvents ==
    /\ ~due /\ Room(1)
    /\ \E n \in 1..2 : history' = Append(history, User(n))
    /\ due' = TRUE
    /\ UNCHANGED <<provider, lastToolCallID, uttered>>

\* A RESULT, a STATUS or an ERROR of the C64 answers the last tool call, also when
\* that has an answer.  (One that comes before the model has made a call, as a restarted
\* bridge may get it, would be stored with an empty id; none comes here.)
AppendToolResult ==
    /\ ~due /\ Room(1) /\ lastToolCallID # NoID
    /\ history' = Append(history, ToolAnswer(lastToolCallID))
    /\ due' = TRUE
    /\ UNCHANGED <<provider, lastToolCallID, uttered>>

\* A silent answer leaves no trace.  Of several calls the first is carried out; one
\* that cannot be is answered by the bridge, and the model is not asked at once.
Dispatch(m) ==
    IF m.calls = <<>>
    THEN /\ history' = IF m.words = <<>> THEN history ELSE Append(history, m)
         /\ UNCHANGED lastToolCallID
    ELSE /\ lastToolCallID' = Head(m.calls)
         /\ \/ history' = Append(history, m)
            \/ Room(2) /\ history' = history \o <<m, ToolAnswer(lastToolCallID')>>

Used == UNION {ToSet(history[i].calls) : i \in 1..Len(history)}
FreshCall(k) == Call(CallID(Cardinality(Used) + k))

\* Answers of up to two parts.
Answers ==
    LET part(k) == {Text(0), Text(1), FreshCall(k)}
    IN  {<<>>} \union {<<p>> : p \in part(1)} \union (part(1) \X part(2))

\* callAndDispatch: an error of the model ends the call of the user.
CallAndDispatch ==
    /\ due /\ due' = FALSE /\ Room(1)
    /\ \E parts \in Answers, form \in {"streamed", "final", "both", "cut", "failed"} :
        LET m == IF provider = "codex" THEN FromCodex(Stream(parts, form))
                 ELSE IF form = "failed" THEN Failure ELSE FromAnthropic(parts)
        IN  IF m = Failure
            THEN UNCHANGED <<history, lastToolCallID, uttered>>
            ELSE /\ Dispatch(m)
                 /\ uttered' = IF Words(parts) = <<>> /\ Ids(parts) = <<>> THEN uttered
                               ELSE Append(uttered, <<Words(parts), Ids(parts)>>)
    /\ UNCHANGED provider

Next == AppendC64LLMEvents \/ AppendToolResult \/ CallAndDispatch

Spec == Init /\ [][Next]_convVars

-----------------------------------------------------------------------------
(* Properties *)

TypeOK ==
    /\ provider \in Providers /\ due \in BOOLEAN
    /\ Len(history) <= Turns /\ Len(uttered) <= Len(history)
    /\ \A i \in 1..Len(history) : history[i].role \in {"user", "assistant", "tool"}
    /\ {lastToolCallID.call, Cardinality(Used)} \subseteq 0..Turns + Turns

\* What the model gets back of itself is what it said, in order, however its answer
\* was split into events (parseOpenAICodexSSE, codexResponseToMessage, History).
Own == {i \in 1..Len(history) : history[i].role = "assistant"}
OwnWordsKept ==
    /\ Cardinality(Own) = Len(uttered)
    /\ \A i \in Own : <<history[i].words, history[i].calls>> = uttered[Rank(Own, i)]

\* In the form of either interface, an answer to a tool call carries the id of a
\* call that the model has made before it (buildOpenAICodexBody, toAnthMessages,
\* splitOpenAICodexToolCallID).
AnswersPaired ==
    IF provider = "codex"
    THEN \A i \in 1..Len(CodexInput) : \A k \in 1..Len(CodexInput[i]) :
            CodexInput[i][k].type = "output" =>
                \E j \in 1..i - 1 : \E l \in 1..Len(CodexInput[j]) :
                    CodexInput[j][l] = [type |-> "call", call |-> CodexInput[i][k].call]
    ELSE \A i \in 1..Len(AnthropicMessages) : AnthropicMessages[i].answers # 0 =>
            \E j \in 1..i - 1 :
                /\ AnthropicMessages[j].role = "assistant"
                /\ Contains(AnthropicMessages[j].uses, AnthropicMessages[i].answers)

\* The model gets a true conversation back, in the form of either interface.
HistoryTrue == OwnWordsKept /\ AnswersPaired

-----------------------------------------------------------------------------
(* Why it is *)

\* A message of the assistant that has made this call.
MadeBy(m, id) == m.role = "assistant" /\ id \in ToSet(m.calls)

\* A history h in which the model has said u, and made the call `last` last of all.
Coherent(h, u, last) ==
    LET own == {i \in 1..Len(h) : h[i].role = "assistant"}
    IN  /\ h \in Seq(ToSet(h)) /\ u \in Seq(ToSet(u)) /\ Len(u) <= Len(h)
        /\ \A i \in 1..Len(h) :
              /\ h[i].role \in {"user", "assistant", "tool"}
              /\ h[i].calls \in Seq(ToSet(h[i].calls))
              /\ h[i].role = "tool" => \E j \in 1..i - 1 : MadeBy(h[j], h[i].answers)
              /\ h[i].role # "tool" => h[i].answers = NoID
        /\ last # NoID => \E j \in 1..Len(h) : MadeBy(h[j], last)
        /\ Cardinality(own) = Len(u)
        /\ \A i \in own : <<h[i].words, h[i].calls>> = u[Rank(own, i)]

DialogueInv ==
    /\ provider \in Providers /\ due \in BOOLEAN /\ Len(history) <= Turns
    /\ Coherent(history, uttered, lastToolCallID)
=============================================================================
