----------------------------- MODULE Translation -----------------------------
(***************************************************************************)
(* What the gateway does to a request and to its answer: the decoders of   *)
(* the two client protocols, the fidelity envelope, the payloads of the    *)
(* two provider rails, the adapters that turn a provider's chunks into     *)
(* canonical events, and the encoders that turn those into frames          *)
(* (src/protocols, src/core/fidelity.ts, src/providers/direct).            *)
(*                                                                         *)
(* A text is the sequence of its fragments, a fragment a number given once.*)
(* Names, schemas and the inference parameters are left out.               *)
(***************************************************************************)
EXTENDS Integers, FiniteSets, SequencesExt

CONSTANTS
  Slots,     \* the positions of parallel tool calls in a chat answer
  Replays    \* does the chat provider want reasoning beside a replayed call?

ASSUME TranslationAssumption == Slots \subseteq Nat /\ Replays \in BOOLEAN

Nothing == [of |-> 0, n |-> 0, draft |-> FALSE]    \* no opaque value
Unnamed == [of |-> 0, n |-> -1]                    \* an item without an id
ReasoningItem == [of |-> 0, n |-> -2]              \* "reasoning-item"
Local(index) == [of |-> 0, n |-> index]            \* msg_0, rs_1000, fc_1

\* The shapes of what passes through: an id names who gave it and a position.
CanonicalContent ==
  [kind : {"input", "text", "reasoning", "call", "result"}, id : [of : Nat, n : Int],
   parts : Seq(Nat), secret : [of : Nat, n : Nat, draft : BOOLEAN]]
CanonicalMessage == [role : {"user", "assistant"}, content : Seq(CanonicalContent)]
OpaqueArtifact == [kind : {"encrypted", "signature"}, at : [of : Nat, n : Int], value : [of : Nat, n : Nat, draft : BOOLEAN]]
FidelityEnvelope == [artifacts : Seq(OpaqueArtifact), required : SUBSET {"encrypted", "signature"}]
CanonicalRequest == [messages : Seq(CanonicalMessage), fidelity : FidelityEnvelope]

Item(kind, id, parts, secret) == [kind |-> kind, id |-> id, parts |-> parts, secret |-> secret]
Bare(item) == [item EXCEPT !.secret = Nothing]
Author(item) == IF item.kind \in {"input", "result"} THEN "user" ELSE "assistant"
Message(role, content) == [role |-> role, content |-> content]
Put(items, index, item) == [i \in DOMAIN items \cup {index} |-> IF i = index THEN item ELSE items[i]]
Contents(messages) == FlattenSeq([i \in DOMAIN messages |-> messages[i].content])
InOrder(items) ==
  LET Rank(index) == Cardinality({other \in DOMAIN items : other <= index})
  IN [n \in 1..Cardinality(DOMAIN items) |-> items[CHOOSE index \in DOMAIN items : Rank(index) = n]]
OfKind(items, kinds) == InOrder(Restrict(items, {i \in DOMAIN items : items[i].kind \in kinds}))
Sealed(items) ==
  InOrder(Restrict(items, {i \in DOMAIN items : items[i].kind = "reasoning" /\ items[i].secret # Nothing}))

-----------------------------------------------------------------------------
(* The fidelity envelope. *)

NoFidelity == [artifacts |-> <<>>, required |-> {}]
Artifact(kind, at, value) == [kind |-> kind, at |-> at, value |-> value]

MergeFidelity(base, extra) ==
  [artifacts |-> base.artifacts \o extra.artifacts, required |-> base.required \cup extra.required]

\* The first artifact of the association wins.
ArtifactValue(artifacts, kind, at) ==
  LET found == {i \in DOMAIN artifacts : artifacts[i].kind = kind /\ artifacts[i].at = at}
  IN IF found = {} THEN Nothing ELSE artifacts[Min(found)].value

UnsupportedRequired(envelope, supported) == envelope.required \ supported

-----------------------------------------------------------------------------
(* The decoders. A client's message holds items with their opaque values.  *)

\* Encrypted reasoning moves to the envelope; every item is a message.
DecodeResponses(items) ==
  LET secret == Sealed(items)
      At(item) == IF item.id = Unnamed THEN ReasoningItem ELSE item.id
  IN [messages |-> [i \in DOMAIN items |-> Message(Author(items[i]), <<Bare(items[i])>>)],
      fidelity |-> [artifacts |-> [i \in DOMAIN secret |-> Artifact("encrypted", At(secret[i]), secret[i].secret)],
                    required |-> IF secret = <<>> THEN {} ELSE {"encrypted"}]]

\* A thinking block's signature moves to the envelope, under its position.
DecodeAnthropic(messages) ==
  LET Signed(m) == {b \in DOMAIN messages[m].content : messages[m].content[b].secret # Nothing}
      In(m) == InOrder([b \in Signed(m) |->
                          Artifact("signature", [of |-> m, n |-> b], messages[m].content[b].secret)])
      all == FlattenSeq([m \in DOMAIN messages |-> In(m)])
  IN [messages |-> [m \in DOMAIN messages |->
                      [messages[m] EXCEPT !.content = [b \in DOMAIN @ |-> Bare(@[b])]]],
      fidelity |-> [artifacts |-> all, required |-> IF all = <<>> THEN {} ELSE {"signature"}]]

-----------------------------------------------------------------------------
(* The payloads. *)

\* A message with tool results becomes those alone.
ChatMessage(message) ==
  LET results == OfKind(message.content, {"result"})
      calls == OfKind(message.content, {"call"})
      reasoning == OfKind(message.content, {"reasoning"})
  IN IF results # <<>>
     THEN [i \in DOMAIN results |-> [content |-> <<results[i]>>, reasoning |-> <<>>]]
     ELSE <<[content |-> OfKind(message.content, {"input", "text", "call"}),
             reasoning |-> IF Replays /\ calls # <<>> THEN reasoning ELSE <<>>]>>

ToChatMessages(messages) == FlattenSeq([i \in DOMAIN messages |-> ChatMessage(messages[i])])

\* An item of reasoning gets its encrypted content back by its id.
ResponsesInput(messages, fidelity) ==
  LET items == Contents(messages)
      Restored(item) ==
        IF item.kind = "reasoning" /\ item.id # Unnamed
        THEN [item EXCEPT !.secret = ArtifactValue(fidelity.artifacts, "encrypted", item.id)]
        ELSE item
  IN [i \in DOMAIN items |-> [content |-> <<Restored(items[i])>>, reasoning |-> <<>>]]

-----------------------------------------------------------------------------
(* Canonical events. *)

Started == [type |-> "response-started"]
Opened(index, kind, id) == [type |-> "content-started", index |-> index, kind |-> kind, id |-> id]
Delta(index, kind, part) == [type |-> "delta", index |-> index, kind |-> kind, part |-> part]
Deltas(index, kind, parts) == [i \in DOMAIN parts |-> Delta(index, kind, parts[i])]
Closed(index) == [type |-> "content-completed", index |-> index]
Artifacts(artifacts) == [type |-> "fidelity-artifacts", artifacts |-> artifacts]
Usage == [type |-> "usage-updated"]
Completed == [type |-> "response-completed"]
When(condition, events) == IF condition THEN events ELSE <<>>
WholeItem(index, item) ==
  <<Opened(index, item.kind, item.id)>> \o Deltas(index, item.kind, item.parts) \o <<Closed(index)>>

\* An adapter's step: its state, what it yields, and whether it throws then.
Yields(state, events) == [state |-> state, events |-> events, throws |-> FALSE]
Throws(state, events) == [state |-> state, events |-> events, throws |-> TRUE]

-----------------------------------------------------------------------------
(* The Chat Completions adapter. Text has index 0, reasoning 1000, and the *)
(* call of slot s has index s + 1.                                         *)

RailState ==
  [started : BOOLEAN, completed : BOOLEAN, open : SUBSET Nat, artifacts : Seq(OpaqueArtifact),
   pending : [Slots -> Seq(Nat)], commitment : {"unknown", "provider-accepted", "tool-boundary"}]

FreshAdapter == [started |-> FALSE, completed |-> FALSE, open |-> {}, artifacts |-> <<>>,
          pending |-> [s \in Slots |-> <<>>], commitment |-> "unknown"]
IndexOf(kind) == IF kind = "text" THEN 0 ELSE 1000

ChatDelta(chat, kind, part) ==
  LET index == IndexOf(kind)
  IN Yields([chat EXCEPT !.open = @ \cup {index}],
            When(index \notin chat.open, <<Opened(index, kind, Unnamed)>>)
              \o <<Delta(index, kind, part)>>)

BugChatCall(chat, slot, id, named, parts) ==
  LET index == slot + 1
      opens == named /\ index \notin chat.open
  IN Yields([chat EXCEPT !.open = IF opens THEN @ \cup {index} ELSE @],
            When(opens, <<Opened(index, "call", id)>>)
              \o When(opens \/ index \in chat.open, Deltas(index, "call", parts)))

\* Arguments wait for the name of their function.
ChatCall(chat, slot, id, named, parts) ==
  LET index == slot + 1
      opens == named /\ index \notin chat.open
      isOpen == opens \/ index \in chat.open
  IN Yields([chat EXCEPT !.open = IF opens THEN @ \cup {index} ELSE @,
                         !.pending[slot] = IF opens THEN <<>> ELSE IF isOpen THEN @ ELSE @ \o parts],
            When(opens, <<Opened(index, "call", id)>> \o Deltas(index, "call", chat.pending[slot]))
              \o When(isOpen, Deltas(index, "call", parts)))

ChatFinish(chat, usage) ==
  LET open == SetToSeq(chat.open)
      before == When(usage, <<Usage>>)
  IN IF \E s \in Slots : chat.pending[s] # <<>> THEN Throws(chat, before)
     ELSE Yields([chat EXCEPT !.open = {}, !.completed = TRUE],
                 before \o [i \in DOMAIN open |-> Closed(open[i])] \o <<Completed>>)

\* The body ended: a stream that did not finish is an error.
ChatEnd(chat) == IF chat.completed THEN Yields(chat, <<>>) ELSE Throws(chat, <<>>)

\* The first chunk starts the response.
ChatChunk(chat, step) ==
  [step EXCEPT !.state.started = TRUE,
               !.events = When(~chat.started, <<Started>>) \o @]

\* An answer that is not streamed: its reasoning is not read.
ChatBody(chat, items) ==
  LET read == InOrder([index \in {i \in DOMAIN items : items[i].kind # "reasoning"} |->
                         WholeItem(index, items[index])])
  IN Yields(chat, <<Started>> \o FlattenSeq(read) \o <<Usage, Completed>>)

-----------------------------------------------------------------------------
(* The Responses rail. *)

Capture(artifacts, item) ==
  LET found == Artifact("encrypted", item.id, item.secret)
  IN IF \/ item.kind # "reasoning" \/ item.secret = Nothing
        \/ \E i \in DOMAIN artifacts : artifacts[i] = found
     THEN artifacts ELSE Append(artifacts, found)

RailCreated(rail) ==
  Yields([rail EXCEPT !.started = TRUE], When(~rail.started, <<Started>>))

\* A tool call is committed once the client may have seen it.
RailOpens(rail, index, kind) ==
  [rail EXCEPT !.open = @ \cup {index},
               !.commitment = IF kind = "call" THEN "tool-boundary" ELSE @]

RailAdded(rail, index, item) ==
  Yields([RailOpens(rail, index, item.kind) EXCEPT !.artifacts = Capture(@, item)],
         <<Opened(index, item.kind, item.id)>> \o Deltas(index, item.kind, item.parts))

RailDelta(rail, index, kind, part) ==
  Yields(RailOpens(rail, index, kind),
         When(index \notin rail.open, <<Opened(index, kind, Unnamed)>>)
           \o <<Delta(index, kind, part)>>)

RailDone(rail, index) ==
  Yields([rail EXCEPT !.open = @ \ {index}], When(index \in rail.open, <<Closed(index)>>))

CaptureAll(artifacts, items) == FoldLeft(Capture, artifacts, InOrder(items))

RailCompleted(rail, items) ==
  LET artifacts == CaptureAll(rail.artifacts, items)
  IN Yields([rail EXCEPT !.completed = TRUE, !.artifacts = <<>>],
            When(artifacts # <<>>, <<Artifacts(artifacts)>>) \o <<Usage, Completed>>)

RailFailed(rail, items) ==
  LET artifacts == CaptureAll(rail.artifacts, items)
  IN Throws([rail EXCEPT !.completed = TRUE, !.artifacts = <<>>],
            When(artifacts # <<>>, <<Artifacts(artifacts)>>))

RailEnd(rail) == IF rail.started /\ rail.completed THEN Yields(rail, <<>>) ELSE Throws(rail, <<>>)

RailBody(rail, items) ==
  LET artifacts == CaptureAll(<<>>, items)
      whole == InOrder([index \in DOMAIN items |-> WholeItem(index, items[index])])
  IN Yields(rail, <<Started>> \o FlattenSeq(whole)
                    \o When(artifacts # <<>>, <<Artifacts(artifacts)>>) \o <<Usage, Completed>>)

-----------------------------------------------------------------------------
(* The encoders: what is open, the aggregate, and the frames of an event.  *)

\* What is open is also part of the aggregate.
EncodeContext(encoder) ==
  /\ encoder.open \subseteq DOMAIN encoder.items /\ encoder.throws \in BOOLEAN
  /\ \A index \in DOMAIN encoder.items : encoder.items[index] \in CanonicalContent
  /\ encoder.artifacts \in Seq(OpaqueArtifact)

NewEncoder == [open |-> {}, items |-> <<>>, artifacts |-> <<>>, frames |-> <<>>, throws |-> FALSE]

StartItem(event) ==
  Item(event.kind, IF event.id = Unnamed THEN Local(event.index) ELSE event.id, <<>>, Nothing)

ApplyAggregate(encoder, event) ==
  CASE event.type = "content-started" ->
         [encoder EXCEPT !.items = Put(@, event.index, StartItem(event))]
    [] event.type = "delta" /\ event.index \in DOMAIN encoder.items ->
         [encoder EXCEPT !.items[event.index].parts =
            IF encoder.items[event.index].kind = event.kind THEN Append(@, event.part) ELSE @]
    [] event.type = "fidelity-artifacts" -> [encoder EXCEPT !.artifacts = @ \o event.artifacts]
    [] OTHER -> encoder

\* Opaque values join the item they are associated with.
FinalizeAggregate(encoder) ==
  [index \in DOMAIN encoder.items |->
     LET item == encoder.items[index]
     IN IF item.kind # "reasoning" THEN item
        ELSE [item EXCEPT !.secret = ArtifactValue(encoder.artifacts, "encrypted", item.id)]]

\* Both encoders emit the frames of a block alike, under their own names; the
\* Anthropic one also tells the usage, the Responses one ends with the output.
FramesOf(protocol, encoder, event) ==
  CASE event.type = "response-started" -> <<[type |-> "created"]>>
    [] event.type = "content-started" ->
         <<[type |-> "start", index |-> event.index, item |-> StartItem(event)]>>
    [] event.type = "delta" -> <<[type |-> "delta", index |-> event.index, part |-> event.part]>>
    [] event.type = "content-completed" -> <<[type |-> "stop", index |-> event.index]>>
    [] event.type = "usage-updated" -> When(protocol = "anthropic", <<[type |-> "usage"]>>)
    [] event.type = "fidelity-artifacts" -> <<>>
    [] OTHER -> <<[type |-> "end", output |-> FinalizeAggregate(encoder)]>>

Encode(protocol, encoder, event) ==
  LET next == ApplyAggregate(encoder, event)
      misplaced == event.type = "content-completed" /\ event.index \notin encoder.open
  IN IF encoder.throws \/ misplaced THEN [encoder EXCEPT !.throws = TRUE]
     ELSE [next EXCEPT !.open = CASE event.type = "content-started" -> @ \cup {event.index}
                                  [] event.type = "content-completed" -> @ \ {event.index}
                                  [] OTHER -> @,
                       !.frames = @ \o FramesOf(protocol, next, event)]

\* The frames of the events of one chunk.
EncodeAll(protocol, encoder, events) ==
  FoldLeft(LAMBDA state, event : Encode(protocol, state, event),
           [encoder EXCEPT !.frames = <<>>], events)

\* A clean end has nothing open.
Finish(encoder) == encoder.open = {}
==============================================================================
