----------------------------- MODULE Conversation -----------------------------
(***************************************************************************)
(* The exchanges of a conversation: a client asks, by its whole history or *)
(* by the id of a stored response; the gateway decodes, continues and      *)
(* posts the request; the provider's chunks come back as frames; a         *)
(* complete response is stored for the next turn (src/routes,              *)
(* src/protocols/openai-responses/continuation.ts).                        *)
(*                                                                         *)
(* Exchanges follow one another: two of them share only the stored         *)
(* responses, each read once before its request is posted and written once *)
(* after its last frame, by an atomic rename.                              *)
(***************************************************************************)
EXTENDS Translation

CONSTANTS
  MaxTurns,    \* bound: exchanges
  MaxParts,    \* bound: fragments of each exchange's streamed answer
  Anonymous,   \* may a provider leave its response without an id?
  Drafts       \* may a reasoning item be announced with a value not final?

ASSUME ConversationAssumption ==
  /\ MaxTurns \in Nat \ {0} /\ MaxParts \in [1..MaxTurns -> Nat]
  /\ {Anonymous, Drafts} \subseteq BOOLEAN

VARIABLES
  past,      \* the exchanges the client remembers
  stored,    \* the response store: response id -> record
  exchange,  \* the exchange under way, as the route and the adapter hold it
  answer,    \* the provider's answer so far: index -> item
  adapter,   \* the adapter's state
  encoder,   \* the encoder's state
  client     \* what the client made of the frames

conversationVars == <<past, stored, exchange, answer, adapter, encoder, client>>

StoredResponse == [some : BOOLEAN, messages : Seq(CanonicalMessage), fidelity : FidelityEnvelope]
NoRecord == [some |-> FALSE, messages |-> <<>>, fidelity |-> NoFidelity]
NoOne == [blocks |-> <<>>, open |-> {}, ended |-> "no", misled |-> FALSE, late |-> FALSE]
NoExchange == [phase |-> "over", protocol |-> "anthropic", native |-> FALSE, stream |-> TRUE,
               keep |-> FALSE, memory |-> <<>>, wire |-> <<>>, messages |-> <<>>,
               fidelity |-> NoFidelity, sent |-> <<>>, id |-> 0, number |-> 0,
               commitment |-> "none"]

ConversationInit ==
  /\ past = <<>>
  /\ stored = [id \in 0..MaxTurns |-> NoRecord]
  /\ exchange = NoExchange
  /\ answer = <<>>
  /\ adapter = FreshAdapter
  /\ encoder = NewEncoder
  /\ client = NoOne

BetweenExchanges == exchange.phase = "over"
Now == exchange.number

-----------------------------------------------------------------------------
(* The client asks, and the route answers or posts.                        *)

\* Reasoning the client got from another provider, with an opaque value.
Foreign == <<Message("user", <<Item("input", Unnamed, <<1>>, Nothing)>>),
             Message("assistant", <<Item("reasoning", [of |-> 0, n |-> 1], <<2>>,
                                         [of |-> 0, n |-> 1, draft |-> FALSE])>>)>>

\* A client answers the calls it was given, says something new, or both at once.
Says(calls, mixed) ==
  [i \in DOMAIN calls |-> Item("result", calls[i].id, <<>>, Nothing)]
    \o When(calls = <<>> \/ mixed, <<Item("input", Unnamed, <<10 * (Now + 1)>>, Nothing)>>)

\* A client may leave the ids out of the reasoning it resends, from then on.
Resent(messages) ==
  [m \in DOMAIN messages |->
     [messages[m] EXCEPT !.content =
        [i \in DOMAIN @ |-> IF @[i].kind = "reasoning" THEN [@[i] EXCEPT !.id = Unnamed] ELSE @[i]]]]

\* The stored conversation, followed by what the client adds to it.
Apply(record, decoded) ==
  [messages |-> record.messages \o decoded.messages,
   fidelity |-> MergeFidelity(record.fidelity, decoded.fidelity)]

Payload(native, request) ==
  IF native THEN ResponsesInput(request.messages, request.fidelity)
  ELSE ToChatMessages(request.messages)
Carries(native) == IF native THEN {"encrypted"} ELSE {}

Ask(protocol, native, stream, keep, from, byId, foreign, mixed, nameless) ==
  LET known == CASE from > 0 -> past[from].memory
                 [] foreign -> Foreign
                 [] OTHER -> <<>>
      before == IF nameless THEN Resent(known) ELSE known
      new == Says(IF from > 0 THEN past[from].calls ELSE <<>>, mixed)
      memory == before \o (IF protocol = "anthropic" THEN <<Message("user", new)>>
                           ELSE [i \in DOMAIN new |-> Message("user", <<new[i]>>)])
      wire == IF byId THEN new ELSE Contents(memory)
      decoded == IF protocol = "anthropic" THEN DecodeAnthropic(memory) ELSE DecodeResponses(wire)
      record == IF byId THEN stored[past[from].id] ELSE NoRecord
      request == IF byId THEN Apply(record, decoded) ELSE decoded
      refused == \/ byId /\ ~record.some
                 \/ UnsupportedRequired(request.fidelity, Carries(native)) # {}
  IN /\ BetweenExchanges /\ Now < MaxTurns
     /\ exchange' = [phase |-> IF refused THEN "over" ELSE "posted",
                     protocol |-> protocol, native |-> native, stream |-> stream, keep |-> keep,
                     memory |-> memory, wire |-> wire,
                     messages |-> request.messages, fidelity |-> request.fidelity,
                     sent |-> IF refused THEN <<>> ELSE Payload(native, request),
                     id |-> Now + 1, number |-> Now + 1,
                     commitment |-> "none"]
     /\ answer' = <<>>
     /\ adapter' = FreshAdapter
     /\ encoder' = NewEncoder
     /\ client' = [NoOne EXCEPT !.ended = IF refused THEN "error" ELSE "no"]
     /\ UNCHANGED <<past, stored>>

\* A conversation stays with its protocol; only a Responses client, and only on
\* a route that has it, is served by the Responses rail.
Asks ==
  \E protocol \in {"anthropic", "responses"}, native, stream, keep, byId, foreign, mixed, nameless \in BOOLEAN,
     from \in 0..Len(past) :
       /\ from > 0 => past[from].protocol = protocol
       /\ protocol = "anthropic" => ~native /\ ~keep /\ ~byId /\ ~nameless
       /\ byId => from > 0 /\ ~nameless
       /\ foreign => from = 0
       /\ mixed => from > 0 /\ past[from].calls # <<>>
       /\ Ask(protocol, native, stream, keep, from, byId, foreign, mixed, nameless)

-----------------------------------------------------------------------------
(* The answer to the post.                                                 *)

Failures == {"refused", "reset", "timeout", "rejected", "conflict", "broken"}

\* A 4xx other than 408 and 409, or a connection that failed, was not sent.
FailureCommitment(failure) ==
  IF failure \in {"refused", "reset", "rejected"} THEN "not-sent" ELSE "unknown"

PostFails(failure) ==
  /\ exchange.phase = "posted"
  /\ exchange' = [exchange EXCEPT !.phase = "over", !.commitment = FailureCommitment(failure)]
  /\ client' = [client EXCEPT !.ended = "error"]
  /\ UNCHANGED <<past, stored, answer, adapter, encoder>>

\* The provider accepts; on the rail that is known from here on.
PostSucceeds ==
  /\ exchange.phase = "posted"
  /\ \E id \in {Now} \cup (IF Anonymous THEN {0} ELSE {}) :
       exchange' = [exchange EXCEPT !.phase = "streaming", !.id = id]
  /\ adapter' = [adapter EXCEPT !.commitment = IF exchange.native THEN "provider-accepted" ELSE @]
  /\ UNCHANGED <<past, stored, answer, encoder, client>>

-----------------------------------------------------------------------------
(* A chunk passes through the adapter and the encoder to the client.       *)

\* A client keeps its blocks by their index and believes the last output.
Read(view, frame) ==
  LET after == [view EXCEPT !.misled = @ \/ view.ended # "no"]
  IN CASE frame.type = "start" ->
            [after EXCEPT !.blocks = Put(@, frame.index, frame.item),
                          !.open = @ \cup {frame.index},
                          !.misled = @ \/ frame.index \in DOMAIN view.blocks]
       [] frame.type = "delta" /\ frame.index \in view.open ->
            [after EXCEPT !.blocks[frame.index].parts = Append(@, frame.part)]
       [] frame.type = "stop" /\ frame.index \in view.open ->
            [after EXCEPT !.open = @ \ {frame.index}]
       [] frame.type = "end" ->
            [after EXCEPT !.ended = "end", !.misled = @ \/ view.open # {},
                          !.blocks = IF exchange.protocol = "responses" THEN frame.output ELSE @]
       [] frame.type = "created" -> after
       [] frame.type = "usage" -> [view EXCEPT !.late = @ \/ view.ended # "no"]
       [] OTHER -> [after EXCEPT !.misled = TRUE]

MessagesFromOutput(output) ==
  LET items == InOrder(output)
      said == InOrder(Restrict(items, {i \in DOMAIN items : items[i].kind # "text" \/ items[i].parts # <<>>}))
  IN [i \in DOMAIN said |-> Message("assistant", <<Bare(said[i])>>)]

BugFidelityForStorage(fidelity, output) == fidelity

\* The opaque values of the output join those of the request.
FidelityForStorage(fidelity, output) ==
  LET secret == Sealed(InOrder(output))
  IN IF secret = <<>> THEN fidelity
     ELSE MergeFidelity(fidelity,
            [artifacts |-> [i \in DOMAIN secret |-> Artifact("encrypted", secret[i].id, secret[i].secret)],
             required |-> {}])

\* Only a Responses exchange whose client did not decline is stored.
Remember(output) ==
  stored' = IF exchange.protocol = "responses" /\ exchange.keep
            THEN [stored EXCEPT ![exchange.id] =
                    [some |-> TRUE,
                     messages |-> exchange.messages \o MessagesFromOutput(output),
                     fidelity |-> FidelityForStorage(exchange.fidelity, output)]]
            ELSE stored

\* What the client will say it was answered, should it go on.
Recalls(view) ==
  LET items == InOrder(view.blocks)
  IN past' = Append(past,
       [protocol |-> exchange.protocol, id |-> exchange.id, calls |-> OfKind(items, {"call"}),
        memory |-> exchange.memory \o (IF exchange.protocol = "anthropic" THEN <<Message("assistant", items)>>
                                   ELSE [i \in DOMAIN items |-> Message("assistant", <<items[i]>>)])])

\* The adapter or the encoder threw: the client gets an error frame.
Passes(step) ==
  LET coded == EncodeAll(exchange.protocol, encoder, step.events)
      read == FoldLeft(Read, client, coded.frames)
      fails == step.throws \/ coded.throws
  IN /\ adapter' = step.state
     /\ encoder' = [coded EXCEPT !.frames = <<>>]
     /\ client' = IF fails THEN [read EXCEPT !.ended = "error", !.misled = @ \/ read.ended = "end"] ELSE read
     /\ exchange' = IF fails THEN [exchange EXCEPT !.phase = "over", !.commitment = step.state.commitment] ELSE exchange

\* The body ended: the encoder accepts the end, and the response is stored.
BodyEnds(step) ==
  IF step.throws \/ ~Finish(encoder)
  THEN Passes([step EXCEPT !.throws = TRUE]) /\ UNCHANGED <<past, stored>>
  ELSE /\ exchange' = [exchange EXCEPT !.phase = "over"]
       /\ Remember(FinalizeAggregate(encoder))
       /\ Recalls(client)
       /\ UNCHANGED <<adapter, encoder, client>>

Receives(step) == Passes(step) /\ UNCHANGED <<past, stored>>

\* The whole answer at once: its events are collected, then aggregated.
Answers(step) ==
  LET coded == EncodeAll(exchange.protocol, encoder, step.events)
      view == [client EXCEPT !.blocks = FinalizeAggregate(coded), !.ended = "end"]
  IN /\ adapter' = step.state
     /\ encoder' = [coded EXCEPT !.frames = <<>>]
     /\ client' = view
     /\ exchange' = [exchange EXCEPT !.phase = "over"]
     /\ Remember(FinalizeAggregate(coded))
     /\ Recalls(view)

-----------------------------------------------------------------------------
(* The provider. *)

Answering(native) == exchange.phase = "streaming" /\ exchange.stream /\ exchange.native = native
Given == Len(FlattenSeq(InOrder([index \in DOMAIN answer |-> answer[index].parts])))
Part == 10 * Now + Given + 1
More == Given < MaxParts[Now]
Provided(index) == [of |-> Now, n |-> index]
Encrypted(index) == [of |-> Now, n |-> index, draft |-> FALSE]

Grows(index, item) ==
  answer' = IF index \in DOMAIN answer THEN [answer EXCEPT ![index].parts = @ \o item.parts]
            ELSE Put(answer, index, item)

ChatSaysMore ==
  /\ Answering(FALSE) /\ More /\ ~adapter.completed
  /\ \E kind \in {"text", "reasoning"} :
       /\ Grows(IndexOf(kind), Item(kind, Unnamed, <<Part>>, Nothing))
       /\ Receives(ChatChunk(adapter, ChatDelta(adapter, kind, Part)))

\* The name of a function comes once, with arguments or without.
ChatCalls ==
  /\ Answering(FALSE) /\ ~adapter.completed
  /\ \E slot \in Slots, named \in BOOLEAN, parts \in {<<>>} \cup (IF More THEN {<<Part>>} ELSE {}) :
       /\ named => slot + 1 \notin adapter.open
       /\ named \/ parts # <<>>
       /\ Grows(slot + 1, Item("call", Provided(slot + 1), parts, Nothing))
       /\ Receives(ChatChunk(adapter, ChatCall(adapter, slot, Provided(slot + 1), named, parts)))

ChatFinishes ==
  /\ Answering(FALSE) /\ ~adapter.completed
  /\ \E usage \in BOOLEAN : Receives(ChatChunk(adapter, ChatFinish(adapter, usage)))
  /\ UNCHANGED answer

\* The adapter asks for the usage, which may come after the finish.
ChatUsageLate ==
  /\ Answering(FALSE) /\ adapter.completed
  /\ Receives(ChatChunk(adapter, Yields(adapter, <<Usage>>)))
  /\ UNCHANGED answer

\* The body ends, complete or cut; a last record without its blank line is lost.
ChatEnds ==
  /\ Answering(FALSE)
  /\ BodyEnds(ChatEnd(adapter))
  /\ UNCHANGED answer

\* The indices and the items of a chat answer that is not streamed.
ChatIndices == {0, 1000} \cup {slot + 1 : slot \in Slots}
ChatItems(at) ==
  LET Kind(index) == CASE index = 0 -> "text" [] index = 1000 -> "reasoning" [] OTHER -> "call"
  IN [index \in at |-> Item(Kind(index), Provided(index), <<10 * Now + 1 + (index % 7)>>, Nothing)]

ChatAnswers ==
  /\ exchange.phase = "streaming" /\ ~exchange.stream /\ ~exchange.native
  /\ \E at \in SUBSET ChatIndices :
       /\ IsFiniteSet(at)
       /\ answer' = ChatItems(at)
       /\ Answers(ChatBody(adapter, answer'))

\* A response is created before its items, and an item added before its deltas.
RailStarts ==
  /\ Answering(TRUE) /\ ~adapter.started
  /\ Receives(RailCreated(adapter))
  /\ UNCHANGED answer

RailAdds ==
  /\ Answering(TRUE) /\ adapter.started /\ ~adapter.completed
  /\ Cardinality(DOMAIN answer) < MaxParts[Now]
  /\ \E kind \in {"text", "reasoning", "call"}, parts \in {<<>>} \cup (IF More THEN {<<Part>>} ELSE {}) :
       LET index == Cardinality(DOMAIN answer)
       IN \E final \in {Nothing} \cup (IF kind = "reasoning" THEN {Encrypted(index)} ELSE {}) :
          \E early \in {Nothing, final} \cup (IF Drafts /\ final # Nothing THEN {[final EXCEPT !.draft = TRUE]} ELSE {}) :
            /\ Grows(index, Item(kind, Provided(index), parts, final))
            /\ Receives(RailAdded(adapter, index, Item(kind, Provided(index), parts, early)))

RailSaysMore ==
  /\ Answering(TRUE) /\ More
  /\ \E index \in adapter.open :
       /\ Grows(index, [answer[index] EXCEPT !.parts = <<Part>>])
       /\ Receives(RailDelta(adapter, index, answer[index].kind, Part))

RailFinishesItem ==
  /\ Answering(TRUE)
  /\ \E index \in adapter.open : Receives(RailDone(adapter, index))
  /\ UNCHANGED answer

RailCompletes ==
  /\ Answering(TRUE) /\ adapter.started /\ ~adapter.completed /\ adapter.open = {}
  /\ Receives(RailCompleted(adapter, answer))
  /\ UNCHANGED answer

RailFails ==
  /\ Answering(TRUE) /\ ~adapter.completed
  /\ Receives(RailFailed(adapter, answer))
  /\ UNCHANGED answer

RailEnds ==
  /\ Answering(TRUE)
  /\ BodyEnds(RailEnd(adapter))
  /\ UNCHANGED answer

RailAnswers ==
  /\ exchange.phase = "streaming" /\ ~exchange.stream /\ exchange.native
  /\ \E kinds \in {<<"text">>, <<"reasoning", "call">>, <<"reasoning", "text">>}, opaque \in BOOLEAN :
       LET items == [index \in 0..(Len(kinds) - 1) |->
                       Item(kinds[index + 1], Provided(index), <<10 * Now + index + 1>>,
                            IF opaque /\ kinds[index + 1] = "reasoning" THEN Encrypted(index) ELSE Nothing)]
       IN /\ answer' = items
          /\ Answers(RailBody(adapter, items))

-----------------------------------------------------------------------------
ConversationNext ==
  \/ Asks
  \/ \E failure \in Failures : PostFails(failure)
  \/ PostSucceeds
  \/ ChatSaysMore
  \/ ChatCalls
  \/ ChatFinishes
  \/ ChatUsageLate
  \/ ChatEnds
  \/ ChatAnswers
  \/ RailStarts
  \/ RailAdds
  \/ RailSaysMore
  \/ RailFinishesItem
  \/ RailCompletes
  \/ RailFails
  \/ RailEnds
  \/ RailAnswers

ConversationSpec == ConversationInit /\ [][ConversationNext]_conversationVars

-----------------------------------------------------------------------------
(* Properties. *)

ConversationTypeOK ==
  /\ \A i \in DOMAIN past : past[i].memory \in Seq(CanonicalMessage) /\ past[i].calls \in Seq(CanonicalContent)
  /\ stored \in [0..MaxTurns -> StoredResponse]
  /\ exchange.phase \in {"over", "posted", "streaming"} /\ exchange.number \in 0..MaxTurns
  /\ [messages |-> exchange.messages, fidelity |-> exchange.fidelity] \in CanonicalRequest
  /\ \A index \in DOMAIN answer : answer[index] \in CanonicalContent
  /\ adapter \in RailState
  /\ EncodeContext(encoder)
  /\ client.ended \in {"no", "end", "error"} /\ client.open \subseteq DOMAIN client.blocks

Said(item) == <<item.kind, item.parts, item.secret>>
SaidAll(items) == [i \in DOMAIN items |-> Said(items[i])]
Posted == exchange.sent # <<>>
SentItems == FlattenSeq([i \in DOMAIN exchange.sent |-> exchange.sent[i].content])
Opaque(items) == {items[i].secret : i \in DOMAIN items} \ {Nothing}

\* What the client holds of a streamed answer is a prefix of what the provider
\* gave, block by block; once told that it is complete it holds all of it, each
\* reasoning item of the rail with its own opaque value, and hears no more but
\* the usage.
\* (A chat answer that is not streamed loses its reasoning.)
DeliveredWhole ==
  LET rail == exchange.native /\ exchange.protocol = "responses"
      given == [index \in {i \in DOMAIN answer : exchange.stream \/ rail \/ answer[i].kind # "reasoning"} |->
                  answer[index]]
  IN /\ ~client.misled
     /\ \A index \in DOMAIN client.blocks :
          /\ index \in DOMAIN given
          /\ client.blocks[index].kind = given[index].kind
          /\ IsPrefix(client.blocks[index].parts, given[index].parts)
     /\ client.ended = "end" =>
          /\ encoder.open = {}
          /\ [i \in DOMAIN client.blocks |-> Said(client.blocks[i])]
               = [i \in DOMAIN given |-> Said(given[i])]

Heard(items) == InOrder(Restrict(items, {i \in DOMAIN items : items[i].kind # "text" \/ items[i].parts # <<>>}))

\* On the rail, reasoning without an id goes without its opaque value
\* (openai-responses-adapter.ts:458).
Restorable(items) ==
  [i \in DOMAIN items |-> IF items[i].kind = "reasoning" /\ items[i].id = Unnamed THEN Bare(items[i]) ELSE items[i]]

\* A chat provider is told the tool results of a message and nothing beside
\* them (openai-chat-adapter.ts:33), or else all of it but its reasoning.
Tellable(messages) ==
  [m \in DOMAIN messages |->
     LET results == OfKind(messages[m].content, {"result"})
     IN [content |-> IF results # <<>> THEN results ELSE OfKind(messages[m].content, {"input", "text", "call"})]]

\* The provider is sent the whole conversation as the client knows it, each
\* item once and in order with its own opaque value, whether the client resent
\* it or named a stored response, but for what its protocol cannot be told.
\* (An empty text is not stored.)
HistoryReplayed ==
  Posted =>
    SaidAll(Heard(SentItems)) =
      SaidAll(Heard(IF exchange.native THEN Restorable(Contents(exchange.memory))
                    ELSE Contents(Tellable(exchange.memory))))

\* An opaque value the client sent reaches the provider, or the request fails;
\* on the rail, that of an item with an id.
RequiredNeverDropped ==
  Posted => Opaque(IF exchange.native THEN Restorable(exchange.wire) ELSE exchange.wire) \subseteq Opaque(SentItems)

\* Nothing of a conversation is lost between its client and the provider.
ConversationKept == HistoryReplayed /\ RequiredNeverDropped

\* decoder.ts:216-219: an opaque value the client sent must fail closed.
RequiredFailsClosed == Posted => Opaque(exchange.wire) \subseteq Opaque(SentItems)

\* What the client says beside a tool result is said.
SaidBesideResults ==
  Posted /\ ~exchange.native =>
    SaidAll(Heard(SentItems)) =
      SaidAll(Heard(OfKind(Contents(exchange.memory), {"input", "text", "call", "result"})))

\* An opaque value of the conversation reaches the provider, or the request fails.
ContinuationNotDropped == Posted => Opaque(Contents(exchange.memory)) \subseteq Opaque(SentItems)

\* A provider that wants reasoning beside a replayed call gets it.
CallsCarryReasoning ==
  Posted /\ ~exchange.native /\ Replays =>
    LET reasoned == OfKind(Contents(exchange.memory), {"reasoning"})
        called == OfKind(Contents(exchange.memory), {"call"})
    IN reasoned # <<>> /\ called # <<>> => \E i \in DOMAIN exchange.sent : exchange.sent[i].reasoning # <<>>

\* conformance-corpus.test.ts:134: message_stop ends an answer.
EndIsLast == ~client.late

\* A stored response belongs to the conversation it was given in.
RecordsKept == [][\A id \in DOMAIN stored : stored[id].some => stored'[id] = stored[id]]_conversationVars

==============================================================================
