------------------------- MODULE Conversation_proofs -------------------------
(***************************************************************************)
(* Theorems about Conversation, for any number of exchanges and any        *)
(* answers: what a stored response goes on holding; how the answer given,  *)
(* what is aggregated of it and what the client holds agree after every    *)
(* chunk; and that what the next exchange is sent is what its client       *)
(* remembers.  Lemmas about folds and sequences are RequestStream_proofs'. *)
(***************************************************************************)
EXTENDS RequestStream_proofs

-----------------------------------------------------------------------------
(***************************************************************************)
(* The exchanges of a conversation, and what a stored response goes on     *)
(* holding.  Nothing here depends on what the adapters and encoders make   *)
(* of an answer.                                                           *)
(***************************************************************************)

\* The fields of an exchange and of an adapter that these theorems are about.
ExchangeShape ==
  /\ {"phase", "commitment", "id", "number", "native"} \subseteq DOMAIN exchange
  /\ {"commitment"} \subseteq DOMAIN adapter

\* An adapter that has the provider's answer never calls it not sent, and an
\* exchange that goes on has not failed.
CommitmentTold ==
  /\ ExchangeShape
  /\ exchange.phase \in {"over", "posted", "streaming"}
  /\ exchange.phase # "over" => exchange.commitment = "none"
  /\ adapter.commitment \in {"unknown", "provider-accepted", "tool-boundary"}

\* A step of an adapter that keeps what it says of the commitment, or goes
\* further.
Honest(step) ==
  /\ {"state"} \subseteq DOMAIN step /\ {"commitment"} \subseteq DOMAIN step.state
  /\ step.state.commitment \in {"unknown", "provider-accepted", "tool-boundary"}

\* Every step of the chat adapter is honest.
LEMMA ChatIsHonest ==
  ASSUME CommitmentTold
  PROVE  /\ \A kind, part : Honest(ChatChunk(adapter, ChatDelta(adapter, kind, part)))
         /\ \A slot, id, named, parts : Honest(ChatChunk(adapter, ChatCall(adapter, slot, id, named, parts)))
         /\ \A usage : Honest(ChatChunk(adapter, ChatFinish(adapter, usage)))
         /\ \A events : Honest(ChatChunk(adapter, Yields(adapter, events)))
         /\ Honest(ChatEnd(adapter)) /\ \A items : Honest(ChatBody(adapter, items))
<1> USE DEF CommitmentTold, ExchangeShape, Honest
<1>1. ASSUME NEW state, NEW events, NEW throws,
             {"commitment"} \subseteq DOMAIN state,
             state.commitment \in {"unknown", "provider-accepted", "tool-boundary"}
      PROVE  /\ Honest([state |-> state, events |-> events, throws |-> throws])
             /\ Honest(ChatChunk(adapter, [state |-> state, events |-> events, throws |-> throws]))
  BY <1>1 DEF ChatChunk
<1>2. ASSUME NEW kind, NEW part
      PROVE  Honest(ChatChunk(adapter, ChatDelta(adapter, kind, part)))
  BY <1>1 DEF ChatDelta, Yields
<1>3. ASSUME NEW slot, NEW id, NEW named, NEW parts
      PROVE  Honest(ChatChunk(adapter, ChatCall(adapter, slot, id, named, parts)))
  <2> DEFINE state == ChatCall(adapter, slot, id, named, parts).state
             events == ChatCall(adapter, slot, id, named, parts).events
  <2>1. ChatCall(adapter, slot, id, named, parts) = [state |-> state, events |-> events, throws |-> FALSE]
    BY Zenon DEF ChatCall, Yields
  <2>2. {"commitment"} \subseteq DOMAIN state /\ state.commitment = adapter.commitment
    BY DEF ChatCall, Yields
  <2> HIDE DEF state, events
  <2> QED
    BY <1>1, <2>1, <2>2
<1>4. ASSUME NEW usage
      PROVE  Honest(ChatChunk(adapter, ChatFinish(adapter, usage)))
  <2>1. CASE \E s \in Slots : adapter.pending[s] # <<>>
    BY <1>1, <2>1 DEF ChatFinish, Throws
  <2>2. CASE ~\E s \in Slots : adapter.pending[s] # <<>>
    <3> DEFINE state == [adapter EXCEPT !.open = {}, !.completed = TRUE]
               events == ChatFinish(adapter, usage).events
    <3>1. ChatFinish(adapter, usage) = [state |-> state, events |-> events, throws |-> FALSE]
      BY <2>2, Zenon DEF ChatFinish, Yields
    <3>2. {"commitment"} \subseteq DOMAIN state /\ state.commitment = adapter.commitment
      OBVIOUS
    <3> HIDE DEF state, events
    <3> QED
      BY <1>1, <3>1, <3>2
  <2> QED
    BY <2>1, <2>2
<1>5. ASSUME NEW events
      PROVE  Honest(ChatChunk(adapter, Yields(adapter, events)))
  BY <1>1 DEF Yields
<1>6. Honest(ChatEnd(adapter)) /\ \A items : Honest(ChatBody(adapter, items))
  BY <1>1 DEF ChatEnd, ChatBody, Yields, Throws
<1> QED
  BY <1>2, <1>3, <1>4, <1>5, <1>6

\* So is every step of the Responses rail.
LEMMA RailIsHonest ==
  ASSUME CommitmentTold
  PROVE  /\ Honest(RailCreated(adapter)) /\ Honest(RailEnd(adapter))
         /\ \A index, item : Honest(RailAdded(adapter, index, item))
         /\ \A index, kind, part : Honest(RailDelta(adapter, index, kind, part))
         /\ \A index : Honest(RailDone(adapter, index))
         /\ \A items : /\ Honest(RailCompleted(adapter, items))
                       /\ Honest(RailFailed(adapter, items))
                       /\ Honest(RailBody(adapter, items))
<1> USE DEF CommitmentTold, ExchangeShape, Honest
<1>1. ASSUME NEW state, NEW events, NEW throws,
             {"commitment"} \subseteq DOMAIN state,
             state.commitment \in {"unknown", "provider-accepted", "tool-boundary"}
      PROVE  Honest([state |-> state, events |-> events, throws |-> throws])
  BY <1>1
<1>2. Honest(RailCreated(adapter)) /\ Honest(RailEnd(adapter))
  BY <1>1 DEF RailCreated, RailEnd, Yields, Throws
<1>3. ASSUME NEW index, NEW kind
      PROVE  /\ {"commitment"} \subseteq DOMAIN RailOpens(adapter, index, kind)
             /\ RailOpens(adapter, index, kind).commitment \in {"unknown", "provider-accepted", "tool-boundary"}
  BY DEF RailOpens
<1>4. ASSUME NEW index, NEW item
      PROVE  Honest(RailAdded(adapter, index, item))
  BY <1>1, <1>3 DEF RailAdded, Yields
<1>5. ASSUME NEW index, NEW kind, NEW part
      PROVE  Honest(RailDelta(adapter, index, kind, part))
  BY <1>1, <1>3 DEF RailDelta, Yields
<1>6. ASSUME NEW index
      PROVE  Honest(RailDone(adapter, index))
  BY <1>1 DEF RailDone, Yields
<1>7. ASSUME NEW items
      PROVE  Honest(RailCompleted(adapter, items)) /\ Honest(RailFailed(adapter, items)) /\ Honest(RailBody(adapter, items))
  BY <1>1 DEF RailCompleted, RailFailed, RailBody, Yields, Throws
<1> QED
  BY <1>2, <1>4, <1>5, <1>6, <1>7

\* What streaming does to an exchange: it goes on, or it is over with what an
\* honest adapter says of it, or with nothing said.
AnswerStep ==
  /\ exchange.phase = "streaming"
  /\ {"commitment"} \subseteq DOMAIN adapter'
  /\ adapter'.commitment \in {"unknown", "provider-accepted", "tool-boundary"}
  /\ \/ exchange' = exchange /\ stored' = stored
     \/ \E said \in {"unknown", "provider-accepted", "tool-boundary"} :
          exchange' = [exchange EXCEPT !.phase = "over", !.commitment = said] /\ stored' = stored
     \/ /\ exchange' = [exchange EXCEPT !.phase = "over"]
        /\ stored' = stored \/ \E record : stored' = [stored EXCEPT ![exchange.id] = record]

\* The step of an honest adapter passes through to the client.
LEMMA ReceivesStep ==
  ASSUME NEW step, Honest(step), exchange.phase = "streaming"
  PROVE  /\ Receives(step) => AnswerStep
         /\ CommitmentTold /\ BodyEnds(step) => AnswerStep
         /\ Answers(step) => AnswerStep
<1>1. ASSUME NEW s, Honest(s), Passes(s), stored' = stored
      PROVE  AnswerStep
  BY <1>1 DEF Passes, Honest, AnswerStep
<1>2. ASSUME NEW output, Remember(output)
      PROVE  stored' = stored \/ \E record : stored' = [stored EXCEPT ![exchange.id] = record]
  BY <1>2 DEF Remember
<1>3. Receives(step) => AnswerStep
  BY <1>1 DEF Receives
<1>4. Answers(step) => AnswerStep
  <2> SUFFICES ASSUME Answers(step) PROVE AnswerStep
    OBVIOUS
  <2>1. /\ adapter' = step.state /\ exchange' = [exchange EXCEPT !.phase = "over"]
        /\ \E output : Remember(output)
    BY DEF Answers
  <2> QED
    BY <1>2, <2>1 DEF Honest, AnswerStep
<1>5. CommitmentTold /\ BodyEnds(step) => AnswerStep
  <2> SUFFICES ASSUME CommitmentTold, BodyEnds(step) PROVE AnswerStep
    OBVIOUS
  <2>1. CASE step.throws \/ ~Finish(encoder)
    <3> DEFINE thrown == [step EXCEPT !.throws = TRUE]
    <3>1. Passes(thrown) /\ stored' = stored
      BY <2>1 DEF BodyEnds
    <3>2. Honest(thrown)
      BY DEF Honest
    <3> HIDE DEF thrown
    <3> QED
      BY <1>1, <3>1, <3>2
  <2>2. CASE ~(step.throws \/ ~Finish(encoder))
    <3>1. /\ exchange' = [exchange EXCEPT !.phase = "over"] /\ adapter' = adapter
          /\ \E output : Remember(output)
      BY <2>2 DEF BodyEnds
    <3> QED
      BY <1>2, <3>1 DEF CommitmentTold, ExchangeShape, AnswerStep
  <2> QED
    BY <2>1, <2>2
<1> QED
  BY <1>3, <1>4, <1>5

\* A chat answer given at once, of whatever items.
LEMMA ChatGives ==
  ASSUME ChatAnswers
  PROVE  /\ exchange.phase = "streaming" /\ ~exchange.stream /\ ~exchange.native
         /\ Answers(ChatBody(adapter, answer'))
         /\ \E at : at \in SUBSET ChatIndices /\ IsFiniteSet(at) /\ answer' = ChatItems(at)
BY DEF ChatAnswers

\* An exchange is asked for, fails, is accepted, or streams.
LEMMA ConversationSteps ==
  ASSUME CommitmentTold, [ConversationNext]_conversationVars
  PROVE  \/ Asks \/ PostSucceeds \/ \E failure \in Failures : PostFails(failure)
         \/ AnswerStep \/ UNCHANGED conversationVars
<1>1. ASSUME ChatSaysMore \/ ChatCalls \/ ChatFinishes \/ ChatUsageLate
      PROVE  AnswerStep
  BY <1>1, ChatIsHonest, ReceivesStep DEF ChatSaysMore, ChatCalls, ChatFinishes, ChatUsageLate, Answering
<1>2. ASSUME ChatEnds \/ ChatAnswers
      PROVE  AnswerStep
  <2>1. CASE ChatEnds
    BY <2>1, ChatIsHonest, ReceivesStep DEF ChatEnds, Answering
  <2>2. CASE ChatAnswers
    <3>1. exchange.phase = "streaming" /\ Answers(ChatBody(adapter, answer'))
      BY <2>2, ChatGives
    <3> QED  BY <3>1, ChatIsHonest, ReceivesStep
  <2> QED  BY <1>2, <2>1, <2>2
<1>3. ASSUME RailStarts \/ RailAdds \/ RailSaysMore \/ RailFinishesItem
      PROVE  AnswerStep
  BY <1>3, RailIsHonest, ReceivesStep DEF RailStarts, RailAdds, RailSaysMore, RailFinishesItem, Answering
<1>4. ASSUME RailCompletes \/ RailFails \/ RailEnds \/ RailAnswers
      PROVE  AnswerStep
  BY <1>4, RailIsHonest, ReceivesStep DEF RailCompletes, RailFails, RailEnds, RailAnswers, Answering
<1> QED
  BY <1>1, <1>2, <1>3, <1>4 DEF ConversationNext

\* A new exchange is posted or refused.
LEMMA AskFacts ==
  ASSUME Asks
  PROVE  /\ exchange.phase = "over" /\ exchange'.phase \in {"over", "posted"}
         /\ exchange'.commitment = "none"
         /\ exchange'.id = exchange.number + 1 /\ exchange'.number = exchange.number + 1
         /\ {"phase", "commitment", "id", "number", "native"} \subseteq DOMAIN exchange'
         /\ adapter' = FreshAdapter /\ stored' = stored
<1>1. PICK protocol, native, streamed, keep, from, byId, foreign, mixed, nameless :
        Ask(protocol, native, streamed, keep, from, byId, foreign, mixed, nameless)
  BY DEF Asks
<1>2. exchange.phase = "over" /\ adapter' = FreshAdapter /\ stored' = stored
  BY <1>1, Zenon DEF Ask, BetweenExchanges
<1>3. /\ exchange'.phase \in {"over", "posted"}
      /\ exchange'.commitment = "none"
      /\ exchange'.id = Now + 1 /\ exchange'.number = Now + 1
  BY <1>1 DEF Ask
<1>4. {"phase", "commitment", "id", "number", "native"} \subseteq DOMAIN exchange'
  BY <1>1 DEF Ask
<1> QED
  BY <1>2, <1>3, <1>4 DEF Now

\* It holds at first, and every step keeps it; only the failure of a post says
\* "not-sent".
LEMMA CommitmentKept ==
  /\ ConversationInit => CommitmentTold
  /\ CommitmentTold /\ [ConversationNext]_conversationVars => CommitmentTold'
<1>1. ConversationInit => CommitmentTold
  BY DEF ConversationInit, NoExchange, FreshAdapter, CommitmentTold, ExchangeShape
<1>2. ASSUME CommitmentTold, [ConversationNext]_conversationVars
      PROVE  CommitmentTold'
  <2> USE <1>2 DEF CommitmentTold, ExchangeShape
  <2>1. CASE Asks
    <3>1. {"commitment"} \subseteq DOMAIN FreshAdapter /\ FreshAdapter.commitment = "unknown"
      BY DEF FreshAdapter
    <3> QED
      BY <2>1, <3>1, AskFacts
  <2>2. ASSUME NEW failure \in Failures, PostFails(failure)
        PROVE  CommitmentTold'
    BY <2>2 DEF PostFails
  <2>3. CASE PostSucceeds
    BY <2>3 DEF PostSucceeds
  <2>4. CASE AnswerStep
    BY <2>4 DEF AnswerStep
  <2>5. CASE UNCHANGED conversationVars
    BY <2>5 DEF conversationVars
  <2> QED
    BY <2>1, <2>2, <2>3, <2>4, <2>5, ConversationSteps
<1> QED
  BY <1>1, <1>2

\* Every response is stored once, under the number of its exchange, by the end of it.
StoredOnce ==
  /\ DOMAIN stored = 0..MaxTurns /\ exchange.number \in Nat
  /\ exchange.phase # "over" => exchange.id = exchange.number
  /\ \A id \in 0..MaxTurns : stored[id].some =>
       id <= exchange.number /\ (exchange.phase # "over" => id # exchange.number)

\* It stays so when every provider names its responses.
LEMMA StoredOnceKept ==
  ASSUME ~Anonymous
  PROVE  /\ ConversationInit => StoredOnce
         /\ CommitmentTold /\ StoredOnce /\ [ConversationNext]_conversationVars => StoredOnce'
<1>1. ConversationInit => StoredOnce
  BY DEF ConversationInit, NoExchange, NoRecord, StoredOnce
<1>2. ASSUME CommitmentTold, StoredOnce, [ConversationNext]_conversationVars
      PROVE  StoredOnce'
  <2> USE <1>2 DEF StoredOnce, CommitmentTold, ExchangeShape
  <2>1. CASE Asks
    BY <2>1, AskFacts
  <2>2. ASSUME NEW failure \in Failures, PostFails(failure)
        PROVE  StoredOnce'
    BY <2>2 DEF PostFails
  <2>3. CASE PostSucceeds
    <3>1. /\ exchange' = [exchange EXCEPT !.phase = "streaming", !.id = exchange.number]
          /\ exchange.phase = "posted" /\ stored' = stored
      BY <2>3 DEF PostSucceeds, Now
    <3> QED
      BY <3>1
  <2>4. CASE AnswerStep
    <3>1. CASE stored' = stored
      BY <2>4, <3>1 DEF AnswerStep
    <3>2. ASSUME NEW value, stored' = [stored EXCEPT ![exchange.id] = value],
                 exchange' = [exchange EXCEPT !.phase = "over"]
          PROVE  StoredOnce'
      BY <2>4, <3>2 DEF AnswerStep
    <3> QED
      BY <2>4, <3>1, <3>2 DEF AnswerStep
  <2>5. CASE UNCHANGED conversationVars
    BY <2>5 DEF conversationVars
  <2> QED
    BY <2>1, <2>2, <2>3, <2>4, <2>5, ConversationSteps
<1> QED
  BY <1>1, <1>2

\* A stored response belongs to the conversation it was given in: none is ever
\* replaced, if every provider names its responses.  One that does not has them
\* stored under a name that the next one takes.
THEOREM ResponsesKept == ~Anonymous => (ConversationSpec => RecordsKept)
<1> SUFFICES ASSUME ~Anonymous PROVE ConversationSpec => RecordsKept
  OBVIOUS
<1>1. ASSUME CommitmentTold, StoredOnce, [ConversationNext]_conversationVars,
             NEW id \in DOMAIN stored, stored[id].some
      PROVE  stored'[id] = stored[id]
  <2>1. CASE AnswerStep
    BY <1>1, <2>1 DEF AnswerStep, StoredOnce
  <2>2. CASE Asks \/ PostSucceeds \/ \E failure \in Failures : PostFails(failure)
    BY <2>2, AskFacts DEF PostSucceeds, PostFails
  <2>3. CASE UNCHANGED conversationVars
    BY <2>3 DEF conversationVars
  <2> QED
    BY <1>1, <2>1, <2>2, <2>3, ConversationSteps
<1>2. CommitmentTold /\ StoredOnce /\ [ConversationNext]_conversationVars =>
        [\A id \in DOMAIN stored : stored[id].some => stored'[id] = stored[id]]_conversationVars
  BY <1>1
<1> QED
  BY <1>2, CommitmentKept, StoredOnceKept, PTL DEF ConversationSpec, RecordsKept

-----------------------------------------------------------------------------
(***************************************************************************)
(* What a chunk's events make of an encoder, they make of the client.      *)
(***************************************************************************)

Coder(items, open, artifacts, frames) ==
  [open |-> open, items |-> items, artifacts |-> artifacts, frames |-> frames, throws |-> FALSE]
View(items, open) ==
  [blocks |-> items, open |-> open, ended |-> "no", misled |-> FALSE, late |-> FALSE]

\* An answer that goes on is held alike; of one that ended a Responses client
\* has the output.
Held(items, open, artifacts) ==
  [items |-> items, open |-> open, artifacts |-> artifacts, view |-> View(items, open)]
OutputOf(protocol, items, artifacts) ==
  IF protocol = "responses" THEN FinalizeAggregate(Coder(items, {}, artifacts, <<>>)) ELSE items
Concluded(protocol, items, artifacts, late) ==
  [items |-> items, open |-> {}, artifacts |-> artifacts,
   view |-> [blocks |-> OutputOf(protocol, items, artifacts), open |-> {}, ended |-> "end",
             misled |-> FALSE, late |-> late]]
CoderOf(held, frames) == Coder(held.items, held.open, held.artifacts, frames)
ViewOf(held) == held.view

Told(protocol, held, events, after) ==
  /\ IsSeq(events)
  /\ \E frames :
       /\ IsSeq(frames)
       /\ \A before : IsSeq(before) =>
            Leads(protocol, CoderOf(held, before), events, CoderOf(after, before \o frames))
       /\ Leads("read", ViewOf(held), frames, ViewOf(after))

LEMMA ToldNothing ==
  ASSUME NEW protocol, NEW held
  PROVE  Told(protocol, held, <<>>, held)
<1>1. \A before : IsSeq(before) => before \o <<>> = before
  BY DEF IsSeq
<1> QED
  BY <1>1, LeadsNowhere DEF Told

\* What one chunk tells, and the next one.
LEMMA ToldOn ==
  ASSUME NEW protocol, NEW held, NEW s, NEW middle, NEW t, NEW after,
         Told(protocol, held, s, middle), Told(protocol, middle, t, after)
  PROVE  Told(protocol, held, s \o t, after)
<1>1. PICK f : /\ IsSeq(f)
               /\ \A before : IsSeq(before) =>
                    Leads(protocol, CoderOf(held, before), s, CoderOf(middle, before \o f))
               /\ Leads("read", ViewOf(held), f, ViewOf(middle))
  BY DEF Told
<1>2. PICK g : /\ IsSeq(g)
               /\ \A before : IsSeq(before) =>
                    Leads(protocol, CoderOf(middle, before), t, CoderOf(after, before \o g))
               /\ Leads("read", ViewOf(middle), g, ViewOf(after))
  BY DEF Told
<1>3. IsSeq(s) /\ IsSeq(t) /\ IsSeq(s \o t) /\ IsSeq(f \o g)
  BY <1>1, <1>2, Joined DEF Told
<1>4. Leads("read", ViewOf(held), f \o g, ViewOf(after))
  BY <1>1, <1>2, LeadsOn
<1>5. ASSUME NEW before, IsSeq(before)
      PROVE  Leads(protocol, CoderOf(held, before), s \o t, CoderOf(after, before \o (f \o g)))
  <2>1. (before \o f) \o g = before \o (f \o g)
    BY <1>1, <1>2, <1>5, JoinedTwice
  <2>2. IsSeq(before \o f)
    BY <1>1, <1>5, Joined
  <2>3. /\ Leads(protocol, CoderOf(held, before), s, CoderOf(middle, before \o f))
        /\ Leads(protocol, CoderOf(middle, before \o f), t, CoderOf(after, (before \o f) \o g))
    BY <1>1, <1>2, <1>5, <2>2
  <2> QED
    BY <1>3, <2>1, <2>3, LeadsOn
<1> QED
  BY <1>3, <1>4, <1>5 DEF Told

\* One event has at most one frame.
LEMMA ToldOne ==
  ASSUME NEW protocol \in {"anthropic", "responses"}, NEW held, NEW event, NEW after, NEW frame,
         \A before : IsSeq(before) =>
           Encode(protocol, CoderOf(held, before), event) = CoderOf(after, before \o <<frame>>),
         Read(ViewOf(held), frame) = ViewOf(after)
  PROVE  Told(protocol, held, <<event>>, after)
<1>1. \A x, y : Step(protocol, x, y) = Encode(protocol, x, y) /\ Step("read", x, y) = Read(x, y)
  BY DEF Step
<1>2. IsSeq(<<event>>) /\ IsSeq(<<frame>>) /\ Leads("read", ViewOf(held), <<frame>>, ViewOf(after))
  BY <1>1, LeadsOne
<1>3. \A before : IsSeq(before) =>
        Leads(protocol, CoderOf(held, before), <<event>>, CoderOf(after, before \o <<frame>>))
  BY <1>1, LeadsOne
<1> QED
  BY <1>2, <1>3 DEF Told

\* An event without a frame, of which the client sees nothing.
LEMMA ToldSilent ==
  ASSUME NEW protocol \in {"anthropic", "responses"}, NEW held, NEW event, NEW after,
         \A before : IsSeq(before) =>
           Encode(protocol, CoderOf(held, before), event) = CoderOf(after, before),
         ViewOf(after) = ViewOf(held)
  PROVE  Told(protocol, held, <<event>>, after)
<1>1. \A x, y : Step(protocol, x, y) = Encode(protocol, x, y)
  BY DEF Step
<1>2. IsSeq(<<event>>) /\ IsSeq(<<>>) /\ Leads("read", ViewOf(held), <<>>, ViewOf(after))
  BY LeadsOne, LeadsNowhere
<1>3. \A before : IsSeq(before) => before \o <<>> = before
  BY DEF IsSeq
<1>4. \A before : IsSeq(before) =>
        Leads(protocol, CoderOf(held, before), <<event>>, CoderOf(after, before \o <<>>))
  BY <1>1, <1>3, LeadsOne
<1> QED
  BY <1>2, <1>4 DEF Told

\* The events before the last, one by one.
LEMMA TellStart ==
  ASSUME NEW protocol \in {"anthropic", "responses"}, NEW I, NEW O, NEW A
  PROVE  Told(protocol, Held(I, O, A), <<Started>>, Held(I, O, A))
<1>1. ASSUME NEW before, IsSeq(before)
      PROVE  Encode(protocol, Coder(I, O, A, before), Started) = Coder(I, O, A, before \o <<[type |-> "created"]>>)
  BY DEF Encode, ApplyAggregate, FramesOf, Coder, Started
<1>2. Read(View(I, O), [type |-> "created"]) = View(I, O)
  BY DEF Read, View
<1> QED
  BY <1>1, <1>2, ToldOne DEF CoderOf, ViewOf, Held

\* One lemma per event: what it makes of what is held.
LEMMA TellUsage ==
  ASSUME NEW protocol \in {"anthropic", "responses"}, NEW I, NEW O, NEW A
  PROVE  Told(protocol, Held(I, O, A), <<Usage>>, Held(I, O, A))
<1>1. CASE protocol = "anthropic"
  <2>1. ASSUME NEW before, IsSeq(before)
        PROVE  Encode(protocol, Coder(I, O, A, before), Usage) = Coder(I, O, A, before \o <<[type |-> "usage"]>>)
    BY <1>1 DEF Encode, ApplyAggregate, FramesOf, Coder, Usage, When
  <2>2. Read(View(I, O), [type |-> "usage"]) = View(I, O)
    BY DEF Read, View
  <2> QED
    BY <2>1, <2>2, ToldOne DEF CoderOf, ViewOf, Held
<1>2. CASE protocol = "responses"
  <2>1. ASSUME NEW before, IsSeq(before)
        PROVE  Encode(protocol, Coder(I, O, A, before), Usage) = Coder(I, O, A, before)
    <3>1. before \o <<>> = before
      BY <2>1 DEF IsSeq
    <3> QED
      BY <1>2, <3>1 DEF Encode, ApplyAggregate, FramesOf, Coder, Usage, When
  <2> QED
    BY <2>1, ToldSilent DEF CoderOf, ViewOf, Held
<1> QED
  BY <1>1, <1>2

LEMMA TellArtifacts ==
  ASSUME NEW protocol \in {"anthropic", "responses"}, NEW I, NEW O, NEW A, NEW B
  PROVE  Told(protocol, Held(I, O, A), <<Artifacts(B)>>, Held(I, O, A \o B))
<1>1. ASSUME NEW before, IsSeq(before)
      PROVE  Encode(protocol, Coder(I, O, A, before), Artifacts(B)) = Coder(I, O, A \o B, before)
  <2>1. before \o <<>> = before
    BY <1>1 DEF IsSeq
  <2> QED
    BY <2>1 DEF Encode, ApplyAggregate, FramesOf, Coder, Artifacts
<1> QED
  BY <1>1, ToldSilent DEF CoderOf, ViewOf, View, Held

LEMMA TellOpened ==
  ASSUME NEW protocol \in {"anthropic", "responses"}, NEW I, NEW O, NEW A, NEW i, NEW kind, NEW id,
         i \notin DOMAIN I
  PROVE  Told(protocol, Held(I, O, A), <<Opened(i, kind, id)>>,
              Held(Put(I, i, StartItem(Opened(i, kind, id))), O \cup {i}, A))
<1> DEFINE item == StartItem(Opened(i, kind, id))
           frame == [type |-> "start", index |-> i, item |-> item]
<1>1. ASSUME NEW before, IsSeq(before)
      PROVE  Encode(protocol, Coder(I, O, A, before), Opened(i, kind, id))
               = Coder(Put(I, i, item), O \cup {i}, A, before \o <<frame>>)
  <2>1. Opened(i, kind, id).type = "content-started" /\ Opened(i, kind, id).index = i
    BY DEF Opened
  <2> HIDE DEF item
  <2> QED
    BY <2>1 DEF Encode, ApplyAggregate, FramesOf, Coder, item
<1>2. Read(View(I, O), frame) = View(Put(I, i, item), O \cup {i})
  <2> HIDE DEF item
  <2> QED
    BY DEF Read, View
<1> HIDE DEF item, frame
<1> QED
  BY <1>1, <1>2, ToldOne DEF CoderOf, ViewOf, Held, item

LEMMA TellDelta ==
  ASSUME NEW protocol \in {"anthropic", "responses"}, NEW I, NEW O, NEW A, NEW i, NEW kind, NEW part,
         i \in DOMAIN I, i \in O, I[i].kind = kind
  PROVE  Told(protocol, Held(I, O, A), <<Delta(i, kind, part)>>,
              Held([I EXCEPT ![i].parts = Append(@, part)], O, A))
<1> DEFINE frame == [type |-> "delta", index |-> i, part |-> part]
<1>1. ASSUME NEW before, IsSeq(before)
      PROVE  Encode(protocol, Coder(I, O, A, before), Delta(i, kind, part))
               = Coder([I EXCEPT ![i].parts = Append(@, part)], O, A, before \o <<frame>>)
  BY DEF Encode, ApplyAggregate, FramesOf, Coder, Delta
<1>2. Read(View(I, O), frame) = View([I EXCEPT ![i].parts = Append(@, part)], O)
  BY DEF Read, View
<1> HIDE DEF frame
<1> QED
  BY <1>1, <1>2, ToldOne DEF CoderOf, ViewOf, Held

LEMMA TellClosed ==
  ASSUME NEW protocol \in {"anthropic", "responses"}, NEW I, NEW O, NEW A, NEW i, i \in O
  PROVE  Told(protocol, Held(I, O, A), <<Closed(i)>>, Held(I, O \ {i}, A))
<1> DEFINE frame == [type |-> "stop", index |-> i]
<1>1. ASSUME NEW before, IsSeq(before)
      PROVE  Encode(protocol, Coder(I, O, A, before), Closed(i)) = Coder(I, O \ {i}, A, before \o <<frame>>)
  BY DEF Encode, ApplyAggregate, FramesOf, Coder, Closed
<1>2. Read(View(I, O), frame) = View(I, O \ {i})
  BY DEF Read, View
<1> HIDE DEF frame
<1> QED
  BY <1>1, <1>2, ToldOne DEF CoderOf, ViewOf, Held

\* The client is told the end, and of the usage after it.
LEMMA ReadEnd ==
  ASSUME NEW blocks, NEW told, NEW late \in BOOLEAN
  PROVE  /\ Read(View(blocks, {}), [type |-> "end", output |-> told])
              = [blocks |-> IF exchange.protocol = "responses" THEN told ELSE blocks, open |-> {},
                 ended |-> "end", misled |-> FALSE, late |-> FALSE]
         /\ Read([blocks |-> blocks, open |-> {}, ended |-> "end", misled |-> FALSE, late |-> late],
                 [type |-> "usage"])
              = [blocks |-> blocks, open |-> {}, ended |-> "end", misled |-> FALSE, late |-> TRUE]
<1>1. Read(View(blocks, {}), [type |-> "end", output |-> told])
        = [blocks |-> IF exchange.protocol = "responses" THEN told ELSE blocks, open |-> {},
           ended |-> "end", misled |-> FALSE, late |-> FALSE]
  <2>1. CASE exchange.protocol = "responses"
    BY <2>1 DEF Read, View
  <2>2. CASE exchange.protocol # "responses"
    BY <2>2 DEF Read, View
  <2> QED  BY <2>1, <2>2
<1>2. Read([blocks |-> blocks, open |-> {}, ended |-> "end", misled |-> FALSE, late |-> late], [type |-> "usage"])
        = [blocks |-> blocks, open |-> {}, ended |-> "end", misled |-> FALSE, late |-> TRUE]
  <2>1. CASE late = TRUE
    BY <2>1 DEF Read
  <2>2. CASE late = FALSE
    BY <2>2 DEF Read
  <2> QED  BY <2>1, <2>2
<1> QED
  BY <1>1, <1>2

LEMMA TellCompleted ==
  ASSUME NEW protocol \in {"anthropic", "responses"}, protocol = exchange.protocol, NEW I, NEW A
  PROVE  Told(protocol, Held(I, {}, A), <<Completed>>, Concluded(protocol, I, A, FALSE))
<1> DEFINE output == FinalizeAggregate(Coder(I, {}, A, <<>>))
           frame == [type |-> "end", output |-> output]
<1>1. ASSUME NEW before, IsSeq(before)
      PROVE  Encode(protocol, Coder(I, {}, A, before), Completed) = Coder(I, {}, A, before \o <<frame>>)
  <2>1. FinalizeAggregate(Coder(I, {}, A, before)) = output
    BY DEF FinalizeAggregate, Coder
  <2>2. ApplyAggregate(Coder(I, {}, A, before), Completed) = Coder(I, {}, A, before)
    BY DEF ApplyAggregate, Completed
  <2>3. FramesOf(protocol, Coder(I, {}, A, before), Completed) = <<frame>>
    <3> HIDE DEF output
    <3> QED  BY <2>1 DEF FramesOf, Completed
  <2>4. Completed.type = "response-completed"
    BY DEF Completed
  <2> HIDE DEF output
  <2> QED
    BY <2>1 DEF Encode, ApplyAggregate, FramesOf, Coder, Completed
<1>2. Read(View(I, {}), frame) = Concluded(protocol, I, A, FALSE).view
  BY ReadEnd DEF Concluded, OutputOf
<1>3. Concluded(protocol, I, A, FALSE).items = I /\ Concluded(protocol, I, A, FALSE).open = {}
      /\ Concluded(protocol, I, A, FALSE).artifacts = A
  BY DEF Concluded
<1> HIDE DEF frame
<1> QED
  BY <1>1, <1>2, <1>3, ToldOne DEF CoderOf, ViewOf, Held

\* The usage may come after the end.
LEMMA TellUsageLate ==
  ASSUME NEW protocol \in {"anthropic", "responses"}, NEW I, NEW A, NEW late \in BOOLEAN
  PROVE  \E later \in BOOLEAN : Told(protocol, Concluded(protocol, I, A, late), <<Usage>>, Concluded(protocol, I, A, later))
<1> DEFINE held(l) == Concluded(protocol, I, A, l)
<1>0. \A l : held(l).items = I /\ held(l).open = {} /\ held(l).artifacts = A
  BY DEF Concluded
<1>1. CASE protocol = "anthropic"
  <2>1. ASSUME NEW before, IsSeq(before)
        PROVE  Encode(protocol, Coder(I, {}, A, before), Usage) = Coder(I, {}, A, before \o <<[type |-> "usage"]>>)
    BY <1>1 DEF Encode, ApplyAggregate, FramesOf, Coder, Usage, When
  <2>2. Read(held(late).view, [type |-> "usage"]) = held(TRUE).view
    BY ReadEnd DEF Concluded
  <2> HIDE DEF held
  <2>3. Told(protocol, held(late), <<Usage>>, held(TRUE))
    BY <1>0, <2>1, <2>2, ToldOne DEF CoderOf, ViewOf
  <2> QED
    BY <2>3 DEF held
<1>2. CASE protocol = "responses"
  <2>1. ASSUME NEW before, IsSeq(before)
        PROVE  Encode(protocol, Coder(I, {}, A, before), Usage) = Coder(I, {}, A, before)
    <3>1. before \o <<>> = before
      BY <2>1 DEF IsSeq
    <3> QED
      BY <1>2, <3>1 DEF Encode, ApplyAggregate, FramesOf, Coder, Usage, When
  <2> HIDE DEF held
  <2>2. Told(protocol, held(late), <<Usage>>, held(late))
    BY <1>0, <2>1, ToldSilent DEF CoderOf, ViewOf
  <2> QED
    BY <2>2 DEF held
<1> QED
  BY <1>1, <1>2

\* The fragments of one item, by induction over their number.
LEMMA TellDeltas ==
  ASSUME NEW protocol \in {"anthropic", "responses"}, NEW I, NEW O, NEW A, NEW i, NEW kind,
         i \in DOMAIN I, i \in O, I = [j \in DOMAIN I |-> I[j]],
         I[i] = Item(kind, I[i].id, I[i].parts, I[i].secret), IsSeq(I[i].parts),
         NEW parts, IsSeq(parts)
  PROVE  Told(protocol, Held(I, O, A), Deltas(i, kind, parts),
              Held([I EXCEPT ![i].parts = @ \o parts], O, A))
<1> DEFINE After(ps) == [I EXCEPT ![i].parts = @ \o ps]
           P == {k \in Nat : \A ps : IsSeq(ps) /\ Len(ps) = k =>
                   Told(protocol, Held(I, O, A), Deltas(i, kind, ps), Held(After(ps), O, A))}
<1>1. 0 \in P
  <2> SUFFICES ASSUME NEW ps, IsSeq(ps), Len(ps) = 0
               PROVE  Told(protocol, Held(I, O, A), Deltas(i, kind, ps), Held(After(ps), O, A))
    OBVIOUS
  <2>1. ps = <<>>
    BY DEF IsSeq
  <2>2. Deltas(i, kind, ps) = <<>>
    BY <2>1 DEF Deltas
  <2>3. I[i].parts \o <<>> = I[i].parts
    BY DEF IsSeq
  <2>4. After(ps) = I
    <3>1. After(ps) = [I EXCEPT ![i].parts = @]
      BY <2>1, <2>3
    <3>2. [I[i] EXCEPT !.parts = @] = I[i]
      BY DEF Item
    <3> QED  BY <3>1, <3>2
  <2> QED
    BY <2>2, <2>4, ToldNothing
<1>2. ASSUME NEW k \in Nat, k \in P PROVE k + 1 \in P
  <2> SUFFICES ASSUME NEW ps, IsSeq(ps), Len(ps) = k + 1
               PROVE  Told(protocol, Held(I, O, A), Deltas(i, kind, ps), Held(After(ps), O, A))
    OBVIOUS
  <2> DEFINE front == [j \in 1..k |-> ps[j]]
             last == ps[k + 1]
  <2>1. IsSeq(front) /\ Len(front) = k /\ ps = front \o <<last>>
    BY LastApart
  <2>2. Deltas(i, kind, ps) = Deltas(i, kind, front) \o <<Delta(i, kind, last)>>
    <3> DEFINE d == Deltas(i, kind, ps)
    <3>1. DOMAIN ps = 1..(k + 1) /\ DOMAIN front = 1..k
      BY Sequenced
    <3>2. d = [j \in 1..(k + 1) |-> Delta(i, kind, ps[j])]
      BY <3>1 DEF Deltas
    <3>3. Deltas(i, kind, front) = [j \in 1..k |-> d[j]] /\ d[k + 1] = Delta(i, kind, last)
      BY <3>1, <3>2 DEF Deltas
    <3>4. IsSeq(d) /\ Len(d) = k + 1
      <4> DEFINE T == {Delta(i, kind, ps[j]) : j \in 1..(k + 1)}
      <4>1. d \in [1..(k + 1) -> T] /\ k + 1 \in Nat
        BY <3>2
      <4> HIDE DEF d, T
      <4> QED  BY <4>1, SequenceOf
    <3> HIDE DEF d, front, last
    <3>5. d = [j \in 1..k |-> d[j]] \o <<d[k + 1]>>
      BY <3>4, LastApart
    <3> QED
      BY <3>3, <3>5 DEF d
  <2>3. Told(protocol, Held(I, O, A), Deltas(i, kind, front), Held(After(front), O, A))
    BY <1>2, <2>1
  <2>4. /\ i \in DOMAIN After(front) /\ After(front)[i].kind = kind
        /\ After(front)[i].parts = I[i].parts \o front
    <3> HIDE DEF front
    <3>1. I[i].kind = kind /\ DOMAIN I[i] = {"kind", "id", "parts", "secret"}
      BY DEF Item
    <3> QED  BY <3>1
  <2>5. Told(protocol, Held(After(front), O, A), <<Delta(i, kind, last)>>,
             Held([After(front) EXCEPT ![i].parts = Append(@, last)], O, A))
    <3> HIDE DEF After, front
    <3> QED  BY <2>4, TellDelta
  <2>6. Append(I[i].parts \o front, last) = I[i].parts \o ps
    <3> DEFINE said == I[i].parts
    <3>1. IsSeq(said) /\ IsSeq(front) /\ ps = front \o <<last>>
      BY <2>1
    <3> HIDE DEF front, last, said
    <3>2. Append(said \o front, last) = said \o ps
      BY <3>1, JoinedAppend
    <3> QED
      BY <3>2 DEF said
  <2>7. [After(front) EXCEPT ![i].parts = Append(@, last)] = After(ps)
    <3> HIDE DEF front, last
    <3> QED  BY <2>6
  <2> HIDE DEF front, last, After
  <2>8. Told(protocol, Held(I, O, A), Deltas(i, kind, front) \o <<Delta(i, kind, last)>>, Held(After(ps), O, A))
    BY <2>3, <2>5, <2>7, ToldOn, Zenon
  <2> QED
    BY <2>2, <2>8, Zenon
<1>3. Len(parts) \in Nat
  BY Sequenced
<1>4. Len(parts) \in P
  <2> HIDE DEF P
  <2> QED  BY <1>1, <1>2, <1>3, EveryNumber
<1> QED
  BY <1>4

\* Items closed one after the other.
LEMMA TellClosings ==
  ASSUME NEW protocol \in {"anthropic", "responses"}, NEW I, NEW O, NEW A, NEW all, IsSeq(all),
         \A j \in 1..Len(all) : all[j] \in O,
         \A j, l \in 1..Len(all) : all[j] = all[l] => j = l
  PROVE  Told(protocol, Held(I, O, A), [j \in DOMAIN all |-> Closed(all[j])],
              Held(I, O \ {all[j] : j \in 1..Len(all)}, A))
<1> DEFINE Closings(k) == [j \in 1..k |-> Closed(all[j])]
           Left(k) == O \ {all[j] : j \in 1..k}
           P == {k \in Nat : k <= Len(all) => Told(protocol, Held(I, O, A), Closings(k), Held(I, Left(k), A))}
<1>0. Len(all) \in Nat /\ DOMAIN all = 1..Len(all)
  BY Sequenced
<1>1. 0 \in P
  <2>1. Closings(0) = <<>> /\ Left(0) = O
    OBVIOUS
  <2> QED  BY <2>1, ToldNothing
<1>2. ASSUME NEW k \in Nat, k \in P PROVE k + 1 \in P
  <2> SUFFICES ASSUME k + 1 <= Len(all)
               PROVE  Told(protocol, Held(I, O, A), Closings(k + 1), Held(I, Left(k + 1), A))
    OBVIOUS
  <2>1. Told(protocol, Held(I, O, A), Closings(k), Held(I, Left(k), A))
    BY <1>0, <1>2
  <2>2. all[k + 1] \in Left(k) /\ Left(k) \ {all[k + 1]} = Left(k + 1)
    BY <1>0
  <2>3. Told(protocol, Held(I, Left(k), A), <<Closed(all[k + 1])>>, Held(I, Left(k) \ {all[k + 1]}, A))
    BY <2>2, TellClosed
  <2>4. Closings(k + 1) = Closings(k) \o <<Closed(all[k + 1])>>
    <3> DEFINE d == Closings(k + 1)
    <3>1. Closings(k) = [j \in 1..k |-> d[j]] /\ d[k + 1] = Closed(all[k + 1])
      OBVIOUS
    <3>2. IsSeq(d) /\ Len(d) = k + 1
      <4> DEFINE T == {Closed(all[j]) : j \in 1..(k + 1)}
      <4>1. d \in [1..(k + 1) -> T] /\ k + 1 \in Nat
        OBVIOUS
      <4> HIDE DEF d, T
      <4> QED  BY <4>1, SequenceOf
    <3> HIDE DEF d
    <3> QED
      BY <3>1, <3>2, LastApart DEF d
  <2> HIDE DEF Closings, Left
  <2>5. Told(protocol, Held(I, O, A), Closings(k) \o <<Closed(all[k + 1])>>, Held(I, Left(k + 1), A))
    BY <2>1, <2>2, <2>3, ToldOn, Zenon
  <2> QED
    BY <2>4, <2>5, Zenon
<1>3. Len(all) \in P
  <2> HIDE DEF P
  <2> QED  BY <1>0, <1>1, <1>2, EveryNumber
<1> QED
  BY <1>0, <1>3

-----------------------------------------------------------------------------
(***************************************************************************)
(* What the client of a streamed answer holds.                             *)
(***************************************************************************)

\* The call of slot s has index s + 1, which is not the index of the reasoning.
SlotsApart == 999 \notin Slots
KindAt(index) == IF index = 0 THEN "text" ELSE IF index = 1000 THEN "reasoning" ELSE "call"

ExchangeKnown ==
  /\ {"phase", "protocol", "native", "stream", "number", "commitment"} \subseteq DOMAIN exchange
  /\ exchange.phase \in {"over", "posted", "streaming"}
  /\ exchange.protocol \in {"anthropic", "responses"}
  /\ exchange.native \in BOOLEAN /\ exchange.stream \in BOOLEAN
  /\ exchange.protocol = "anthropic" => ~exchange.native
  /\ exchange.phase = "posted" => client = NoOne /\ encoder = NewEncoder

\* The records and functions that are held.
WholeShape ==
  /\ adapter = [started |-> adapter.started, completed |-> adapter.completed, open |-> adapter.open,
                artifacts |-> adapter.artifacts, pending |-> adapter.pending,
                commitment |-> adapter.commitment]
  /\ answer = [index \in DOMAIN answer |-> answer[index]]
  /\ \A index \in DOMAIN answer :
       /\ answer[index] = Item(answer[index].kind, answer[index].id, answer[index].parts, answer[index].secret)
       /\ IsSeq(answer[index].parts)
  /\ encoder = Coder(encoder.items, encoder.open, encoder.artifacts, <<>>)
  /\ encoder.items = [index \in DOMAIN encoder.items |-> encoder.items[index]]
  /\ IsFiniteSet(DOMAIN encoder.items)

\* What is aggregated was given, so far.
Copied ==
  \A index \in DOMAIN encoder.items :
    /\ index \in DOMAIN answer
    /\ encoder.items[index] = Item(answer[index].kind, encoder.items[index].id, answer[index].parts, Nothing)

\* The reasoning of a chat answer has an id of the gateway's.
Named(items) == 1000 \in DOMAIN items => items[1000].id = Local(1000)

\* Of a chat answer, only the arguments of calls without a name are not told.
ChatCopied ==
  /\ encoder.artifacts = <<>> /\ Named(encoder.items)
  /\ adapter.completed => adapter.started /\ DOMAIN answer = DOMAIN encoder.items
  /\ ~adapter.completed => adapter.open = DOMAIN encoder.items
  /\ \A index \in DOMAIN answer : answer[index].secret = Nothing /\ answer[index].kind = KindAt(index)
  /\ \A index \in DOMAIN answer \ DOMAIN encoder.items :
       answer[index].parts # <<>> /\ \E s \in Slots : index = s + 1
  /\ adapter.pending = [s \in Slots |-> adapter.pending[s]]
  /\ \A s \in Slots : adapter.pending[s] = IF s + 1 \in DOMAIN answer \ DOMAIN encoder.items
                                           THEN answer[s + 1].parts ELSE <<>>

\* An artifact is the opaque value of an item.
SecretOf(items, artifact, index) ==
  /\ items[index].kind = "reasoning" /\ items[index].secret # Nothing
  /\ artifact = Artifact("encrypted", Provided(index), items[index].secret)

\* Of an answer of the rail, the opaque values are told at its end.
RailCopied ==
  /\ DOMAIN answer = DOMAIN encoder.items
  /\ DOMAIN answer = 0..(Cardinality(DOMAIN answer) - 1)
  /\ adapter.open \subseteq DOMAIN answer
  /\ \A index \in DOMAIN answer :
       /\ answer[index].id = Provided(index) /\ encoder.items[index].id = Provided(index)
       /\ answer[index].kind # "reasoning" => answer[index].secret = Nothing
  /\ ~adapter.completed =>
       /\ encoder.artifacts = <<>> /\ IsSeq(adapter.artifacts)
       /\ \A j \in 1..Len(adapter.artifacts) : \E index \in DOMAIN answer : SecretOf(answer, adapter.artifacts[j], index)
  /\ adapter.completed =>
       /\ adapter.started
       /\ \A index \in DOMAIN answer :
            answer[index].kind = "reasoning" =>
              ArtifactValue(encoder.artifacts, "encrypted", Provided(index)) = answer[index].secret

Going ==
  /\ ~adapter.completed /\ adapter.open = encoder.open /\ encoder.open \subseteq DOMAIN encoder.items
  /\ client = View(encoder.items, encoder.open)
Finished ==
  /\ adapter.completed = TRUE /\ adapter.open = {} /\ encoder.open = {}
  /\ \E late \in BOOLEAN : client = Concluded(exchange.protocol, encoder.items, encoder.artifacts, late).view
Failed ==
  /\ exchange.phase = "over"
  /\ client.ended = "error" /\ client.misled = FALSE /\ client.blocks = encoder.items

StreamedInv ==
  /\ WholeShape /\ Copied
  /\ \/ Failed
     \/ (Going \/ Finished) /\ (IF exchange.native THEN RailCopied ELSE ChatCopied)

WholeInv == ExchangeKnown /\ (exchange.stream => StreamedInv)

\* Frames are written, not held.
LEMMA CoderFrames ==
  ASSUME NEW held, NEW frames
  PROVE  /\ [CoderOf(held, frames) EXCEPT !.frames = <<>>] = CoderOf(held, <<>>)
         /\ CoderOf(held, frames).frames = frames /\ CoderOf(held, frames).throws = FALSE
<1> DEFINE i == held.items
           o == held.open
           a == held.artifacts
<1>1. CoderOf(held, frames) = Coder(i, o, a, frames) /\ CoderOf(held, <<>>) = Coder(i, o, a, <<>>)
  BY DEF CoderOf
<1> HIDE DEF i, o, a
<1>2. [Coder(i, o, a, frames) EXCEPT !.frames = <<>>] = Coder(i, o, a, <<>>)
  <2> DEFINE c == Coder(i, o, a, frames)
             d == [c EXCEPT !.frames = <<>>]
  <2>1. /\ d = [x \in DOMAIN c |-> d[x]] /\ DOMAIN c = {"open", "items", "artifacts", "frames", "throws"}
        /\ d.frames = <<>>
    BY DEF Coder
  <2>2. d.open = o /\ d.items = i /\ d.artifacts = a /\ d.throws = FALSE
    BY DEF Coder
  <2> HIDE DEF c, d
  <2>3. d = [open |-> o, items |-> i, artifacts |-> a, frames |-> <<>>, throws |-> FALSE]
    BY <2>1, <2>2
  <2> QED
    BY <2>3 DEF c, d, Coder
<1>3. Coder(i, o, a, frames).frames = frames /\ Coder(i, o, a, frames).throws = FALSE
  BY DEF Coder
<1> QED
  BY <1>1, <1>2, <1>3

Broken(view) == [view EXCEPT !.ended = "error", !.misled = @ \/ view.ended = "end"]
OverWith(commitment) == [exchange EXCEPT !.phase = "over", !.commitment = commitment]

Holding(held) ==
  exchange.protocol \in {"anthropic", "responses"} /\ encoder = CoderOf(held, <<>>) /\ client = held.view

\* What one chunk's events make of the encoder and of the client.
LEMMA ChunkPasses ==
  ASSUME NEW step, NEW held, NEW after, Holding(held),
         Told(exchange.protocol, held, step.events, after), Passes(step)
  PROVE  /\ adapter' = step.state
         /\ encoder' = CoderOf(after, <<>>)
         /\ step.throws = FALSE => client' = after.view /\ exchange' = exchange
         /\ step.throws = TRUE => client' = Broken(after.view) /\ exchange' = OverWith(step.state.commitment)
<1> USE DEF Holding
<1> DEFINE coded == EncodeAll(exchange.protocol, encoder, step.events)
           read == FoldLeft(Read, client, coded.frames)
<1>1. PICK frames : /\ IsSeq(frames)
                    /\ \A before : IsSeq(before) =>
                         Leads(exchange.protocol, CoderOf(held, before), step.events, CoderOf(after, before \o frames))
                    /\ Leads("read", held.view, frames, after.view)
  BY DEF Told, ViewOf
<1>2. coded = CoderOf(after, frames)
  <2>1. IsSeq(step.events) /\ Len(step.events) \in Nat /\ DOMAIN step.events = 1..Len(step.events)
    BY Sequenced DEF Told
  <2>2. Leads(exchange.protocol, [encoder EXCEPT !.frames = <<>>], step.events, coded)
    BY <2>1, EncodeLeads
  <2>3. [encoder EXCEPT !.frames = <<>>] = CoderOf(held, <<>>)
    BY CoderFrames
  <2>4. Leads(exchange.protocol, CoderOf(held, <<>>), step.events, CoderOf(after, frames))
    <3>1. IsSeq(<<>>) /\ <<>> \o frames = frames
      BY <1>1, LeadsNowhere, JoinedLast
    <3> QED  BY <1>1, <3>1
  <2> HIDE DEF coded
  <2> QED  BY <2>2, <2>3, <2>4, LeadsOnce
<1>3. coded.frames = frames /\ coded.throws = FALSE /\ [coded EXCEPT !.frames = <<>>] = CoderOf(after, <<>>)
  <2> HIDE DEF coded
  <2> QED  BY <1>2, CoderFrames
<1>4. read = after.view
  <2>1. Len(frames) \in Nat /\ DOMAIN frames = 1..Len(frames)
    BY <1>1, Sequenced
  <2>2. Leads("read", held.view, frames, FoldLeft(Read, held.view, frames))
    BY <2>1, ReadLeads
  <2>3. FoldLeft(Read, held.view, frames) = after.view
    BY <1>1, <2>2, LeadsOnce
  <2>4. read = FoldLeft(Read, held.view, frames)
    <3> HIDE DEF coded
    <3> QED  BY <1>3
  <2> QED  BY <2>3, <2>4
<1>5. /\ adapter' = step.state
      /\ encoder' = [coded EXCEPT !.frames = <<>>]
      /\ client' = IF step.throws \/ coded.throws
                   THEN [read EXCEPT !.ended = "error", !.misled = @ \/ read.ended = "end"] ELSE read
      /\ exchange' = IF step.throws \/ coded.throws
                     THEN [exchange EXCEPT !.phase = "over", !.commitment = step.state.commitment] ELSE exchange
  BY Zenon DEF Passes
<1> HIDE DEF coded, read
<1> QED
  BY <1>3, <1>4, <1>5 DEF Broken, OverWith

LEMMA PrefixOfItself ==
  ASSUME NEW s, IsSeq(s)
  PROVE  IsPrefix(s, s)
<1>1. Len(s) \in Nat
  BY Sequenced
<1> QED
  BY <1>1 DEF IsPrefix

\* What the client holds of it is what was given.
LEMMA HeldIsWhole ==
  ASSUME WholeInv, exchange.stream
  PROVE  DeliveredWhole
<1> DEFINE given == [index \in {i \in DOMAIN answer : exchange.stream \/ (exchange.native /\ exchange.protocol = "responses")
                                                       \/ answer[i].kind # "reasoning"} |-> answer[index]]
<1>1. given = answer
  <2>1. {i \in DOMAIN answer : exchange.stream \/ (exchange.native /\ exchange.protocol = "responses")
                                 \/ answer[i].kind # "reasoning"} = DOMAIN answer
    OBVIOUS
  <2>2. answer = [index \in DOMAIN answer |-> answer[index]]
    BY DEF WholeInv, StreamedInv, WholeShape
  <2> QED  BY <2>1, <2>2
<1> SUFFICES /\ ~client.misled
             /\ \A index \in DOMAIN client.blocks :
                  /\ index \in DOMAIN answer
                  /\ client.blocks[index].kind = answer[index].kind
                  /\ IsPrefix(client.blocks[index].parts, answer[index].parts)
             /\ client.ended = "end" =>
                  /\ encoder.open = {}
                  /\ [i \in DOMAIN client.blocks |-> Said(client.blocks[i])]
                       = [i \in DOMAIN answer |-> Said(answer[i])]
  <2> HIDE DEF given
  <2> QED  BY <1>1 DEF DeliveredWhole, given
<1> USE DEF WholeInv, StreamedInv
<1>2. ASSUME NEW index \in DOMAIN encoder.items
      PROVE  /\ index \in DOMAIN answer
             /\ encoder.items[index].kind = answer[index].kind
             /\ encoder.items[index].parts = answer[index].parts
             /\ encoder.items[index].secret = Nothing
             /\ IsPrefix(answer[index].parts, answer[index].parts)
  <2>1. index \in DOMAIN answer
    BY DEF Copied
  <2>2. IsPrefix(answer[index].parts, answer[index].parts)
    BY <2>1, PrefixOfItself DEF WholeShape
  <2>3. encoder.items[index] = Item(answer[index].kind, encoder.items[index].id, answer[index].parts, Nothing)
    BY DEF Copied
  <2> QED  BY <2>1, <2>2, <2>3 DEF Item
<1>3. CASE Failed \/ Going
  <2>1. ~client.misled /\ client.blocks = encoder.items /\ client.ended # "end"
    BY <1>3 DEF Failed, Going, View
  <2> QED  BY <1>2, <2>1
<1>4. CASE Finished /\ (IF exchange.native THEN RailCopied ELSE ChatCopied)
  <2> DEFINE blocks == OutputOf(exchange.protocol, encoder.items, encoder.artifacts)
  <2>1. ~client.misled /\ client.blocks = blocks /\ encoder.open = {}
    BY <1>4 DEF Finished, Concluded
  <2>2. DOMAIN encoder.items = DOMAIN answer
    BY <1>4 DEF Finished, RailCopied, ChatCopied
  <2>3. DOMAIN blocks = DOMAIN encoder.items
    BY DEF OutputOf, FinalizeAggregate, Coder
  <2>4. ASSUME NEW index \in DOMAIN encoder.items
        PROVE  /\ blocks[index].kind = answer[index].kind
               /\ blocks[index].parts = answer[index].parts
               /\ blocks[index].secret = answer[index].secret
    <3> DEFINE value == ArtifactValue(encoder.artifacts, "encrypted", encoder.items[index].id)
    <3>1. CASE exchange.protocol = "anthropic"
      <4>1. ~exchange.native /\ answer[index].secret = Nothing
        BY <1>2, <1>4, <3>1 DEF ExchangeKnown, ChatCopied
      <4> QED  BY <1>2, <3>1, <4>1 DEF OutputOf
    <3>2. CASE exchange.protocol = "responses"
      <4>1. blocks[index] = IF encoder.items[index].kind # "reasoning" THEN encoder.items[index]
                            ELSE [encoder.items[index] EXCEPT !.secret = value]
        BY <3>2 DEF OutputOf, FinalizeAggregate, Coder
      <4>2. encoder.items[index] = Item(answer[index].kind, encoder.items[index].id, answer[index].parts, Nothing)
        BY DEF Copied
      <4>3. answer[index].secret = IF encoder.items[index].kind # "reasoning" THEN Nothing ELSE value
        <5>1. CASE exchange.native
          <6>1. RailCopied /\ adapter.completed
            BY <1>4, <5>1 DEF Finished
          <6>2. encoder.items[index].id = Provided(index) /\ index \in DOMAIN answer
            BY <1>2, <6>1 DEF RailCopied
          <6> QED  BY <1>2, <6>1, <6>2 DEF RailCopied
        <5>2. CASE ~exchange.native
          <6>1. encoder.artifacts = <<>> /\ answer[index].secret = Nothing
            BY <1>2, <1>4, <5>2 DEF ChatCopied
          <6>2. value = Nothing
            BY <6>1 DEF ArtifactValue
          <6> QED  BY <6>1, <6>2
        <5> QED  BY <5>1, <5>2
      <4> HIDE DEF value, blocks
      <4> QED  BY <1>2, <4>1, <4>2, <4>3 DEF Item
    <3> QED  BY <3>1, <3>2 DEF ExchangeKnown
  <2> HIDE DEF blocks
  <2>5. \A index \in DOMAIN encoder.items : Said(blocks[index]) = Said(answer[index])
    BY <2>4 DEF Said
  <2> QED  BY <1>2, <2>1, <2>2, <2>3, <2>4, <2>5
<1> QED
  BY <1>3, <1>4

-----------------------------------------------------------------------------
(* An item put where there was none, or in place of what there was.        *)

\* What Put and Item return.
LEMMA PutAgain ==
  ASSUME NEW items, NEW index, NEW item, NEW other
  PROVE  Put(Put(items, index, item), index, other) = Put(items, index, other)
BY DEF Put

LEMMA PutIs ==
  ASSUME NEW items, NEW index, NEW item
  PROVE  /\ DOMAIN Put(items, index, item) = DOMAIN items \cup {index}
         /\ Put(items, index, item)[index] = item
         /\ \A i \in DOMAIN items \ {index} : Put(items, index, item)[i] = items[i]
         /\ Put(items, index, item) = [i \in DOMAIN Put(items, index, item) |-> Put(items, index, item)[i]]
BY DEF Put

LEMMA ItemIs ==
  ASSUME NEW kind, NEW id, NEW parts, NEW secret
  PROVE  /\ Item(kind, id, parts, secret).kind = kind /\ Item(kind, id, parts, secret).id = id
         /\ Item(kind, id, parts, secret).parts = parts /\ Item(kind, id, parts, secret).secret = secret
BY DEF Item

\* An item grows by the parts that are added to it.
IsFun(items) == items = [i \in DOMAIN items |-> items[i]]
Longer(items, index, more) == [items EXCEPT ![index].parts = @ \o more]

LEMMA PutParts ==
  ASSUME NEW items, IsFun(items),
         NEW index \in DOMAIN items, NEW kind, NEW id, NEW parts, NEW secret,
         items[index] = Item(kind, id, parts, secret), NEW more
  PROVE  Longer(items, index, more) = Put(items, index, Item(kind, id, parts \o more, secret))
<1> DEFINE item == Item(kind, id, parts \o more, secret)
           c == items[index]
           d == [c EXCEPT !.parts = c.parts \o more]
<1>1. /\ DOMAIN c = {"kind", "id", "parts", "secret"}
      /\ c.kind = kind /\ c.id = id /\ c.parts = parts /\ c.secret = secret
  BY DEF Item
<1>2. d = item
  <2> HIDE DEF c
  <2>1. /\ d = [x \in {"kind", "id", "parts", "secret"} |-> d[x]]
        /\ d.kind = kind /\ d.id = id /\ d.parts = parts \o more /\ d.secret = secret
    BY <1>1
  <2> HIDE DEF d
  <2>2. d = [kind |-> kind, id |-> id, parts |-> parts \o more, secret |-> secret]
    BY <2>1
  <2> QED  BY <2>2 DEF Item
<1>3. [items EXCEPT ![index].parts = @ \o more] = [items EXCEPT ![index] = d]
  OBVIOUS
<1> HIDE DEF item, d
<1>4. [items EXCEPT ![index] = item] = Put(items, index, item)
  BY DEF Put, IsFun
<1> QED
  BY <1>2, <1>3, <1>4 DEF item, Longer

\* Fragments of an item that was announced, and of one that is announced with them.
LEMMA TellMore ==
  ASSUME NEW protocol \in {"anthropic", "responses"}, NEW I, NEW O, NEW A, I = [j \in DOMAIN I |-> I[j]],
         NEW i \in DOMAIN I, i \in O, NEW kind, NEW id, NEW parts, NEW secret,
         I[i] = Item(kind, id, parts, secret), IsSeq(parts), NEW more, IsSeq(more)
  PROVE  Told(protocol, Held(I, O, A), Deltas(i, kind, more), Held(Put(I, i, Item(kind, id, parts \o more, secret)), O, A))
<1>1. /\ I[i].kind = kind /\ I[i].parts = parts
      /\ I[i] = Item(kind, I[i].id, I[i].parts, I[i].secret)
  BY DEF Item
<1>2. Told(protocol, Held(I, O, A), Deltas(i, kind, more), Held([I EXCEPT ![i].parts = @ \o more], O, A))
  BY <1>1, TellDeltas
<1>3. [I EXCEPT ![i].parts = @ \o more] = Put(I, i, Item(kind, id, parts \o more, secret))
  <2>1. IsFun(I)
    BY DEF IsFun
  <2>2. Longer(I, i, more) = Put(I, i, Item(kind, id, parts \o more, secret))
    BY <2>1, PutParts
  <2> QED  BY <2>2 DEF Longer
<1> QED
  BY <1>2, <1>3

\* An item is announced, and then its parts.
StartId(index, id) == IF id = Unnamed THEN Local(index) ELSE id

LEMMA TellNew ==
  ASSUME NEW protocol \in {"anthropic", "responses"}, NEW I, NEW O, NEW A, NEW i, i \notin DOMAIN I,
         NEW kind, NEW id, NEW parts, IsSeq(parts)
  PROVE  Told(protocol, Held(I, O, A), <<Opened(i, kind, id)>> \o Deltas(i, kind, parts),
              Held(Put(I, i, Item(kind, StartId(i, id), parts, Nothing)), O \cup {i}, A))
<1> DEFINE new == Item(kind, StartId(i, id), <<>>, Nothing)
           J == Put(I, i, new)
<1>1. StartItem(Opened(i, kind, id)) = new
  BY DEF StartItem, Opened, StartId
<1>2. Told(protocol, Held(I, O, A), <<Opened(i, kind, id)>>, Held(J, O \cup {i}, A))
  <2>1. Told(protocol, Held(I, O, A), <<Opened(i, kind, id)>>, Held(Put(I, i, new), O \cup {i}, A))
    <3> HIDE DEF new
    <3> QED  BY <1>1, TellOpened
  <2> QED  BY <2>1
<1>3. /\ J = [j \in DOMAIN J |-> J[j]] /\ i \in DOMAIN J /\ J[i] = new
      /\ Put(J, i, Item(kind, StartId(i, id), parts, Nothing)) = Put(I, i, Item(kind, StartId(i, id), parts, Nothing))
  <2> HIDE DEF new
  <2> QED  BY PutAgain DEF Put
<1>4. IsSeq(<<>>) /\ <<>> \o parts = parts
  BY LeadsNowhere, JoinedLast
<1>5. Told(protocol, Held(J, O \cup {i}, A), Deltas(i, kind, parts),
           Held(Put(J, i, Item(kind, StartId(i, id), <<>> \o parts, Nothing)), O \cup {i}, A))
  <2> HIDE DEF J
  <2> QED  BY <1>3, <1>4, TellMore
<1> HIDE DEF J
<1>6. Told(protocol, Held(J, O \cup {i}, A), Deltas(i, kind, parts),
           Held(Put(I, i, Item(kind, StartId(i, id), parts, Nothing)), O \cup {i}, A))
  BY <1>3, <1>4, <1>5
<1> QED
  BY <1>2, <1>6, ToldOn, Zenon

LEMMA OneDelta ==
  ASSUME NEW i, NEW kind, NEW part
  PROVE  <<Delta(i, kind, part)>> = Deltas(i, kind, <<part>>)
BY DEF Deltas

\* The first chunk starts the response.
LEMMA ToldChunk ==
  ASSUME NEW protocol \in {"anthropic", "responses"}, NEW I, NEW O, NEW A, NEW first \in BOOLEAN, NEW events, NEW after,
         Told(protocol, Held(I, O, A), events, after)
  PROVE  Told(protocol, Held(I, O, A), When(first, <<Started>>) \o events, after)
<1>1. Told(protocol, Held(I, O, A), When(first, <<Started>>), Held(I, O, A))
  BY TellStart, ToldNothing DEF When
<1> QED
  BY <1>1, ToldOn, Zenon

Begun(state) == [state EXCEPT !.started = TRUE]

\* A chunk of a chat answer starts the answer once.
LEMMA ChunkOf ==
  ASSUME NEW chat, NEW state, NEW events, NEW throws, NEW step,
         step = [state |-> state, events |-> events, throws |-> throws]
  PROVE  /\ ChatChunk(chat, step).state = Begun(state) /\ ChatChunk(chat, step).throws = throws
         /\ ChatChunk(chat, step).events = When(~chat.started, <<Started>>) \o events
BY DEF ChatChunk, Begun

-----------------------------------------------------------------------------
(* The answer grows. *)

\* An item of the answer grows by the fragments given.
LEMMA Grown ==
  ASSUME WholeShape, NEW index, NEW kind, NEW id, NEW parts, NEW secret, IsSeq(parts),
         Grows(index, Item(kind, id, parts, secret))
  PROVE  answer' = Put(answer, index,
                       IF index \in DOMAIN answer
                       THEN Item(answer[index].kind, answer[index].id, answer[index].parts \o parts, answer[index].secret)
                       ELSE Item(kind, id, parts, secret))
<1>1. CASE index \in DOMAIN answer
  <2>1. answer' = Longer(answer, index, parts)
    BY <1>1 DEF Grows, Item, Longer
  <2>2. IsFun(answer)
    BY DEF IsFun, WholeShape
  <2>3. answer[index] = Item(answer[index].kind, answer[index].id, answer[index].parts, answer[index].secret)
    BY <1>1 DEF WholeShape
  <2> QED  BY <1>1, <2>1, <2>2, <2>3, PutParts
<1>2. CASE index \notin DOMAIN answer
  BY <1>2, Zenon DEF Grows
<1> QED
  BY <1>1, <1>2

\* The items are put in step with it.
LEMMA GrownShape ==
  ASSUME WholeShape, Copied, NEW index, NEW kind, NEW id, NEW parts, NEW secret, IsSeq(parts), NEW shown,
         answer' = Put(answer, index, Item(kind, id, parts, secret)),
         encoder' = Coder(encoder'.items, encoder'.open, encoder'.artifacts, <<>>),
         \/ encoder'.items = Put(encoder.items, index, Item(kind, shown, parts, Nothing))
         \/ encoder'.items = encoder.items /\ index \notin DOMAIN encoder.items,
         adapter' = [started |-> adapter'.started, completed |-> adapter'.completed, open |-> adapter'.open,
                     artifacts |-> adapter'.artifacts, pending |-> adapter'.pending,
                     commitment |-> adapter'.commitment]
  PROVE  WholeShape' /\ Copied'
<1> DEFINE J == encoder'.items
           item == Item(kind, id, parts, secret)
<1>1. /\ DOMAIN answer' = DOMAIN answer \cup {index} /\ answer'[index] = item
      /\ \A i \in DOMAIN answer \ {index} : answer'[i] = answer[i]
      /\ answer' = [i \in DOMAIN answer' |-> answer'[i]]
  <2> HIDE DEF item
  <2>1. answer' = Put(answer, index, item)
    BY DEF item
  <2> QED  BY <2>1 DEF Put
<1>2. /\ item.kind = kind /\ item.parts = parts /\ item = Item(item.kind, item.id, item.parts, item.secret)
  BY DEF Item
<1>3. ASSUME NEW i \in DOMAIN answer'
      PROVE  /\ answer'[i] = Item(answer'[i].kind, answer'[i].id, answer'[i].parts, answer'[i].secret)
             /\ IsSeq(answer'[i].parts)
  <2> HIDE DEF item
  <2> QED  BY <1>1, <1>2 DEF WholeShape
<1>4. /\ J = [i \in DOMAIN J |-> J[i]] /\ IsFiniteSet(DOMAIN J)
      /\ \A i \in DOMAIN J : \/ i \in DOMAIN encoder.items \ {index} /\ J[i] = encoder.items[i]
                             \/ i = index /\ J[i] = Item(kind, shown, parts, Nothing)
  <2>1. CASE J = Put(encoder.items, index, Item(kind, shown, parts, Nothing))
    <3>1. IsFiniteSet(DOMAIN encoder.items \cup {index})
      BY FS_AddElement DEF WholeShape
    <3> DEFINE new == Item(kind, shown, parts, Nothing)
    <3> HIDE DEF new, J
    <3>2. J = Put(encoder.items, index, new)
      BY <2>1 DEF new
    <3>3. /\ J = [i \in DOMAIN J |-> J[i]] /\ DOMAIN J = DOMAIN encoder.items \cup {index}
          /\ \A i \in DOMAIN J : J[i] = IF i = index THEN new ELSE encoder.items[i]
      BY <3>2 DEF Put
    <3> QED  BY <3>1, <3>3 DEF new
  <2>2. CASE J = encoder.items /\ index \notin DOMAIN encoder.items
    <3> HIDE DEF J
    <3> QED  BY <2>2 DEF WholeShape
  <2> QED  BY <2>1, <2>2
<1>5. ASSUME NEW i \in DOMAIN J
      PROVE  /\ i \in DOMAIN answer'
             /\ J[i] = Item(answer'[i].kind, J[i].id, answer'[i].parts, Nothing)
  <2> HIDE DEF J, item
  <2>1. CASE i \in DOMAIN encoder.items \ {index} /\ J[i] = encoder.items[i]
    BY <1>1, <2>1 DEF Copied
  <2>2. CASE i = index /\ J[i] = Item(kind, shown, parts, Nothing)
    <3>1. J[i].id = shown
      BY <2>2 DEF Item
    <3> QED  BY <1>1, <1>2, <2>2, <3>1
  <2> QED  BY <1>4, <2>1, <2>2
<1>6. Copied'
  BY <1>5 DEF Copied
<1>7. WholeShape'
  BY <1>1, <1>3, <1>4 DEF WholeShape
<1> QED
  BY <1>6, <1>7

-----------------------------------------------------------------------------
(* A chunk of an answer that goes on. *)

\* Of an answer that goes on, encoder and client are what Held says.
LEMMA HeldNow ==
  ASSUME WholeShape, Going
  PROVE  LET held == Held(encoder.items, encoder.open, encoder.artifacts)
         IN encoder = CoderOf(held, <<>>) /\ client = held.view
<1> DEFINE i == encoder.items
           o == encoder.open
           a == encoder.artifacts
<1>1. encoder = Coder(i, o, a, <<>>) /\ client = View(i, o)
  BY DEF WholeShape, Going
<1> HIDE DEF i, o, a
<1>2. CoderOf(Held(i, o, a), <<>>) = Coder(i, o, a, <<>>) /\ Held(i, o, a).view = View(i, o)
  BY DEF CoderOf, Held
<1> QED
  BY <1>1, <1>2 DEF i, o, a

LEMMA CoderParts ==
  ASSUME NEW items, NEW open, NEW artifacts
  PROVE  LET coder == Coder(items, open, artifacts, <<>>)
         IN /\ coder.items = items /\ coder.open = open /\ coder.artifacts = artifacts
            /\ CoderOf(Held(items, open, artifacts), <<>>) = coder
            /\ Held(items, open, artifacts).view = View(items, open)
BY DEF Coder, CoderOf, Held

\* A step that goes on, and what it makes of what is held.
TellsOn(step, items, open, artifacts) ==
  /\ Told(exchange.protocol, Held(encoder.items, encoder.open, encoder.artifacts), step.events,
          Held(items, open, artifacts))
  /\ step.throws = FALSE /\ Passes(step)

\* A chunk that ends nothing is told to encoder and client alike.
LEMMA GoesOn ==
  ASSUME ExchangeKnown, WholeShape, Going, NEW step, NEW items, NEW open, NEW artifacts,
         TellsOn(step, items, open, artifacts)
  PROVE  /\ adapter' = step.state /\ exchange' = exchange
         /\ encoder' = Coder(items, open, artifacts, <<>>)
         /\ encoder'.items = items /\ encoder'.open = open /\ encoder'.artifacts = artifacts
         /\ client' = View(items, open)
<1> DEFINE held == Held(encoder.items, encoder.open, encoder.artifacts)
           after == Held(items, open, artifacts)
<1>1. encoder = CoderOf(held, <<>>) /\ client = held.view
  BY HeldNow
<1>2. Told(exchange.protocol, held, step.events, after) /\ step.throws = FALSE /\ Passes(step)
  BY DEF TellsOn
<1>3. after.view = View(items, open) /\ CoderOf(after, <<>>) = Coder(items, open, artifacts, <<>>)
  BY CoderParts
<1> HIDE DEF held, after
<1>4. adapter' = step.state /\ exchange' = exchange /\ encoder' = CoderOf(after, <<>>) /\ client' = after.view
  <2>1. exchange.protocol \in {"anthropic", "responses"}
    BY DEF ExchangeKnown
  <2>2. Holding(held)
    BY <1>1, <2>1 DEF Holding
  <2> QED  BY <1>2, <2>2, ChunkPasses
<1> QED
  BY <1>3, <1>4, CoderParts

\* An error ends what was told.
LEMMA Breaks ==
  ASSUME ExchangeKnown, WholeShape, Copied, Going, exchange.phase = "streaming",
         NEW step, NEW open, NEW artifacts,
         Told(exchange.protocol, Held(encoder.items, encoder.open, encoder.artifacts), step.events,
              Held(encoder.items, open, artifacts)),
         step.throws = TRUE, Passes(step), answer' = answer,
         step.state = [started |-> step.state.started, completed |-> step.state.completed,
                       open |-> step.state.open, artifacts |-> step.state.artifacts,
                       pending |-> step.state.pending, commitment |-> step.state.commitment]
  PROVE  WholeInv'
<1> DEFINE held == Held(encoder.items, encoder.open, encoder.artifacts)
           after == Held(encoder.items, open, artifacts)
<1>1. encoder = CoderOf(held, <<>>) /\ client = held.view
  BY HeldNow
<1>2. Told(exchange.protocol, held, step.events, after)
  OBVIOUS
<1>3. /\ after.view = View(encoder.items, open)
      /\ CoderOf(after, <<>>) = Coder(encoder.items, open, artifacts, <<>>)
  BY CoderParts
<1> HIDE DEF held, after
<1>4. /\ adapter' = step.state /\ encoder' = CoderOf(after, <<>>)
      /\ client' = Broken(after.view) /\ exchange' = OverWith(step.state.commitment)
  <2>1. exchange.protocol \in {"anthropic", "responses"}
    BY DEF ExchangeKnown
  <2>2. Holding(held)
    BY <1>1, <2>1 DEF Holding
  <2> QED  BY <1>2, <2>2, ChunkPasses
<1>5. encoder' = Coder(encoder.items, open, artifacts, <<>>) /\ encoder'.items = encoder.items
      /\ encoder'.open = open /\ encoder'.artifacts = artifacts
  BY <1>3, <1>4, CoderParts
<1>6. client'.ended = "error" /\ client'.misled = FALSE /\ client'.blocks = encoder.items
  <2> DEFINE i == encoder.items
             view == View(i, open)
  <2>1. client' = Broken(view)
    BY <1>3, <1>4
  <2> HIDE DEF i
  <2>2. view.ended = "no" /\ view.misled = FALSE /\ view.blocks = i /\ {"ended", "misled", "blocks"} \subseteq DOMAIN view
    BY DEF View
  <2> HIDE DEF view
  <2>3. Broken(view).ended = "error" /\ Broken(view).blocks = view.blocks
        /\ Broken(view).misled = (view.misled \/ view.ended = "end")
    BY <2>2 DEF Broken
  <2>4. (view.misled \/ view.ended = "end") = FALSE
    BY <2>2
  <2> QED
    BY <2>1, <2>2, <2>3, <2>4 DEF i
<1>7. ExchangeKnown' /\ exchange'.phase = "over"
  BY <1>4 DEF ExchangeKnown, OverWith
<1>8. Failed'
  BY <1>5, <1>6, <1>7 DEF Failed
<1>9. WholeShape' /\ Copied'
  BY <1>4, <1>5 DEF WholeShape, Copied
<1> QED
  BY <1>7, <1>8, <1>9 DEF WholeInv, StreamedInv

\* What there is of an item, with more of it; and whether it is aggregated.
PartsOf(index, more) == IF index \in DOMAIN answer THEN answer[index].parts \o more ELSE more
KindOf(index, kind) == IF index \in DOMAIN answer THEN answer[index].kind ELSE kind
Shows(items, index, kind, more) ==
  \/ \E shown : items = Put(encoder.items, index, Item(KindOf(index, kind), shown, PartsOf(index, more), Nothing))
  \/ items = encoder.items /\ index \notin DOMAIN encoder.items

AdapterShape(state) ==
  state = [started |-> state.started, completed |-> state.completed, open |-> state.open,
           artifacts |-> state.artifacts, pending |-> state.pending, commitment |-> state.commitment]

\* The item of a chunk grows in the answer and, if it is announced, is told.
GrowsWith(step, index, kind, id, more, secret, items, open) ==
  /\ IsSeq(more) /\ Grows(index, Item(kind, id, more, secret))
  /\ Shows(items, index, kind, more) /\ open \subseteq DOMAIN items
  /\ TellsOn(step, items, open, encoder.artifacts)
  /\ AdapterShape(step.state) /\ ~step.state.completed /\ step.state.open = open

\* The answer and what is held of it grow by the same fragments.
LEMMA GrowsAlike ==
  ASSUME ExchangeKnown, WholeShape, Copied, Going, exchange.phase = "streaming", NEW step,
         NEW index, NEW kind, NEW id, NEW more, NEW secret, NEW items, NEW open,
         GrowsWith(step, index, kind, id, more, secret, items, open)
  PROVE  /\ ExchangeKnown' /\ WholeShape' /\ Copied' /\ Going'
         /\ exchange' = exchange /\ adapter' = step.state
         /\ encoder'.items = items /\ encoder'.artifacts = encoder.artifacts
         /\ answer' = Put(answer, index,
              IF index \in DOMAIN answer THEN Item(answer[index].kind, answer[index].id, PartsOf(index, more), answer[index].secret)
              ELSE Item(kind, id, PartsOf(index, more), secret))
<1> USE DEF GrowsWith, AdapterShape
<1> DEFINE parts == PartsOf(index, more)
<1>0. PICK shown : \/ items = Put(encoder.items, index, Item(KindOf(index, kind), shown, parts, Nothing))
                   \/ items = encoder.items /\ index \notin DOMAIN encoder.items
  BY DEF Shows
<1>1. /\ adapter' = step.state /\ exchange' = exchange
      /\ encoder' = Coder(items, open, encoder.artifacts, <<>>)
      /\ encoder'.items = items /\ encoder'.open = open /\ encoder'.artifacts = encoder.artifacts
      /\ client' = View(items, open)
  BY GoesOn
<1>2. answer' = Put(answer, index,
              IF index \in DOMAIN answer THEN Item(answer[index].kind, answer[index].id, parts, answer[index].secret)
              ELSE Item(kind, id, parts, secret))
  BY Grown DEF PartsOf
<1>3. IsSeq(parts)
  BY Joined DEF WholeShape, PartsOf
<1> HIDE DEF parts
<1>4. WholeShape' /\ Copied'
  <2>1. CASE index \in DOMAIN answer
    <3> DEFINE k == answer[index].kind
               d == answer[index].id
               s == answer[index].secret
    <3>1. answer' = Put(answer, index, Item(k, d, parts, s))
      BY <1>2, <2>1
    <3>2. \/ encoder'.items = Put(encoder.items, index, Item(k, shown, parts, Nothing))
          \/ encoder'.items = encoder.items /\ index \notin DOMAIN encoder.items
      BY <1>0, <1>1, <2>1 DEF KindOf
    <3>3. encoder' = Coder(encoder'.items, encoder'.open, encoder'.artifacts, <<>>)
      BY <1>1
    <3>4. adapter' = [started |-> adapter'.started, completed |-> adapter'.completed, open |-> adapter'.open,
                      artifacts |-> adapter'.artifacts, pending |-> adapter'.pending,
                      commitment |-> adapter'.commitment]
      BY <1>1
    <3> HIDE DEF k, d, s
    <3> QED  BY <1>3, <3>1, <3>2, <3>3, <3>4, GrownShape
  <2>2. CASE index \notin DOMAIN answer
    <3>1. answer' = Put(answer, index, Item(kind, id, parts, secret))
      BY <1>2, <2>2
    <3>2. \/ encoder'.items = Put(encoder.items, index, Item(kind, shown, parts, Nothing))
          \/ encoder'.items = encoder.items /\ index \notin DOMAIN encoder.items
      BY <1>0, <1>1, <2>2 DEF KindOf
    <3>3. encoder' = Coder(encoder'.items, encoder'.open, encoder'.artifacts, <<>>)
      BY <1>1
    <3>4. adapter' = [started |-> adapter'.started, completed |-> adapter'.completed, open |-> adapter'.open,
                      artifacts |-> adapter'.artifacts, pending |-> adapter'.pending,
                      commitment |-> adapter'.commitment]
      BY <1>1
    <3> QED  BY <1>3, <3>1, <3>2, <3>3, <3>4, GrownShape
  <2> QED  BY <2>1, <2>2
<1>5. Going'
  BY <1>1 DEF Going
<1>6. ExchangeKnown'
  BY <1>1 DEF ExchangeKnown
<1> QED
  BY <1>1, <1>2, <1>4, <1>5, <1>6 DEF parts

-----------------------------------------------------------------------------
(* The chat adapter. *)

\* What the invariant says while a chat answer is streamed.
LEMMA ChatStreams ==
  ASSUME WholeInv, exchange.stream, exchange.phase = "streaming", ~exchange.native
  PROVE  /\ ExchangeKnown /\ WholeShape /\ Copied /\ ChatCopied /\ (Going \/ Finished)
         /\ ~adapter.completed => Going
         /\ AdapterShape(adapter)
BY DEF WholeInv, StreamedInv, Failed, Finished, AdapterShape, WholeShape

\* A call that is not announced is pending, an announced one is not.
Pends(items, index, more, pending) ==
  /\ pending = [s \in Slots |-> pending[s]]
  /\ \A s \in Slots : s + 1 # index => pending[s] = adapter.pending[s]
  /\ index \in DOMAIN items => \A s \in Slots : s + 1 = index => pending[s] = <<>>
  /\ index \notin DOMAIN items =>
       /\ PartsOf(index, more) # <<>> /\ \E s \in Slots : index = s + 1
       /\ \A s \in Slots : s + 1 = index => pending[s] = PartsOf(index, more)

\* A chat adapter's step that goes on.
ChatStep(step, items) ==
  /\ Told(exchange.protocol, Held(encoder.items, encoder.open, encoder.artifacts), step.events,
          Held(items, DOMAIN items, encoder.artifacts))
  /\ step.throws = FALSE /\ Passes(step)
  /\ AdapterShape(step.state) /\ step.state.completed = FALSE /\ step.state.open = DOMAIN items

\* A chunk of a chat answer that gives fragments, told or pending.
LEMMA ChatGrows ==
  ASSUME WholeInv, SlotsApart, exchange.stream, exchange.phase = "streaming", ~exchange.native,
         ~adapter.completed, NEW step,
         NEW index, NEW kind, NEW id, NEW more, IsSeq(more), kind = KindAt(index),
         Grows(index, Item(kind, id, more, Nothing)),
         NEW items, Shows(items, index, kind, more), Pends(items, index, more, step.state.pending), Named(items),
         ChatStep(step, items)
  PROVE  WholeInv'
<1> DEFINE parts == PartsOf(index, more)
           pending == step.state.pending
<1>0. ExchangeKnown /\ WholeShape /\ Copied /\ ChatCopied /\ Going
  BY ChatStreams
<1>1. index \in DOMAIN answer => answer[index].kind = kind /\ answer[index].secret = Nothing
  BY <1>0 DEF ChatCopied
<1>2. /\ ExchangeKnown' /\ WholeShape' /\ Copied' /\ Going'
      /\ exchange' = exchange /\ adapter' = step.state
      /\ encoder'.items = items /\ encoder'.artifacts = encoder.artifacts
      /\ answer' = Put(answer, index,
              IF index \in DOMAIN answer THEN Item(answer[index].kind, answer[index].id, parts, answer[index].secret)
              ELSE Item(kind, id, parts, Nothing))
  <2> DEFINE open == DOMAIN items
  <2>1. GrowsWith(step, index, kind, id, more, Nothing, items, open)
    BY DEF ChatStep, GrowsWith, TellsOn
  <2> HIDE DEF open
  <2> QED
    BY <1>0, <2>1, GrowsAlike
<1> DEFINE item == IF index \in DOMAIN answer THEN Item(answer[index].kind, answer[index].id, parts, answer[index].secret)
                   ELSE Item(kind, id, parts, Nothing)
<1>3. item.kind = kind /\ item.parts = parts /\ item.secret = Nothing
  BY <1>1, ItemIs
<1>4. /\ DOMAIN answer' = DOMAIN answer \cup {index}
      /\ answer'[index] = item /\ \A i \in DOMAIN answer \ {index} : answer'[i] = answer[i]
  <2> HIDE DEF item
  <2>1. answer' = Put(answer, index, item)
    BY <1>2 DEF item
  <2> QED  BY <2>1 DEF Put
<1> HIDE DEF item
<1>5. DOMAIN items = IF index \in DOMAIN items THEN DOMAIN encoder.items \cup {index} ELSE DOMAIN encoder.items
  BY DEF Put, Shows
<1>6. ASSUME NEW i \in DOMAIN answer'
      PROVE  answer'[i].secret = Nothing /\ answer'[i].kind = KindAt(i)
  <2>1. CASE i = index
    BY <1>3, <1>4, <2>1
  <2>2. CASE i # index
    BY <1>0, <1>4, <2>2 DEF ChatCopied
  <2> QED  BY <2>1, <2>2
<1>7. index \in DOMAIN items \/ (index \notin DOMAIN items /\ parts # <<>> /\ \E s \in Slots : index = s + 1)
  BY DEF Pends
<1>8. ASSUME NEW i \in DOMAIN answer' \ DOMAIN items
      PROVE  answer'[i].parts # <<>> /\ \E s \in Slots : i = s + 1
  <2>1. CASE i = index
    BY <1>3, <1>4, <1>7, <2>1
  <2>2. CASE i # index
    <3>1. i \in DOMAIN answer \ DOMAIN encoder.items
      BY <1>4, <1>5, <2>2
    <3> QED  BY <1>0, <1>4, <2>2, <3>1 DEF ChatCopied
  <2> QED  BY <2>1, <2>2
<1>9. ASSUME NEW s \in Slots
      PROVE  pending[s] = IF s + 1 \in DOMAIN answer' \ DOMAIN items THEN answer'[s + 1].parts ELSE <<>>
  <2>1. CASE s + 1 = index
    <3>1. index \in DOMAIN items => pending[s] = <<>>
      BY <2>1 DEF Pends
    <3>2. index \notin DOMAIN items => pending[s] = parts
      BY <2>1 DEF Pends
    <3> QED  BY <1>3, <1>4, <2>1, <3>1, <3>2
  <2>2. CASE s + 1 # index
    <3>1. pending[s] = adapter.pending[s]
      BY <2>2 DEF Pends
    <3>2. s + 1 \in DOMAIN answer' \ DOMAIN items <=> s + 1 \in DOMAIN answer \ DOMAIN encoder.items
      BY <1>4, <1>5, <2>2
    <3>3. s + 1 \in DOMAIN answer => answer'[s + 1] = answer[s + 1]
      BY <1>4, <2>2
    <3>4. adapter.pending[s] = IF s + 1 \in DOMAIN answer \ DOMAIN encoder.items THEN answer[s + 1].parts ELSE <<>>
      BY <1>0 DEF ChatCopied
    <3> QED  BY <3>1, <3>2, <3>3, <3>4
  <2> QED  BY <2>1, <2>2
<1>10. ChatCopied'
  <2>1. encoder'.artifacts = <<>> /\ adapter'.completed = FALSE /\ adapter'.open = DOMAIN encoder'.items
        /\ adapter'.pending = pending /\ pending = [s \in Slots |-> pending[s]]
    BY <1>0, <1>2 DEF ChatCopied, ChatStep, Pends
  <2>2. Named(encoder.items)'
    BY <1>2 DEF Named
  <2> QED
    BY <1>2, <1>6, <1>8, <1>9, <2>1, <2>2 DEF ChatCopied
<1> QED
  BY <1>2, <1>10 DEF WholeInv, StreamedInv

\* Text or reasoning in a chunk of a chat answer.
LEMMA ChatSaysWhole ==
  ASSUME WholeInv, SlotsApart, ChatSaysMore
  PROVE  WholeInv'
<1>1. /\ exchange.phase = "streaming" /\ exchange.stream /\ ~exchange.native /\ ~adapter.completed
  BY DEF ChatSaysMore, Answering, WholeInv, ExchangeKnown
<1>2. PICK kind \in {"text", "reasoning"} :
        /\ Grows(IndexOf(kind), Item(kind, Unnamed, <<Part>>, Nothing))
        /\ Receives(ChatChunk(adapter, ChatDelta(adapter, kind, Part)))
  BY DEF ChatSaysMore
<1> DEFINE part == Part
           index == IndexOf(kind)
           step == ChatChunk(adapter, ChatDelta(adapter, kind, part))
           state == [adapter EXCEPT !.open = @ \cup {index}]
           told == When(index \notin adapter.open, <<Opened(index, kind, Unnamed)>>) \o <<Delta(index, kind, part)>>
<1>3. /\ step.state = Begun(state) /\ step.throws = FALSE
      /\ step.events = When(~adapter.started, <<Started>>) \o told
  <2>1. ChatDelta(adapter, kind, part) = [state |-> state, events |-> told, throws |-> FALSE]
    BY Zenon DEF ChatDelta, Yields
  <2> HIDE DEF state, told
  <2> QED  BY <2>1, ChunkOf, SMTT(30)
<1>4. /\ ExchangeKnown /\ WholeShape /\ Copied /\ ChatCopied /\ Going /\ AdapterShape(adapter)
  BY <1>1, ChatStreams
<1>5. index \in {0, 1000} /\ kind = KindAt(index)
  BY DEF IndexOf, KindAt
<1>6. \A s \in Slots : s + 1 # index
  BY <1>5, TranslationAssumption DEF SlotsApart
<1> HIDE DEF part, index
<1>7. index \in DOMAIN answer <=> index \in DOMAIN encoder.items
  BY <1>4, <1>6 DEF ChatCopied, Copied
<1>8. encoder.open = DOMAIN encoder.items /\ adapter.open = DOMAIN encoder.items /\ encoder.artifacts = <<>>
  BY <1>1, <1>4 DEF Going, ChatCopied
<1>9. IsSeq(<<part>>)
  BY LeadsOne
<1> DEFINE shown == IF index \in DOMAIN answer THEN encoder.items[index].id ELSE StartId(index, Unnamed)
           parts == IF index \in DOMAIN answer THEN answer[index].parts \o <<part>> ELSE <<part>>
           items == Put(encoder.items, index, Item(kind, shown, parts, Nothing))
<1>10. Told(exchange.protocol, Held(encoder.items, encoder.open, encoder.artifacts), told,
            Held(items, encoder.open \cup {index}, encoder.artifacts))
  <2>0. exchange.protocol \in {"anthropic", "responses"}
    BY <1>4 DEF ExchangeKnown
  <2>1. CASE index \in DOMAIN answer
    <3>1. told = Deltas(index, kind, <<part>>)
      <4>1. IsSeq(<<Delta(index, kind, part)>>)
        BY LeadsOne
      <4>2. told = <<>> \o <<Delta(index, kind, part)>>
        BY <1>7, <1>8, <2>1 DEF When
      <4> HIDE DEF told
      <4> QED  BY <4>1, <4>2, JoinedLast, OneDelta
    <3>2. encoder.items[index] = Item(kind, encoder.items[index].id, answer[index].parts, Nothing)
          /\ IsSeq(answer[index].parts)
      BY <1>4, <1>5, <1>7, <2>1 DEF Copied, ChatCopied, WholeShape
    <3>3. encoder.items = [j \in DOMAIN encoder.items |-> encoder.items[j]]
      BY <1>4 DEF WholeShape
    <3> DEFINE id == encoder.items[index].id
               old == answer[index].parts
    <3>4. encoder.items[index] = Item(kind, id, old, Nothing) /\ IsSeq(old)
          /\ items = Put(encoder.items, index, Item(kind, id, old \o <<part>>, Nothing))
          /\ index \in DOMAIN encoder.items /\ index \in encoder.open
          /\ encoder.open \cup {index} = encoder.open
      BY <1>7, <1>8, <2>1, <3>2
    <3> HIDE DEF told, items, id, old
    <3>5. Told(exchange.protocol, Held(encoder.items, encoder.open, encoder.artifacts), told,
            Held(items, encoder.open, encoder.artifacts))
      BY <1>9, <2>0, <3>1, <3>3, <3>4, TellMore
    <3> QED  BY <3>4, <3>5
  <2>2. CASE index \notin DOMAIN answer
    <3>1. told = <<Opened(index, kind, Unnamed)>> \o Deltas(index, kind, <<part>>)
      BY <1>7, <1>8, <2>2, OneDelta DEF When
    <3>2. items = Put(encoder.items, index, Item(kind, StartId(index, Unnamed), <<part>>, Nothing))
          /\ index \notin DOMAIN encoder.items
      BY <1>7, <2>2
    <3> HIDE DEF told, items
    <3> QED  BY <1>9, <2>0, <3>1, <3>2, TellNew
  <2> QED  BY <2>1, <2>2
<1>11. Told(exchange.protocol, Held(encoder.items, encoder.open, encoder.artifacts), step.events,
            Held(items, DOMAIN items, encoder.artifacts))
  <2>1. encoder.open \cup {index} = DOMAIN items
    BY <1>8 DEF Put
  <2>2. (~adapter.started) \in BOOLEAN /\ exchange.protocol \in {"anthropic", "responses"}
    BY <1>4 DEF ExchangeKnown
  <2> DEFINE first == ~adapter.started
  <2>3. step.events = When(first, <<Started>>) \o told /\ first \in BOOLEAN
    BY <1>3, <2>2
  <2> HIDE DEF first, step, told, items
  <2> QED  BY <1>10, <2>1, <2>2, <2>3, ToldChunk
<1>12. AdapterShape(step.state) /\ step.state.completed = FALSE
       /\ step.state.open = DOMAIN items /\ step.state.pending = adapter.pending
  <2>1. DOMAIN items = adapter.open \cup {index}
    BY <1>8 DEF Put
  <2>2. adapter.completed = FALSE
    BY <1>1, <1>4 DEF AdapterShape
  <2> HIDE DEF step, items
  <2> QED  BY <1>3, <1>4, <2>1, <2>2 DEF AdapterShape, Begun
<1>13. Receives(step) /\ Grows(index, Item(kind, Unnamed, <<part>>, Nothing))
  BY <1>2 DEF part, index
<1>14. Shows(items, index, kind, <<part>>)
  <2>1. KindOf(index, kind) = kind /\ PartsOf(index, <<part>>) = parts
    BY <1>4, <1>5 DEF KindOf, PartsOf, ChatCopied
  <2> HIDE DEF parts, shown
  <2> QED  BY <2>1 DEF Shows
<1>15. Pends(items, index, <<part>>, step.state.pending)
  <2>1. index \in DOMAIN items
    BY DEF Put
  <2>2. adapter.pending = [s \in Slots |-> adapter.pending[s]]
    BY <1>4 DEF ChatCopied
  <2> HIDE DEF items, step
  <2> QED  BY <1>6, <1>12, <2>1, <2>2 DEF Pends
<1>18. Named(items)
  <2>1. CASE index = 1000
    <3>1. shown = Local(1000)
      BY <1>4, <1>7, <2>1 DEF ChatCopied, Named, StartId
    <3> HIDE DEF shown, parts
    <3>2. items[1000] = Item(kind, shown, parts, Nothing)
      BY <2>1 DEF Put
    <3> QED  BY <3>1, <3>2, ItemIs DEF Named
  <2>2. CASE index # 1000
    <3>1. Named(encoder.items)
      BY <1>4 DEF ChatCopied
    <3> HIDE DEF shown, parts
    <3> QED  BY <2>2, <3>1 DEF Named, Put
  <2> QED  BY <2>1, <2>2
<1> HIDE DEF step, items
<1>16. ChatStep(step, items)
  BY <1>3, <1>11, <1>12, <1>13 DEF ChatStep, Receives
<1> DEFINE more == <<part>>
<1>17. IsSeq(more) /\ Grows(index, Item(kind, Unnamed, more, Nothing)) /\ Shows(items, index, kind, more)
       /\ Pends(items, index, more, step.state.pending)
  BY <1>9, <1>13, <1>14, <1>15
<1> HIDE DEF more
<1> QED
  BY <1>1, <1>5, <1>16, <1>17, <1>18, ChatGrows

\* A chunk that yields, of a chat answer that goes on.
Yielding(step, state, told) ==
  /\ step = ChatChunk(adapter, [state |-> state, events |-> told, throws |-> FALSE])
  /\ Passes(step)

\* The adapter's state and what it yields, followed by the encoder's items.
Follows(state, told, items) ==
  /\ Told(exchange.protocol, Held(encoder.items, encoder.open, encoder.artifacts), told,
          Held(items, DOMAIN items, encoder.artifacts))
  /\ AdapterShape(state) /\ state.completed = FALSE /\ state.open = DOMAIN items

LEMMA ChatYields ==
  ASSUME WholeInv, exchange.stream, exchange.phase = "streaming", ~exchange.native, ~adapter.completed,
         NEW state, NEW told, NEW items, Follows(state, told, items), NEW step, Yielding(step, state, told)
  PROVE  ChatStep(step, items) /\ step.state.pending = state.pending
<1> DEFINE first == ~adapter.started
<1>1. /\ step.state = Begun(state) /\ step.throws = FALSE
      /\ step.events = When(first, <<Started>>) \o told
  BY DEF ChatChunk, Begun, Yielding
<1>2. exchange.protocol \in {"anthropic", "responses"} /\ first \in BOOLEAN
  BY DEF WholeInv, ExchangeKnown
<1> HIDE DEF first
<1>3. Told(exchange.protocol, Held(encoder.items, encoder.open, encoder.artifacts), step.events,
           Held(items, DOMAIN items, encoder.artifacts))
  <2> DEFINE after == Held(items, DOMAIN items, encoder.artifacts)
  <2>1. Told(exchange.protocol, Held(encoder.items, encoder.open, encoder.artifacts), told, after)
    BY DEF Follows
  <2> HIDE DEF after
  <2>2. Told(exchange.protocol, Held(encoder.items, encoder.open, encoder.artifacts),
             When(first, <<Started>>) \o told, after)
    BY <1>2, <2>1, ToldChunk
  <2> QED  BY <1>1, <2>2 DEF after
<1>4. /\ AdapterShape(step.state) /\ step.state.completed = FALSE
      /\ step.state.open = DOMAIN items /\ step.state.pending = state.pending
  BY <1>1 DEF AdapterShape, Begun, Follows
<1> QED
  BY <1>1, <1>3, <1>4 DEF ChatStep, Yielding

\* The state of the adapter after the fragment of a call.
Called(slot, open, pending) == [adapter EXCEPT !.open = open, !.pending[slot] = pending]

LEMMA CalledIs ==
  ASSUME AdapterShape(adapter), adapter.pending = [s \in Slots |-> adapter.pending[s]],
         NEW slot \in Slots, NEW open, NEW pending
  PROVE  LET state == Called(slot, open, pending)
         IN /\ AdapterShape(state) /\ state.completed = adapter.completed /\ state.open = open
            /\ state.pending = [s \in Slots |-> state.pending[s]]
            /\ state.pending[slot] = pending
            /\ \A s \in Slots \ {slot} : state.pending[s] = adapter.pending[s]
<1> DEFINE state == Called(slot, open, pending)
<1>1. /\ state = [adapter EXCEPT !.open = open, !.pending = [adapter.pending EXCEPT ![slot] = pending]]
  BY DEF Called, AdapterShape
<1>2. /\ state.completed = adapter.completed /\ state.open = open
      /\ state.pending = [adapter.pending EXCEPT ![slot] = pending]
      /\ AdapterShape(state)
  <2> HIDE DEF state
  <2> QED  BY <1>1 DEF AdapterShape
<1> HIDE DEF state
<1> QED
  BY <1>2 DEF state

\* A call's fragments: told once the call has its name, pending until then.
LEMMA ChatCallsWhole ==
  ASSUME WholeInv, SlotsApart, ChatCalls
  PROVE  WholeInv'
<1>1. /\ exchange.phase = "streaming" /\ exchange.stream /\ ~exchange.native /\ ~adapter.completed
  BY DEF ChatCalls, Answering, WholeInv, ExchangeKnown
<1>2. PICK slot \in Slots, named \in BOOLEAN, more \in {<<>>} \cup (IF More THEN {<<Part>>} ELSE {}) :
        /\ named => slot + 1 \notin adapter.open
        /\ named \/ more # <<>>
        /\ Grows(slot + 1, Item("call", Provided(slot + 1), more, Nothing))
        /\ Receives(ChatChunk(adapter, ChatCall(adapter, slot, Provided(slot + 1), named, more)))
  BY Zenon DEF ChatCalls
<1> DEFINE index == slot + 1
           id == Provided(index)
           opens == named /\ index \notin adapter.open
           isOpen == opens \/ index \in adapter.open
           state == Called(slot, IF opens THEN adapter.open \cup {index} ELSE adapter.open,
                           IF opens THEN <<>> ELSE IF isOpen THEN adapter.pending[slot]
                                                   ELSE adapter.pending[slot] \o more)
           told == When(opens, <<Opened(index, "call", id)>> \o Deltas(index, "call", adapter.pending[slot]))
                     \o When(isOpen, Deltas(index, "call", more))
           step == ChatChunk(adapter, [state |-> state, events |-> told, throws |-> FALSE])
<1>3. /\ ExchangeKnown /\ WholeShape /\ Copied /\ ChatCopied /\ Going /\ AdapterShape(adapter)
      /\ exchange.protocol \in {"anthropic", "responses"}
  BY <1>1, ChatStreams DEF ExchangeKnown
<1>4. Yielding(step, state, told)
  <2>1. ChatCall(adapter, slot, id, named, more) = [state |-> state, events |-> told, throws |-> FALSE]
    BY DEF ChatCall, Yields, Called
  <2>2. Passes(ChatChunk(adapter, ChatCall(adapter, slot, id, named, more)))
    BY <1>2 DEF Receives
  <2> HIDE DEF state, told, opens, isOpen
  <2> QED  BY <2>1, <2>2 DEF Yielding
<1> HIDE DEF step
<1>5. index = slot + 1 /\ KindAt(index) = "call" /\ \A s \in Slots : s + 1 = index => s = slot
  BY TranslationAssumption DEF SlotsApart, KindAt
<1>6. IsSeq(more)
  BY LeadsOne, LeadsNowhere
<1>7. Grows(index, Item("call", id, more, Nothing)) /\ (named => index \notin adapter.open) /\ (named \/ more # <<>>)
  BY <1>2
<1>8. /\ encoder.open = DOMAIN encoder.items /\ adapter.open = DOMAIN encoder.items /\ encoder.artifacts = <<>>
      /\ encoder.items = [j \in DOMAIN encoder.items |-> encoder.items[j]]
      /\ adapter.pending = [s \in Slots |-> adapter.pending[s]] /\ adapter.completed = FALSE
  BY <1>1, <1>3 DEF Going, ChatCopied, AdapterShape, WholeShape
<1>9. /\ AdapterShape(state) /\ state.completed = FALSE
      /\ state.open = IF opens THEN adapter.open \cup {index} ELSE adapter.open
      /\ state.pending = [s \in Slots |-> state.pending[s]]
      /\ state.pending[slot] = IF opens THEN <<>> ELSE IF isOpen THEN adapter.pending[slot]
                                                   ELSE adapter.pending[slot] \o more
      /\ \A s \in Slots \ {slot} : state.pending[s] = adapter.pending[s]
  <2> DEFINE o == IF opens THEN adapter.open \cup {index} ELSE adapter.open
             p == IF opens THEN <<>> ELSE IF isOpen THEN adapter.pending[slot] ELSE adapter.pending[slot] \o more
  <2>1. state = Called(slot, o, p)
    OBVIOUS
  <2> HIDE DEF state, o, p
  <2>2. /\ AdapterShape(state) /\ state.completed = adapter.completed
        /\ state.open = o /\ state.pending = [s \in Slots |-> state.pending[s]]
        /\ state.pending[slot] = p
        /\ \A s \in Slots \ {slot} : state.pending[s] = adapter.pending[s]
    BY <1>3, <1>8, <2>1, CalledIs
  <2> QED  BY <1>8, <2>2 DEF o, p
<1>10. adapter.pending[slot] = IF index \in DOMAIN answer \ DOMAIN encoder.items THEN answer[index].parts ELSE <<>>
  BY <1>3 DEF ChatCopied
<1>11. index \in DOMAIN answer => IsSeq(answer[index].parts) /\ answer[index].kind = "call"
  BY <1>3, <1>5 DEF WholeShape, ChatCopied
<1> HIDE DEF index, id, state
<1>12. /\ IsSeq(adapter.pending[slot]) /\ IsSeq(PartsOf(index, more)) /\ KindOf(index, "call") = "call"
       /\ index \notin DOMAIN encoder.items => PartsOf(index, more) = adapter.pending[slot] \o more
  <2>1. IsSeq(<<>>) /\ <<>> \o more = more
    BY <1>6, LeadsNowhere, JoinedLast
  <2> QED  BY <1>6, <1>10, <1>11, <2>1, Joined DEF PartsOf, KindOf
<1>16. index # 1000 /\ Named(encoder.items)
  BY <1>3, <1>5 DEF ChatCopied, KindAt
\* The arguments of an open call are told.
<1>13. CASE index \in adapter.open
  <2> DEFINE old == answer[index].parts
             name == encoder.items[index].id
             items == Put(encoder.items, index, Item("call", name, old \o more, Nothing))
  <2>1. ~opens /\ isOpen /\ index \in DOMAIN encoder.items /\ index \in encoder.open /\ index \in DOMAIN answer
    BY <1>3, <1>7, <1>8, <1>13 DEF Copied
  <2>2. encoder.items[index] = Item("call", name, old, Nothing) /\ IsSeq(old)
    BY <1>3, <1>11, <2>1 DEF Copied
  <2>3. told = Deltas(index, "call", more)
    <3>1. told = <<>> \o Deltas(index, "call", more)
      BY <2>1 DEF When
    <3>2. IsSeq(Deltas(index, "call", more))
      <4>1. Told(exchange.protocol, Held(encoder.items, encoder.open, encoder.artifacts), Deltas(index, "call", more),
                 Held(items, encoder.open, encoder.artifacts))
        <5> HIDE DEF old, name
        <5> QED  BY <1>3, <1>6, <1>8, <2>1, <2>2, TellMore
      <4> QED  BY <4>1 DEF Told
    <3> HIDE DEF told
    <3> QED  BY <3>1, <3>2, JoinedLast
  <2>4. DOMAIN items = encoder.open /\ index \in DOMAIN items
    BY <1>8, <2>1 DEF Put
  <2>5. Told(exchange.protocol, Held(encoder.items, encoder.open, encoder.artifacts), told,
             Held(items, DOMAIN items, encoder.artifacts))
    <3>1. Told(exchange.protocol, Held(encoder.items, encoder.open, encoder.artifacts), Deltas(index, "call", more),
               Held(items, encoder.open, encoder.artifacts))
      <4> HIDE DEF old, name
      <4> QED  BY <1>3, <1>6, <1>8, <2>1, <2>2, TellMore
    <3> HIDE DEF told, items
    <3> QED  BY <2>3, <2>4, <3>1
  <2>6. state.open = DOMAIN items /\ \A s \in Slots : state.pending[s] = adapter.pending[s]
    BY <1>8, <1>9, <2>1, <2>4
  <2>7. Shows(items, index, "call", more)
    <3>1. PartsOf(index, more) = old \o more
      BY <2>1 DEF PartsOf
    <3> HIDE DEF old, name
    <3> QED  BY <1>12, <3>1 DEF Shows
  <2>8. adapter.pending[slot] = <<>>
    BY <1>10, <2>1
  <2>11. Named(items)
    <3> HIDE DEF old, name
    <3> QED  BY <1>16 DEF Named, Put
  <2> HIDE DEF told, items
  <2>9. ChatStep(step, items) /\ step.state.pending = state.pending
    <3>1. Follows(state, told, items)
      BY <1>9, <2>5, <2>6 DEF Follows
    <3> QED  BY <1>1, <1>4, <3>1, ChatYields
  <2>10. Pends(items, index, more, step.state.pending)
    BY <1>5, <1>9, <2>4, <2>6, <2>8, <2>9 DEF Pends
  <2> QED  BY <1>1, <1>5, <1>6, <1>7, <2>7, <2>9, <2>10, <2>11, ChatGrows
\* The name opens the call: what was pending is told first.
<1>14. CASE opens
  <2> DEFINE old == adapter.pending[slot]
             items == Put(encoder.items, index, Item("call", StartId(index, id), old \o more, Nothing))
  <2>1. isOpen /\ index \notin DOMAIN encoder.items
    BY <1>8, <1>14
  <2>2. told = (<<Opened(index, "call", id)>> \o Deltas(index, "call", old)) \o Deltas(index, "call", more)
    BY <1>14, <2>1 DEF When
  <2>3. DOMAIN items = encoder.open \cup {index}
    BY <1>8 DEF Put
  <2>4. Told(exchange.protocol, Held(encoder.items, encoder.open, encoder.artifacts), told,
             Held(items, DOMAIN items, encoder.artifacts))
    <3> DEFINE item == Item("call", StartId(index, id), old, Nothing)
               J == Put(encoder.items, index, item)
               first == <<Opened(index, "call", id)>> \o Deltas(index, "call", old)
    <3>1. Told(exchange.protocol, Held(encoder.items, encoder.open, encoder.artifacts), first,
               Held(J, encoder.open \cup {index}, encoder.artifacts))
      <4> HIDE DEF old
      <4> QED  BY <1>3, <1>12, <2>1, TellNew DEF old
    <3>2. J = [j \in DOMAIN J |-> J[j]] /\ index \in DOMAIN J /\ J[index] = item
      <4> HIDE DEF item
      <4> QED  BY DEF Put
    <3>3. Told(exchange.protocol, Held(J, encoder.open \cup {index}, encoder.artifacts), Deltas(index, "call", more),
               Held(Put(J, index, Item("call", StartId(index, id), old \o more, Nothing)), encoder.open \cup {index}, encoder.artifacts))
      <4> HIDE DEF J, old
      <4> QED  BY <1>3, <1>6, <1>12, <3>2, TellMore DEF old
    <3>4. Put(J, index, Item("call", StartId(index, id), old \o more, Nothing)) = items
      BY PutAgain
    <3> HIDE DEF J, first, items, told
    <3>5. told = first \o Deltas(index, "call", more)
      BY <2>2 DEF first
    <3> QED  BY <2>3, <3>1, <3>3, <3>4, <3>5, ToldOn
  <2>5. state.open = DOMAIN items /\ index \in DOMAIN items
    BY <1>8, <1>9, <1>14, <2>3
  <2>6. Shows(items, index, "call", more)
    <3>1. PartsOf(index, more) = old \o more
      BY <1>12, <2>1
    <3> HIDE DEF old
    <3> QED  BY <1>12, <3>1 DEF Shows
  <2>9. Named(items)
    <3> HIDE DEF old
    <3> QED  BY <1>16 DEF Named, Put
  <2> HIDE DEF told, items
  <2>7. ChatStep(step, items) /\ step.state.pending = state.pending
    <3>1. Follows(state, told, items)
      BY <1>9, <2>4, <2>5 DEF Follows
    <3> QED  BY <1>1, <1>4, <3>1, ChatYields
  <2>8. Pends(items, index, more, step.state.pending)
    BY <1>5, <1>9, <1>14, <2>5, <2>7 DEF Pends
  <2> QED  BY <1>1, <1>5, <1>6, <1>7, <2>6, <2>7, <2>8, <2>9, ChatGrows
\* Arguments without a name wait.
<1>15. CASE ~isOpen
  <2> DEFINE items == encoder.items
  <2>1. ~opens /\ more # <<>> /\ index \notin DOMAIN encoder.items
    BY <1>7, <1>8, <1>15
  <2>2. told = <<>>
    <3>1. told = <<>> \o <<>> /\ IsSeq(<<>>)
      BY <1>15, <2>1, LeadsNowhere DEF When
    <3> HIDE DEF told
    <3> QED  BY <3>1, JoinedLast
  <2>3. Told(exchange.protocol, Held(encoder.items, encoder.open, encoder.artifacts), told,
             Held(items, DOMAIN items, encoder.artifacts))
    <3> HIDE DEF told
    <3> QED  BY <1>8, <2>2, ToldNothing
  <2>4. state.open = DOMAIN items /\ state.pending[slot] = PartsOf(index, more)
    BY <1>8, <1>9, <1>12, <1>15, <2>1
  <2>5. PartsOf(index, more) # <<>>
    <3>1. Len(adapter.pending[slot] \o more) = Len(adapter.pending[slot]) + Len(more)
      BY <1>6, <1>12, Joined
    <3>2. Len(adapter.pending[slot]) \in Nat /\ Len(more) > 0 /\ Len(<<>>) = 0
      <4>1. more = <<Part>>
        BY <2>1
      <4> DEFINE part == Part
      <4> HIDE DEF part
      <4>2. Len(<<part>>) = 1
        OBVIOUS
      <4> QED  BY <1>12, <4>1, <4>2, Sequenced DEF part
    <3> QED  BY <1>12, <2>1, <3>1, <3>2
  <2>6. Shows(items, index, "call", more)
    BY <2>1 DEF Shows
  <2> HIDE DEF told, items
  <2>7. ChatStep(step, items) /\ step.state.pending = state.pending
    <3>1. Follows(state, told, items)
      BY <1>9, <2>3, <2>4 DEF Follows
    <3> QED  BY <1>1, <1>4, <3>1, ChatYields
  <2>8. Pends(items, index, more, step.state.pending)
    BY <1>2, <1>5, <1>9, <2>1, <2>4, <2>5, <2>7 DEF Pends, items
  <2>9. Named(items)
    BY <1>16 DEF items
  <2> QED  BY <1>1, <1>5, <1>6, <1>7, <2>6, <2>7, <2>8, <2>9, ChatGrows
<1> QED
  BY <1>13, <1>14, <1>15

\* A finite set, element by element.
LEMMA Counted ==
  ASSUME NEW S, IsFiniteSet(S)
  PROVE  LET all == SetToSeq(S)
         IN /\ IsSeq(all) /\ DOMAIN all = 1..Len(all) /\ Len(all) \in Nat
            /\ \A j \in 1..Len(all) : all[j] \in S
            /\ \A j, l \in 1..Len(all) : all[j] = all[l] => j = l
            /\ {all[j] : j \in 1..Len(all)} = S
<1> DEFINE n == Cardinality(S)
           all == SetToSeq(S)
<1>1. n \in Nat /\ ExistsBijection(1..n, S)
  BY FS_CardinalityType
<1>2. \E f \in [1..n -> S] : IsInjective(f)
  BY <1>1 DEF ExistsBijection, Bijection, Injection, IsInjective
<1>3. all \in [1..n -> S] /\ IsInjective(all)
  BY <1>2 DEF SetToSeq
<1> HIDE DEF all
<1>4. IsSeq(all) /\ Len(all) = n /\ DOMAIN all = 1..n
  BY <1>1, <1>3, SequenceOf
<1>5. all \in Surjection(1..n, S)
  <2>1. all \in Injection(1..n, S)
    BY <1>3 DEF Injection
  <2>2. IsFiniteSet(1..n) /\ Cardinality(1..n) = n
    BY <1>1, FS_Interval
  <2> HIDE DEF n
  <2> QED  BY <2>1, <2>2, FS_Injection DEF n
<1>6. {all[j] : j \in 1..n} = S
  BY <1>3, <1>5 DEF Surjection
<1> HIDE DEF n
<1> QED
  BY <1>1, <1>3, <1>4, <1>6 DEF IsInjective, all

\* The state of an adapter that finished, and of the chat adapter's.
Completes(state) == [state EXCEPT !.open = {}, !.completed = TRUE]

\* What completing and starting leave of the adapter.
LEMMA CompletesIs ==
  ASSUME NEW chat, AdapterShape(chat)
  PROVE  /\ AdapterShape(Completes(chat)) /\ Completes(chat).completed = TRUE /\ Completes(chat).open = {}
         /\ Completes(chat).started = chat.started /\ Completes(chat).pending = chat.pending
<1> DEFINE state == Completes(chat)
<1>1. state = [chat EXCEPT !.open = {}, !.completed = TRUE]
  BY DEF Completes
<1> HIDE DEF state
<1> QED
  BY <1>1 DEF AdapterShape, state

LEMMA BegunIs ==
  ASSUME NEW chat, AdapterShape(chat)
  PROVE  /\ AdapterShape(Begun(chat)) /\ Begun(chat).started = TRUE
         /\ Begun(chat).completed = chat.completed /\ Begun(chat).open = chat.open
         /\ Begun(chat).pending = chat.pending
<1> DEFINE state == Begun(chat)
<1>1. state = [chat EXCEPT !.started = TRUE]
  BY DEF Begun
<1> HIDE DEF state
<1> QED
  BY <1>1 DEF AdapterShape, state

\* What is told before a chunk ends the answer.
LEMMA ToldUsage ==
  ASSUME NEW protocol \in {"anthropic", "responses"}, NEW I, NEW O, NEW A, NEW usage \in BOOLEAN
  PROVE  Told(protocol, Held(I, O, A), When(usage, <<Usage>>), Held(I, O, A))
BY TellUsage, ToldNothing DEF When

\* The end of an answer, after what closes it.
LEMMA FinishesWith ==
  ASSUME ExchangeKnown, WholeShape, Copied, exchange.phase = "streaming", Going, NEW step, NEW artifacts,
         Told(exchange.protocol, Held(encoder.items, encoder.open, encoder.artifacts), step.events,
              Concluded(exchange.protocol, encoder.items, artifacts, FALSE)),
         step.throws = FALSE, Passes(step), answer' = answer,
         AdapterShape(step.state), step.state.completed = TRUE, step.state.open = {}
  PROVE  /\ ExchangeKnown' /\ WholeShape' /\ Copied' /\ Finished'
         /\ exchange' = exchange /\ adapter' = step.state
         /\ encoder'.items = encoder.items /\ encoder'.artifacts = artifacts
<1> DEFINE held == Held(encoder.items, encoder.open, encoder.artifacts)
           i == encoder.items
           after == Concluded(exchange.protocol, i, artifacts, FALSE)
<1>1. exchange.protocol \in {"anthropic", "responses"} /\ encoder = CoderOf(held, <<>>) /\ client = held.view
  BY HeldNow DEF ExchangeKnown
<1>2. Told(exchange.protocol, held, step.events, after)
  OBVIOUS
<1>3. CoderOf(after, <<>>) = Coder(i, {}, artifacts, <<>>)
  <2> HIDE DEF i
  <2> QED  BY DEF Concluded, CoderOf
<1> HIDE DEF held, after, i
<1>4. /\ adapter' = step.state /\ exchange' = exchange
      /\ encoder' = CoderOf(after, <<>>) /\ client' = after.view
  <2>1. Holding(held)
    BY <1>1 DEF Holding
  <2> QED  BY <1>2, <2>1, ChunkPasses
<1>5. encoder' = Coder(i, {}, artifacts, <<>>) /\ encoder'.items = i /\ encoder'.open = {} /\ encoder'.artifacts = artifacts
  BY <1>3, <1>4 DEF Coder
<1>6. WholeShape' /\ Copied'
  BY <1>4, <1>5 DEF WholeShape, Copied, AdapterShape, i
<1>7. Finished'
  <2>1. client' = Concluded(exchange'.protocol, encoder'.items, encoder'.artifacts, FALSE).view
    BY <1>4, <1>5 DEF after
  <2> QED  BY <1>4, <1>5, <2>1 DEF Finished
<1>8. ExchangeKnown'
  BY <1>4 DEF ExchangeKnown
<1> QED
  BY <1>4, <1>5, <1>6, <1>7, <1>8 DEF i

\* The last chunk of a chat answer closes what is open.
LEMMA ChatFinishesWhole ==
  ASSUME WholeInv, ChatFinishes
  PROVE  WholeInv'
<1>1. /\ exchange.phase = "streaming" /\ exchange.stream /\ ~exchange.native /\ ~adapter.completed /\ answer' = answer
  BY DEF ChatFinishes, Answering, WholeInv, ExchangeKnown
<1>2. PICK usage \in BOOLEAN : Receives(ChatChunk(adapter, ChatFinish(adapter, usage)))
  BY DEF ChatFinishes
<1>3. /\ ExchangeKnown /\ WholeShape /\ Copied /\ ChatCopied /\ Going /\ AdapterShape(adapter)
      /\ exchange.protocol \in {"anthropic", "responses"}
  BY <1>1, ChatStreams DEF ExchangeKnown
<1> DEFINE before == When(usage, <<Usage>>)
           closed == SetToSeq(adapter.open)
           closings == [j \in DOMAIN closed |-> Closed(closed[j])]
           first == ~adapter.started
           step == ChatChunk(adapter, ChatFinish(adapter, usage))
           held == Held(encoder.items, encoder.open, encoder.artifacts)
<1>4. Passes(step) /\ first \in BOOLEAN
  BY <1>2 DEF Receives
<1>5. Told(exchange.protocol, held, When(first, <<Started>>) \o before, held)
  <2>1. Told(exchange.protocol, held, before, held)
    BY <1>3, ToldUsage
  <2> HIDE DEF before, first
  <2> QED  BY <1>3, <1>4, <2>1, ToldChunk
<1>6. CASE \E s \in Slots : adapter.pending[s] # <<>>
  <2>1. ChatFinish(adapter, usage) = [state |-> adapter, events |-> before, throws |-> TRUE]
    BY <1>6 DEF ChatFinish, Throws
  <2>2. /\ step.state = Begun(adapter) /\ step.throws = TRUE
        /\ step.events = When(first, <<Started>>) \o before
    <3> HIDE DEF before
    <3> QED  BY <2>1 DEF ChatChunk, Begun
  <2>3. AdapterShape(step.state)
    BY <1>3, <2>2 DEF AdapterShape, Begun
  <2> HIDE DEF step, before, first, held
  <2>4. Told(exchange.protocol, held, step.events, held)
    BY <1>5, <2>2
  <2> QED
    BY <1>1, <1>3, <1>4, <2>2, <2>3, <2>4, Breaks DEF held, AdapterShape
<1>7. CASE ~\E s \in Slots : adapter.pending[s] # <<>>
  <2> DEFINE events == before \o closings \o <<Completed>>
  <2>1. ChatFinish(adapter, usage) = [state |-> Completes(adapter), events |-> events, throws |-> FALSE]
    BY <1>7 DEF ChatFinish, Yields, Completes
  <2>2. /\ step.state = Begun(Completes(adapter)) /\ step.throws = FALSE
        /\ step.events = When(first, <<Started>>) \o events
    <3> HIDE DEF events
    <3> QED  BY <2>1 DEF ChatChunk, Begun
  <2>3. AdapterShape(step.state) /\ step.state.completed = TRUE /\ step.state.open = {} /\ step.state.started = TRUE
        /\ step.state.pending = adapter.pending
    <3> DEFINE state == Completes(adapter)
    <3>1. AdapterShape(state) /\ state.completed = TRUE /\ state.open = {} /\ state.pending = adapter.pending
      BY <1>3, CompletesIs
    <3> HIDE DEF step, state
    <3> QED  BY <2>2, <3>1, BegunIs DEF state
  <2>4. adapter.open = DOMAIN encoder.items /\ encoder.open = adapter.open /\ IsFiniteSet(adapter.open)
        /\ encoder.artifacts = <<>>
    BY <1>1, <1>3 DEF Going, ChatCopied, WholeShape
  <2>5. Told(exchange.protocol, held, closings, Held(encoder.items, {}, encoder.artifacts))
    <3>1. /\ IsSeq(closed) /\ DOMAIN closed = 1..Len(closed)
          /\ \A j \in 1..Len(closed) : closed[j] \in encoder.open
          /\ \A j, l \in 1..Len(closed) : closed[j] = closed[l] => j = l
          /\ {closed[j] : j \in 1..Len(closed)} = encoder.open
      BY <2>4, Counted
    <3> HIDE DEF closed
    <3>2. Told(exchange.protocol, held, closings,
               Held(encoder.items, encoder.open \ {closed[j] : j \in 1..Len(closed)}, encoder.artifacts))
      BY <1>3, <3>1, TellClosings
    <3>3. encoder.open \ {closed[j] : j \in 1..Len(closed)} = {}
      BY <3>1
    <3> HIDE DEF closings, held
    <3> QED  BY <3>2, <3>3
  <2>6. Told(exchange.protocol, held, events, Concluded(exchange.protocol, encoder.items, encoder.artifacts, FALSE))
    <3> DEFINE middle == Held(encoder.items, {}, encoder.artifacts)
               after == Concluded(exchange.protocol, encoder.items, encoder.artifacts, FALSE)
    <3>1. Told(exchange.protocol, held, before, held)
      BY <1>3, ToldUsage
    <3>2. Told(exchange.protocol, middle, <<Completed>>, after)
      <4> DEFINE i == encoder.items
                 a == encoder.artifacts
      <4>1. Told(exchange.protocol, Held(i, {}, a), <<Completed>>, Concluded(exchange.protocol, i, a, FALSE))
        <5> HIDE DEF i, a
        <5> QED  BY <1>3, TellCompleted
      <4> QED  BY <4>1
    <3>3. Told(exchange.protocol, held, closings, middle)
      BY <2>5
    <3> HIDE DEF held, before, closings, middle, after
    <3>4. Told(exchange.protocol, held, before \o closings, middle)
      BY <3>1, <3>3, ToldOn
    <3> DEFINE early == before \o closings
    <3> HIDE DEF early
    <3>5. Told(exchange.protocol, held, early \o <<Completed>>, after)
      BY <3>2, <3>4, ToldOn DEF early
    <3> QED  BY <3>5 DEF early, after
  <2>7. Told(exchange.protocol, held, step.events, Concluded(exchange.protocol, encoder.items, encoder.artifacts, FALSE))
    <3> DEFINE after == Concluded(exchange.protocol, encoder.items, encoder.artifacts, FALSE)
    <3>1. Told(exchange.protocol, held, events, after)
      BY <2>6
    <3> HIDE DEF after, events, first, step
    <3>2. Told(exchange.protocol, held, When(first, <<Started>>) \o events, after)
      BY <1>3, <1>4, <3>1, ToldChunk
    <3> QED  BY <2>2, <3>2 DEF after
  <2>8. DOMAIN answer = DOMAIN encoder.items
    <3>1. ASSUME NEW index \in DOMAIN answer \ DOMAIN encoder.items
          PROVE  FALSE
      <4>1. PICK s \in Slots : index = s + 1
        BY <1>3, <3>1 DEF ChatCopied
      <4>2. adapter.pending[s] = answer[index].parts /\ answer[index].parts # <<>>
        BY <1>3, <3>1, <4>1 DEF ChatCopied
      <4> QED  BY <1>7, <4>2
    <3> QED  BY <1>3, <3>1 DEF Copied
  <2> HIDE DEF step, events, first, before, closings
  <2>9. /\ ExchangeKnown' /\ WholeShape' /\ Copied' /\ Finished'
        /\ exchange' = exchange /\ adapter' = step.state
        /\ encoder'.items = encoder.items /\ encoder'.artifacts = encoder.artifacts
    <3> DEFINE artifacts == encoder.artifacts
    <3>1. Told(exchange.protocol, Held(encoder.items, encoder.open, encoder.artifacts), step.events,
               Concluded(exchange.protocol, encoder.items, artifacts, FALSE))
      BY <2>7
    <3> HIDE DEF artifacts
    <3>2. /\ ExchangeKnown' /\ WholeShape' /\ Copied' /\ Finished'
          /\ exchange' = exchange /\ adapter' = step.state
          /\ encoder'.items = encoder.items /\ encoder'.artifacts = artifacts
      BY <1>1, <1>3, <1>4, <2>2, <2>3, <3>1, FinishesWith
    <3> QED  BY <3>2 DEF artifacts
  <2>10. ChatCopied'
    BY <1>1, <1>3, <2>3, <2>4, <2>8, <2>9 DEF ChatCopied
  <2> QED  BY <1>1, <2>9, <2>10 DEF WholeInv, StreamedInv
<1> QED
  BY <1>6, <1>7

\* Usage that arrives after the answer's last event.
LEMMA ChatUsageLateWhole ==
  ASSUME WholeInv, ChatUsageLate
  PROVE  WholeInv'
<1>1. /\ exchange.phase = "streaming" /\ exchange.stream /\ ~exchange.native /\ adapter.completed /\ answer' = answer
  BY DEF ChatUsageLate, Answering, WholeInv, ExchangeKnown
<1>2. /\ ExchangeKnown /\ WholeShape /\ Copied /\ ChatCopied /\ Finished /\ AdapterShape(adapter)
      /\ exchange.protocol \in {"anthropic", "responses"}
  BY <1>1, ChatStreams DEF ExchangeKnown, Going
<1> DEFINE step == ChatChunk(adapter, Yields(adapter, <<Usage>>))
           i == encoder.items
           a == encoder.artifacts
<1>3. PICK late \in BOOLEAN : client = Concluded(exchange.protocol, i, a, late).view
  BY <1>2 DEF Finished
<1>4. Passes(step)
  BY DEF ChatUsageLate, Receives
<1>5. step.state = Begun(adapter) /\ step.throws = FALSE /\ step.events = <<Usage>>
  <2> DEFINE told == <<Usage>>
  <2>1. IsSeq(told)
    BY LeadsOne
  <2>2. When(~adapter.started, <<Started>>) = <<>>
    BY <1>1, <1>2 DEF When, ChatCopied
  <2>3. step = ChatChunk(adapter, [state |-> adapter, events |-> told, throws |-> FALSE])
    BY DEF Yields
  <2> HIDE DEF told, step
  <2>4. step.state = Begun(adapter) /\ step.throws = FALSE /\ step.events = When(~adapter.started, <<Started>>) \o told
    BY <2>3 DEF ChatChunk, Begun
  <2> QED  BY <2>1, <2>2, <2>4, JoinedLast DEF told
<1>6. encoder = Coder(i, {}, a, <<>>)
  BY <1>2 DEF WholeShape, Finished
<1> HIDE DEF step, i, a
<1>7. PICK later \in BOOLEAN : Told(exchange.protocol, Concluded(exchange.protocol, i, a, late), <<Usage>>,
                                   Concluded(exchange.protocol, i, a, later))
  BY <1>2, TellUsageLate
<1> DEFINE held == Concluded(exchange.protocol, i, a, late)
           after == Concluded(exchange.protocol, i, a, later)
<1>8. /\ CoderOf(held, <<>>) = Coder(i, {}, a, <<>>) /\ CoderOf(after, <<>>) = Coder(i, {}, a, <<>>)
  BY DEF Concluded, CoderOf
<1>9. /\ adapter' = step.state /\ exchange' = exchange
      /\ encoder' = CoderOf(after, <<>>) /\ client' = after.view
  <2>1. Holding(held)
    BY <1>2, <1>3, <1>6, <1>8 DEF Holding
  <2>2. Told(exchange.protocol, held, step.events, after)
    BY <1>5, <1>7
  <2> HIDE DEF held, after
  <2> QED  BY <1>4, <1>5, <2>1, <2>2, ChunkPasses
<1>10. encoder' = encoder
  BY <1>6, <1>8, <1>9
<1>11. /\ AdapterShape(adapter') /\ adapter'.started = TRUE /\ adapter'.completed = adapter.completed
       /\ adapter'.open = adapter.open /\ adapter'.pending = adapter.pending
  BY <1>2, <1>5, <1>9, BegunIs
<1>12. Finished'
  <2>1. client' = Concluded(exchange'.protocol, encoder'.items, encoder'.artifacts, later).view
    BY <1>9, <1>10 DEF i, a
  <2>2. adapter'.completed = TRUE /\ adapter'.open = {} /\ encoder'.open = {}
    BY <1>2, <1>10, <1>11 DEF Finished
  <2> QED  BY <2>1, <2>2 DEF Finished
<1>13. WholeShape' /\ Copied' /\ ChatCopied' /\ ExchangeKnown'
  <2>1. WholeShape'
    BY <1>1, <1>2, <1>10, <1>11 DEF WholeShape, AdapterShape
  <2>2. Copied' /\ ExchangeKnown'
    BY <1>1, <1>2, <1>9, <1>10 DEF Copied, ExchangeKnown
  <2>3. ChatCopied'
    BY <1>1, <1>2, <1>10, <1>11 DEF ChatCopied
  <2> QED  BY <2>1, <2>2, <2>3
<1> QED
  BY <1>1, <1>9, <1>12, <1>13 DEF WholeInv, StreamedInv

\* What the invariant says while an answer of the rail is streamed.
LEMMA RailStreams ==
  ASSUME WholeInv, exchange.stream, exchange.phase = "streaming", exchange.native
  PROVE  /\ ExchangeKnown /\ WholeShape /\ Copied /\ RailCopied /\ (Going \/ Finished)
         /\ exchange.protocol = "responses"
         /\ ~adapter.completed => Going
         /\ adapter.completed => Finished
         /\ AdapterShape(adapter)
BY DEF WholeInv, ExchangeKnown, StreamedInv, Failed, Finished, Going, AdapterShape, WholeShape

\* Whoever provides it, an answer that ends is complete, or is an error.
LEMMA BodyEndsWhole ==
  ASSUME WholeInv, exchange.stream, exchange.phase = "streaming", answer' = answer,
         NEW step, BodyEnds(step),
         step = IF adapter.started /\ adapter.completed THEN Yields(adapter, <<>>) ELSE Throws(adapter, <<>>)
  PROVE  WholeInv'
<1>1. /\ ExchangeKnown /\ WholeShape /\ Copied /\ (Going \/ Finished) /\ AdapterShape(adapter)
      /\ ~adapter.completed => Going
      /\ adapter.completed => Finished /\ adapter.started
      /\ exchange.protocol \in {"anthropic", "responses"}
      /\ IF exchange.native THEN RailCopied ELSE ChatCopied
  <2>1. CASE exchange.native
    BY <2>1, RailStreams DEF RailCopied
  <2>2. CASE ~exchange.native
    BY <2>2, ChatStreams DEF ChatCopied, ExchangeKnown, Going
  <2> QED  BY <2>1, <2>2
<1>2. CASE adapter.completed
  <2>1. step.throws = FALSE /\ Finish(encoder)
    BY <1>1, <1>2 DEF Yields, Finish, Finished
  <2>2. exchange' = [exchange EXCEPT !.phase = "over"] /\ UNCHANGED <<adapter, encoder, client>>
    BY <2>1 DEF BodyEnds
  <2>3. /\ ExchangeKnown' /\ exchange'.phase = "over" /\ exchange'.native = exchange.native
        /\ exchange'.protocol = exchange.protocol /\ exchange'.number = exchange.number
    BY <1>1, <2>2 DEF ExchangeKnown
  <2>4. WholeShape' /\ Copied' /\ Finished'
    BY <1>1, <1>2, <2>2, <2>3 DEF WholeShape, Copied, Finished
  <2>5. IF exchange'.native THEN RailCopied' ELSE ChatCopied'
    <3>1. CASE exchange.native
      <4>1. \A index : Provided(index)' = Provided(index)
        BY <2>3 DEF Provided, Now
      <4> QED  BY <1>1, <2>2, <2>3, <3>1, <4>1 DEF RailCopied, SecretOf
    <3>2. CASE ~exchange.native
      BY <1>1, <2>2, <2>3, <3>2 DEF ChatCopied
    <3> QED  BY <3>1, <3>2
  <2> QED  BY <2>3, <2>4, <2>5 DEF WholeInv, StreamedInv
<1>3. CASE ~adapter.completed
  <2> DEFINE fails == [step EXCEPT !.throws = TRUE]
             held == Held(encoder.items, encoder.open, encoder.artifacts)
  <2>1. step = [state |-> adapter, events |-> <<>>, throws |-> TRUE]
    BY <1>3 DEF Throws
  <2>2. Passes(fails)
    BY <2>1 DEF BodyEnds
  <2>3. fails.state = adapter /\ fails.events = <<>> /\ fails.throws = TRUE
    BY <2>1
  <2> HIDE DEF fails, held
  <2>4. Told(exchange.protocol, held, fails.events, held)
    BY <2>3, ToldNothing
  <2> QED
    BY <1>1, <1>3, <2>2, <2>3, <2>4, Breaks DEF held, AdapterShape
<1> QED
  BY <1>2, <1>3

\* A chat body that ends, with or without the last chunk.
LEMMA ChatEndsWhole ==
  ASSUME WholeInv, ChatEnds
  PROVE  WholeInv'
<1>1. /\ exchange.phase = "streaming" /\ exchange.stream /\ ~exchange.native /\ answer' = answer
      /\ BodyEnds(ChatEnd(adapter))
  BY DEF ChatEnds, Answering, WholeInv, ExchangeKnown
<1>2. adapter.completed => adapter.started
  BY <1>1, ChatStreams DEF ChatCopied
<1>3. ChatEnd(adapter) = IF adapter.started /\ adapter.completed THEN Yields(adapter, <<>>) ELSE Throws(adapter, <<>>)
  BY <1>2 DEF ChatEnd
<1> DEFINE step == ChatEnd(adapter)
<1> HIDE DEF step
<1>4. BodyEnds(step) /\ step = IF adapter.started /\ adapter.completed THEN Yields(adapter, <<>>) ELSE Throws(adapter, <<>>)
  BY <1>1, <1>3 DEF step
<1> QED
  BY <1>1, <1>4, BodyEndsWhole

\* A body of the rail that ends, with or without its last event.
LEMMA RailEndsWhole ==
  ASSUME WholeInv, RailEnds
  PROVE  WholeInv'
<1>1. /\ exchange.phase = "streaming" /\ exchange.stream /\ answer' = answer /\ BodyEnds(RailEnd(adapter))
  BY DEF RailEnds, Answering, WholeInv, ExchangeKnown
<1> DEFINE step == RailEnd(adapter)
<1>2. BodyEnds(step) /\ step = IF adapter.started /\ adapter.completed THEN Yields(adapter, <<>>) ELSE Throws(adapter, <<>>)
  BY <1>1 DEF RailEnd
<1> HIDE DEF step
<1> QED
  BY <1>1, <1>2, BodyEndsWhole

-----------------------------------------------------------------------------
(* The rail's adapter. *)

\* A step that changes neither what is given nor what is aggregated.
LEMMA RailStays ==
  ASSUME WholeInv, exchange.stream, exchange.phase = "streaming", exchange.native, ~adapter.completed,
         answer' = answer, NEW step, NEW open, open \subseteq encoder.open,
         TellsOn(step, encoder.items, open, encoder.artifacts),
         AdapterShape(step.state), step.state.completed = FALSE, step.state.open = open,
         step.state.artifacts = adapter.artifacts
  PROVE  WholeInv'
<1>1. ExchangeKnown /\ WholeShape /\ Copied /\ RailCopied /\ Going
  BY RailStreams
<1>2. /\ adapter' = step.state /\ exchange' = exchange
      /\ encoder' = Coder(encoder.items, open, encoder.artifacts, <<>>)
      /\ encoder'.items = encoder.items /\ encoder'.open = open /\ encoder'.artifacts = encoder.artifacts
      /\ client' = View(encoder.items, open)
  BY <1>1, GoesOn
<1>3. ExchangeKnown' /\ Copied'
  BY <1>1, <1>2 DEF ExchangeKnown, Copied
<1>4. WholeShape'
  BY <1>1, <1>2 DEF WholeShape, AdapterShape
<1>5. Going'
  BY <1>1, <1>2 DEF Going
<1>6. RailCopied'
  <2>1. \A index : Provided(index)' = Provided(index)
    BY <1>2 DEF Provided, Now
  <2>2. open \subseteq DOMAIN answer
    BY <1>1 DEF Going, RailCopied
  <2> QED  BY <1>1, <1>2, <2>1, <2>2 DEF RailCopied, SecretOf
<1> QED
  BY <1>2, <1>3, <1>4, <1>5, <1>6 DEF WholeInv, StreamedInv

\* The first event of the rail tells nothing.
LEMMA RailStartsWhole ==
  ASSUME WholeInv, RailStarts
  PROVE  WholeInv'
<1>1. /\ exchange.phase = "streaming" /\ exchange.stream /\ exchange.native /\ ~adapter.started /\ answer' = answer
      /\ Passes(RailCreated(adapter))
  BY DEF RailStarts, Answering, WholeInv, ExchangeKnown, Receives
<1>2. /\ ExchangeKnown /\ WholeShape /\ Copied /\ RailCopied /\ Going /\ AdapterShape(adapter) /\ ~adapter.completed
      /\ exchange.protocol \in {"anthropic", "responses"}
  BY <1>1, RailStreams DEF RailCopied
<1> DEFINE step == RailCreated(adapter)
           open == encoder.open
<1>3. /\ step.state = Begun(adapter) /\ step.events = <<Started>> /\ step.throws = FALSE
  BY <1>1 DEF RailCreated, Yields, When, Begun
<1>4. TellsOn(step, encoder.items, open, encoder.artifacts)
  <2>1. Told(exchange.protocol, Held(encoder.items, encoder.open, encoder.artifacts), <<Started>>,
             Held(encoder.items, encoder.open, encoder.artifacts))
    BY <1>2, TellStart
  <2> HIDE DEF step
  <2> QED  BY <1>1, <1>3, <2>1 DEF TellsOn, step
<1> HIDE DEF step
<1>5. /\ AdapterShape(step.state) /\ step.state.completed = FALSE /\ step.state.open = open
      /\ step.state.artifacts = adapter.artifacts
  <2>1. AdapterShape(Begun(adapter)) /\ Begun(adapter).completed = adapter.completed
        /\ Begun(adapter).open = adapter.open /\ Begun(adapter).artifacts = adapter.artifacts
    BY <1>2, BegunIs DEF Begun, AdapterShape
  <2>2. adapter.completed = FALSE /\ adapter.open = encoder.open
    BY <1>2 DEF Going, AdapterShape
  <2> QED  BY <1>3, <2>1, <2>2
<1> HIDE DEF open
<1>6. open \subseteq encoder.open
  BY DEF open
<1> QED
  BY <1>1, <1>2, <1>4, <1>5, <1>6, RailStays

\* An item of the rail that is done is closed.
LEMMA RailFinishesItemWhole ==
  ASSUME WholeInv, RailFinishesItem
  PROVE  WholeInv'
<1>1. /\ exchange.phase = "streaming" /\ exchange.stream /\ exchange.native /\ answer' = answer
  BY DEF RailFinishesItem, Answering, WholeInv, ExchangeKnown
<1>2. PICK index \in adapter.open : Passes(RailDone(adapter, index))
  BY DEF RailFinishesItem, Receives
<1>3. /\ ExchangeKnown /\ WholeShape /\ Copied /\ RailCopied /\ Going /\ AdapterShape(adapter)
      /\ adapter.completed = FALSE /\ adapter.open = encoder.open
      /\ exchange.protocol \in {"anthropic", "responses"}
  <2>1. /\ ExchangeKnown /\ WholeShape /\ Copied /\ RailCopied /\ (Going \/ Finished) /\ AdapterShape(adapter)
        /\ exchange.protocol \in {"anthropic", "responses"}
    BY <1>1, RailStreams
  <2>2. Going
    BY <1>2, <2>1 DEF Finished
  <2>3. ~adapter.completed /\ adapter.open = encoder.open
    BY <2>2 DEF Going
  <2> QED  BY <2>1, <2>2, <2>3 DEF AdapterShape
<1> DEFINE step == RailDone(adapter, index)
           open == encoder.open \ {index}
           state == [adapter EXCEPT !.open = @ \ {index}]
<1>4. /\ step.state = state /\ step.events = <<Closed(index)>> /\ step.throws = FALSE
  BY <1>2 DEF RailDone, Yields, When
<1>5. TellsOn(step, encoder.items, open, encoder.artifacts)
  <2>1. Told(exchange.protocol, Held(encoder.items, encoder.open, encoder.artifacts), <<Closed(index)>>,
             Held(encoder.items, encoder.open \ {index}, encoder.artifacts))
    BY <1>2, <1>3, TellClosed
  <2> HIDE DEF step
  <2> QED  BY <1>2, <1>4, <2>1 DEF TellsOn, step
<1> HIDE DEF step
<1>6. /\ AdapterShape(step.state) /\ step.state.completed = FALSE /\ step.state.open = open
      /\ step.state.artifacts = adapter.artifacts
  <2>1. AdapterShape(state) /\ state.completed = FALSE /\ state.open = open /\ state.artifacts = adapter.artifacts
    BY <1>3 DEF AdapterShape
  <2> HIDE DEF state
  <2> QED  BY <1>4, <2>1
<1> HIDE DEF open
<1>7. open \subseteq encoder.open
  BY DEF open
<1> QED
  BY <1>1, <1>3, <1>5, <1>6, <1>7, RailStays

\* A new item, or more of one, is told as it is given; of a new item the opaque
\* value may be captured already.
GivesMore(step, index, kind, more, secret, items) ==
  /\ index \in DOMAIN answer \/ index = Cardinality(DOMAIN answer)
  /\ Grows(index, Item(kind, Provided(index), more, secret))
  /\ index \notin DOMAIN answer /\ kind # "reasoning" => secret = Nothing
  /\ items = Put(encoder.items, index, Item(KindOf(index, kind), Provided(index), PartsOf(index, more), Nothing))
  /\ TellsOn(step, items, encoder.open \cup {index}, encoder.artifacts)
  /\ AdapterShape(step.state) /\ step.state.completed = FALSE
  /\ step.state.open = encoder.open \cup {index}
  /\ \/ step.state.artifacts = adapter.artifacts
     \/ /\ index \notin DOMAIN answer /\ kind = "reasoning" /\ secret # Nothing
        /\ step.state.artifacts = Append(adapter.artifacts, Artifact("encrypted", Provided(index), secret))

\* An event of the rail that gives fragments or an opaque value.
LEMMA RailGrows ==
  ASSUME WholeInv, exchange.stream, exchange.phase = "streaming", exchange.native, ~adapter.completed,
         NEW step, NEW index, NEW kind, NEW more, NEW secret, NEW items, IsSeq(more),
         GivesMore(step, index, kind, more, secret, items)
  PROVE  WholeInv'
<1> DEFINE id == Provided(index)
           parts == PartsOf(index, more)
           open == encoder.open \cup {index}
           n == Cardinality(DOMAIN answer)
<1>1. /\ ExchangeKnown /\ WholeShape /\ Copied /\ RailCopied /\ Going
      /\ encoder.open \subseteq DOMAIN encoder.items
  BY RailStreams DEF Going
<1>2. Grows(index, Item(kind, id, more, secret)) /\ Shows(items, index, kind, more)
      /\ TellsOn(step, items, open, encoder.artifacts)
      /\ AdapterShape(step.state) /\ ~step.state.completed /\ step.state.open = open
  BY DEF GivesMore, Shows
<1>3. /\ DOMAIN items = DOMAIN encoder.items \cup {index} /\ items[index].id = id
      /\ \A i \in DOMAIN encoder.items \ {index} : items[i] = encoder.items[i]
  <2> DEFINE item == Item(KindOf(index, kind), id, parts, Nothing)
  <2>1. items = Put(encoder.items, index, item) /\ item.id = id
    BY ItemIs DEF GivesMore
  <2> HIDE DEF item, id
  <2> QED  BY <2>1 DEF Put
<1> HIDE DEF id, parts, open
<1>4. open \subseteq DOMAIN items
  BY <1>1, <1>3 DEF open
<1>5. /\ ExchangeKnown' /\ WholeShape' /\ Copied' /\ Going'
      /\ exchange' = exchange /\ adapter' = step.state
      /\ encoder'.items = items /\ encoder'.artifacts = encoder.artifacts
      /\ answer' = Put(answer, index,
           IF index \in DOMAIN answer THEN Item(answer[index].kind, answer[index].id, PartsOf(index, more), answer[index].secret)
           ELSE Item(kind, id, PartsOf(index, more), secret))
  <2>1. GrowsWith(step, index, kind, id, more, secret, items, open)
    BY <1>2, <1>4 DEF GrowsWith
  <2> QED  BY <1>1, <2>1, GrowsAlike
<1> DEFINE item == IF index \in DOMAIN answer THEN Item(answer[index].kind, answer[index].id, PartsOf(index, more), answer[index].secret)
                   ELSE Item(kind, id, PartsOf(index, more), secret)
<1>6. /\ DOMAIN answer' = DOMAIN answer \cup {index}
      /\ answer'[index] = item /\ \A i \in DOMAIN answer \ {index} : answer'[i] = answer[i]
  <2> HIDE DEF item
  <2>1. answer' = Put(answer, index, item)
    BY <1>5 DEF item
  <2> QED  BY <2>1 DEF Put
<1>7. /\ item.id = id
      /\ index \in DOMAIN answer => item.kind = answer[index].kind /\ item.secret = answer[index].secret
      /\ index \notin DOMAIN answer => item.kind = kind /\ item.secret = secret
  BY <1>1, ItemIs DEF RailCopied, id
<1> HIDE DEF item
<1>8. \A i : Provided(i)' = Provided(i)
  BY <1>5 DEF Provided, Now
<1>9. /\ DOMAIN answer' = 0..(Cardinality(DOMAIN answer') - 1)
  <2>1. IsFiniteSet(DOMAIN answer) /\ n \in Nat /\ DOMAIN answer = 0..(n - 1)
    BY <1>1, FS_CardinalityType DEF WholeShape, RailCopied
  <2>2. CASE index \in DOMAIN answer
    BY <1>6, <2>1, <2>2
  <2>3. CASE index \notin DOMAIN answer
    <3>1. index = n /\ Cardinality(DOMAIN answer \cup {index}) = n + 1
      BY <2>1, <2>3, FS_AddElement DEF GivesMore
    <3> HIDE DEF n
    <3>2. DOMAIN answer \cup {index} = 0..n
      BY <2>1, <3>1
    <3> QED  BY <1>6, <2>1, <3>1, <3>2
  <2> QED  BY <2>2, <2>3
<1>10. DOMAIN answer' = DOMAIN encoder'.items /\ adapter'.open \subseteq DOMAIN answer'
  BY <1>1, <1>2, <1>3, <1>5, <1>6 DEF RailCopied, Going, open
<1>11. ASSUME NEW i \in DOMAIN answer'
       PROVE  /\ answer'[i].id = Provided(i) /\ encoder'.items[i].id = Provided(i)
              /\ answer'[i].kind # "reasoning" => answer'[i].secret = Nothing
  <2>1. CASE i = index
    <3>1. item.kind # "reasoning" => item.secret = Nothing
      BY <1>1, <1>7 DEF RailCopied, GivesMore
    <3> QED  BY <1>3, <1>5, <1>6, <1>7, <2>1, <3>1 DEF id
  <2>2. CASE i # index
    <3>1. i \in DOMAIN answer /\ i \in DOMAIN encoder.items /\ answer'[i] = answer[i] /\ items[i] = encoder.items[i]
      BY <1>1, <1>3, <1>6, <2>2 DEF RailCopied
    <3> QED  BY <1>1, <1>5, <3>1 DEF RailCopied
  <2> QED  BY <2>1, <2>2
<1>12. ASSUME NEW artifact, NEW i \in DOMAIN answer, SecretOf(answer, artifact, i)
       PROVE  i \in DOMAIN answer' /\ SecretOf(answer', artifact, i)
  <2>1. i \in DOMAIN answer' /\ answer'[i].kind = answer[i].kind /\ answer'[i].secret = answer[i].secret
    BY <1>6, <1>7
  <2> QED  BY <1>12, <2>1 DEF SecretOf
<1>13. /\ IsSeq(adapter'.artifacts)
       /\ \A j \in 1..Len(adapter'.artifacts) : \E i \in DOMAIN answer' : SecretOf(answer', adapter'.artifacts[j], i)
  <2> DEFINE old == adapter.artifacts
             new == Artifact("encrypted", id, secret)
  <2>1. IsSeq(old) /\ \A j \in 1..Len(old) : \E i \in DOMAIN answer : SecretOf(answer, old[j], i)
    BY <1>1 DEF RailCopied
  <2>2. \A j \in 1..Len(old) : \E i \in DOMAIN answer' : SecretOf(answer', old[j], i)
    <3> HIDE DEF old
    <3> QED  BY <1>12, <2>1
  <2>3. CASE adapter'.artifacts = old
    BY <2>1, <2>2, <2>3
  <2>4. CASE /\ index \notin DOMAIN answer /\ kind = "reasoning" /\ secret # Nothing
             /\ adapter'.artifacts = Append(old, new)
    <3>1. index \in DOMAIN answer' /\ SecretOf(answer', new, index)
      BY <1>6, <1>7, <2>4 DEF SecretOf, id
    <3> HIDE DEF old, new
    <3>2. /\ IsSeq(Append(old, new)) /\ Len(Append(old, new)) = Len(old) + 1 /\ Len(old) \in Nat
          /\ \A j \in 1..Len(old) : Append(old, new)[j] = old[j]
          /\ Append(old, new)[Len(old) + 1] = new
      <4>1. IsSeq(<<new>>) /\ Len(<<new>>) = 1 /\ <<new>>[1] = new
        BY LeadsOne
      <4>2. Append(old, new) = old \o <<new>>
        BY <2>1, JoinedLast
      <4> HIDE DEF old, new
      <4> QED  BY <2>1, <4>1, <4>2, Joined, Sequenced
    <3> QED  BY <2>2, <2>4, <3>1, <3>2
  <2>5. adapter'.artifacts = old \/ (/\ index \notin DOMAIN answer /\ kind = "reasoning" /\ secret # Nothing
                                    /\ adapter'.artifacts = Append(old, new))
    BY <1>5 DEF GivesMore, id
  <2> QED  BY <2>3, <2>4, <2>5
<1>14. RailCopied'
  <2>1. encoder'.artifacts = <<>> /\ adapter'.completed = FALSE
    BY <1>1, <1>2, <1>5 DEF RailCopied, AdapterShape, GivesMore
  <2>2. \A artifact, i : SecretOf(answer', artifact, i) =>
          /\ answer'[i].kind = "reasoning" /\ answer'[i].secret # Nothing
          /\ artifact = Artifact("encrypted", Provided(i)', answer'[i].secret)
    BY <1>8 DEF SecretOf
  <2>3. (\A j \in 1..Len(adapter.artifacts) : \E i \in DOMAIN answer : SecretOf(answer, adapter.artifacts[j], i))'
    <3>1. ASSUME NEW j \in 1..Len(adapter'.artifacts)
          PROVE  \E i \in DOMAIN answer' : SecretOf(answer, adapter.artifacts[j], i)'
      <4>1. PICK i \in DOMAIN answer' : SecretOf(answer', adapter'.artifacts[j], i)
        BY <1>13
      <4>2. SecretOf(answer, adapter.artifacts[j], i)'
        BY <2>2, <4>1 DEF SecretOf
      <4> QED  BY <4>2
    <3> QED  BY <3>1
  <2>4. (\A at \in DOMAIN answer :
          /\ answer[at].id = Provided(at) /\ encoder.items[at].id = Provided(at)
          /\ answer[at].kind # "reasoning" => answer[at].secret = Nothing)'
    BY <1>8, <1>11
  <2> QED  BY <1>9, <1>10, <1>13, <2>1, <2>3, <2>4 DEF RailCopied
<1> QED
  BY <1>5, <1>14 DEF WholeInv, StreamedInv

\* A new item of the rail, announced with the opaque value it keeps.
LEMMA RailAddsWhole ==
  ASSUME WholeInv, ~Drafts, RailAdds
  PROVE  WholeInv'
<1>1. /\ exchange.phase = "streaming" /\ exchange.stream /\ exchange.native /\ ~adapter.completed
  BY DEF RailAdds, Answering, WholeInv, ExchangeKnown
<1> DEFINE index == Cardinality(DOMAIN answer)
           id == Provided(index)
<1>kind. PICK kind \in {"text", "reasoning", "call"}, more \in {<<>>} \cup (IF More THEN {<<Part>>} ELSE {}) :
        \E final \in {Nothing} \cup (IF kind = "reasoning" THEN {Encrypted(index)} ELSE {}) :
        \E early \in {Nothing, final} :
          /\ Grows(index, Item(kind, id, more, final))
          /\ Passes(RailAdded(adapter, index, Item(kind, id, more, early)))
  BY Zenon DEF RailAdds, Receives
<1>final. PICK final \in {Nothing} \cup (IF kind = "reasoning" THEN {Encrypted(index)} ELSE {}) :
        \E early \in {Nothing, final} :
          /\ Grows(index, Item(kind, id, more, final))
          /\ Passes(RailAdded(adapter, index, Item(kind, id, more, early)))
  BY <1>kind, Zenon
<1>early. PICK early \in {Nothing, final} :
          /\ Grows(index, Item(kind, id, more, final))
          /\ Passes(RailAdded(adapter, index, Item(kind, id, more, early)))
  BY <1>final, Zenon
<1>3. /\ ExchangeKnown /\ WholeShape /\ Copied /\ RailCopied /\ Going /\ AdapterShape(adapter)
      /\ exchange.protocol \in {"anthropic", "responses"}
  BY <1>1, RailStreams
<1>4. /\ adapter.completed = FALSE /\ adapter.open = encoder.open /\ encoder.artifacts = <<>> /\ IsSeq(adapter.artifacts)
  BY <1>1, <1>3 DEF Going, AdapterShape, RailCopied
<1>5. index \in Nat /\ index \notin DOMAIN answer /\ index \notin DOMAIN encoder.items
  <2>1. IsFiniteSet(DOMAIN answer) /\ DOMAIN answer = 0..(index - 1) /\ DOMAIN answer = DOMAIN encoder.items
    BY <1>3 DEF WholeShape, RailCopied
  <2>2. index \in Nat
    BY <2>1, FS_CardinalityType
  <2> HIDE DEF index
  <2> QED  BY <2>1, <2>2
<1>6. IsSeq(more)
  BY LeadsOne, LeadsNowhere
<1> HIDE DEF index
<1> DEFINE item == Item(kind, id, more, early)
           step == RailAdded(adapter, index, item)
           state == [RailOpens(adapter, index, kind) EXCEPT !.artifacts = Capture(adapter.artifacts, item)]
           items == Put(encoder.items, index, Item(KindOf(index, kind), id, PartsOf(index, more), Nothing))
           open == encoder.open \cup {index}
<1>7. item.kind = kind /\ item.id = id /\ item.parts = more /\ item.secret = early
  BY ItemIs
<1>8. /\ step.state = state /\ step.throws = FALSE
      /\ step.events = <<Opened(index, kind, id)>> \o Deltas(index, kind, more)
  <2>1. RailOpens(adapter, index, kind).artifacts = adapter.artifacts
        /\ DOMAIN RailOpens(adapter, index, kind) = DOMAIN adapter /\ "artifacts" \in DOMAIN adapter
    BY <1>3 DEF RailOpens, AdapterShape
  <2> HIDE DEF item
  <2> QED  BY <1>7, <2>1 DEF RailAdded, Yields
<1>9. /\ AdapterShape(state) /\ state.completed = FALSE /\ state.open = open
      /\ state.artifacts = Capture(adapter.artifacts, item)
  <2> DEFINE new == Capture(adapter.artifacts, item)
             mark == IF kind = "call" THEN "tool-boundary" ELSE adapter.commitment
             opens == [adapter EXCEPT !.open = adapter.open \cup {index}, !.commitment = mark]
  <2>1. RailOpens(adapter, index, kind) = opens
    BY <1>3 DEF RailOpens, AdapterShape
  <2> HIDE DEF new, mark
  <2>2. AdapterShape(opens) /\ opens.completed = FALSE /\ opens.open = open
    <3>1. opens = [adapter EXCEPT !.open = adapter.open \cup {index}, !.commitment = mark]
      OBVIOUS
    <3> HIDE DEF opens
    <3> QED  BY <1>3, <1>4, <3>1 DEF AdapterShape
  <2> HIDE DEF opens
  <2>3. state = [opens EXCEPT !.artifacts = new]
    BY <2>1 DEF new
  <2> HIDE DEF state, open
  <2>4. AdapterShape(state) /\ state.completed = FALSE /\ state.open = open /\ state.artifacts = new
    BY <2>2, <2>3 DEF AdapterShape
  <2> QED  BY <2>4 DEF new
<1>10. /\ KindOf(index, kind) = kind /\ PartsOf(index, more) = more
       /\ StartId(index, id) = id
  <2>1. Provided(index) # Unnamed
    BY <1>5 DEF Provided, Unnamed
  <2> QED  BY <1>5, <2>1 DEF KindOf, PartsOf, StartId
<1>11. Capture(adapter.artifacts, item) = adapter.artifacts
       \/ /\ kind = "reasoning" /\ final # Nothing
          /\ Capture(adapter.artifacts, item) = Append(adapter.artifacts, Artifact("encrypted", id, final))
  <2>1. early = Nothing \/ early = final
    OBVIOUS
  <2> HIDE DEF item, id
  <2> QED  BY <1>7, <2>1 DEF Capture
<1>12. Grows(index, Item(kind, id, more, final)) /\ Passes(step)
  BY <1>early DEF index
<1>13. TellsOn(step, items, open, encoder.artifacts)
  <2>1. Told(exchange.protocol, Held(encoder.items, encoder.open, encoder.artifacts),
             <<Opened(index, kind, id)>> \o Deltas(index, kind, more),
             Held(Put(encoder.items, index, Item(kind, StartId(index, id), more, Nothing)), encoder.open \cup {index},
                  encoder.artifacts))
    <3> HIDE DEF id
    <3> QED  BY <1>3, <1>5, <1>6, TellNew
  <2> HIDE DEF step, id
  <2> QED  BY <1>8, <1>10, <1>12, <2>1 DEF TellsOn
<1> HIDE DEF step, state, items, open, item
<1>14. GivesMore(step, index, kind, more, final, items)
  <2>1. index \in DOMAIN answer \/ index = Cardinality(DOMAIN answer)
    BY DEF index
  <2>2. kind # "reasoning" => final = Nothing
    BY <1>final
  <2>3. items = Put(encoder.items, index, Item(KindOf(index, kind), Provided(index), PartsOf(index, more), Nothing))
    BY DEF items
  <2> QED  BY <1>5, <1>8, <1>9, <1>11, <1>12, <1>13, <2>1, <2>2, <2>3 DEF GivesMore, open
<1> HIDE DEF id
<1> QED
  BY <1>1, <1>6, <1>14, RailGrows

\* A fragment of an item of the rail.
LEMMA RailSaysMoreWhole ==
  ASSUME WholeInv, RailSaysMore
  PROVE  WholeInv'
<1>1. /\ exchange.phase = "streaming" /\ exchange.stream /\ exchange.native
  BY DEF RailSaysMore, Answering, WholeInv, ExchangeKnown
<1> DEFINE part == Part
           more == <<part>>
<1>2. PICK index \in adapter.open :
        /\ Grows(index, [answer[index] EXCEPT !.parts = more])
        /\ Passes(RailDelta(adapter, index, answer[index].kind, part))
  BY DEF RailSaysMore, Receives
<1> HIDE DEF part
<1>3. /\ ExchangeKnown /\ WholeShape /\ Copied /\ RailCopied /\ AdapterShape(adapter)
      /\ exchange.protocol \in {"anthropic", "responses"} /\ (Going \/ Finished)
  BY <1>1, RailStreams
<1>4. Going
  BY <1>2, <1>3 DEF Finished
<1>5. /\ adapter.completed = FALSE /\ adapter.open = encoder.open /\ encoder.artifacts = <<>>
      /\ index \in encoder.open /\ index \in DOMAIN encoder.items /\ index \in DOMAIN answer
  BY <1>2, <1>3, <1>4 DEF Going, AdapterShape, RailCopied
<1> DEFINE kind == answer[index].kind
           old == answer[index].parts
           secret == answer[index].secret
           id == Provided(index)
           step == RailDelta(adapter, index, kind, part)
           state == RailOpens(adapter, index, kind)
           items == Put(encoder.items, index, Item(KindOf(index, kind), id, PartsOf(index, more), Nothing))
           open == encoder.open \cup {index}
<1>6. /\ answer[index] = Item(kind, id, old, secret) /\ IsSeq(old)
      /\ encoder.items[index] = Item(kind, id, old, Nothing)
      /\ encoder.items = [j \in DOMAIN encoder.items |-> encoder.items[j]]
  BY <1>3, <1>5 DEF WholeShape, Copied, RailCopied
<1>7. IsSeq(more)
  BY LeadsOne
<1>8. /\ step.state = state /\ step.throws = FALSE /\ step.events = Deltas(index, kind, more)
  <2> DEFINE told == <<Delta(index, kind, part)>>
  <2>1. When(index \notin adapter.open, <<Opened(index, kind, Unnamed)>>) = <<>>
    BY <1>2 DEF When
  <2>2. IsSeq(told)
    BY LeadsOne
  <2>3. step = [state |-> state, throws |-> FALSE,
                events |-> When(index \notin adapter.open, <<Opened(index, kind, Unnamed)>>) \o told]
    BY DEF RailDelta, Yields
  <2> HIDE DEF told, state, step
  <2>4. step.events = told /\ step.state = state /\ step.throws = FALSE
    BY <2>1, <2>2, <2>3, JoinedLast
  <2> QED  BY <2>4, OneDelta DEF told
<1>9. /\ AdapterShape(state) /\ state.completed = FALSE /\ state.open = open
      /\ state.artifacts = adapter.artifacts
  <2> DEFINE mark == IF kind = "call" THEN "tool-boundary" ELSE adapter.commitment
  <2>1. state = [adapter EXCEPT !.open = adapter.open \cup {index}, !.commitment = mark]
    BY <1>3 DEF RailOpens, AdapterShape
  <2> HIDE DEF mark, state
  <2> QED  BY <1>3, <1>5, <2>1 DEF AdapterShape
<1>10. Grows(index, Item(kind, id, more, secret))
  <2> DEFINE c == answer[index]
             d == [c EXCEPT !.parts = more]
  <2>1. DOMAIN c = {"kind", "id", "parts", "secret"} /\ c.kind = kind /\ c.id = id /\ c.secret = secret
    BY <1>6 DEF Item
  <2>2. /\ d = [x \in {"kind", "id", "parts", "secret"} |-> d[x]]
        /\ d.kind = kind /\ d.id = id /\ d.parts = more /\ d.secret = secret
    <3> HIDE DEF c, kind, id, secret
    <3> QED  BY <2>1
  <2>3. Grows(index, d)
    BY <1>2
  <2> HIDE DEF c, d, kind, id, secret
  <2>4. d = [kind |-> kind, id |-> id, parts |-> more, secret |-> secret]
    BY <2>2
  <2> QED  BY <2>3, <2>4 DEF Item
<1>11. KindOf(index, kind) = kind /\ PartsOf(index, more) = old \o more /\ open = encoder.open
  BY <1>5 DEF KindOf, PartsOf
<1>12. Passes(step)
  BY <1>2
<1>13. TellsOn(step, items, open, encoder.artifacts)
  <2> HIDE DEF kind, old, id, secret, more
  <2>1. Told(exchange.protocol, Held(encoder.items, encoder.open, encoder.artifacts), Deltas(index, kind, more),
             Held(Put(encoder.items, index, Item(kind, id, old \o more, Nothing)), encoder.open, encoder.artifacts))
    BY <1>3, <1>5, <1>6, <1>7, TellMore
  <2> HIDE DEF step, open
  <2> QED  BY <1>8, <1>11, <1>12, <2>1 DEF TellsOn
<1> HIDE DEF step, state, items, open, kind, secret, old, more
<1>14. GivesMore(step, index, kind, more, secret, items)
  <2>1. items = Put(encoder.items, index, Item(KindOf(index, kind), Provided(index), PartsOf(index, more), Nothing))
    BY DEF items
  <2> QED  BY <1>5, <1>8, <1>9, <1>10, <1>13, <2>1 DEF GivesMore, open
<1> QED
  BY <1>1, <1>5, <1>7, <1>14, RailGrows

\* The items of an answer in their order.
LEMMA InOrderIs ==
  ASSUME NEW items, NEW n \in Nat, DOMAIN items = 0..(n - 1)
  PROVE  /\ DOMAIN InOrder(items) = 1..n
         /\ \A k \in 1..n : InOrder(items)[k] = items[k - 1]
<1> DEFINE D == 0..(n - 1)
           Rank(index) == Cardinality({other \in D : other <= index})
<1>1. Cardinality(D) = n /\ IsFiniteSet(D)
  BY FS_Interval
<1>2. InOrder(items) = [k \in 1..n |-> items[CHOOSE index \in D : Rank(index) = k]]
  BY <1>1 DEF InOrder
<1>3. \A index \in D : Rank(index) = index + 1
  <2> TAKE index \in D
  <2>1. {other \in D : other <= index} = 0..index
    OBVIOUS
  <2>2. index \in Nat /\ Cardinality(0..index) = index + 1
    BY FS_Interval
  <2> QED  BY <2>1, <2>2
<1>4. ASSUME NEW k \in 1..n
      PROVE  (CHOOSE index \in D : Rank(index) = k) = k - 1
  <2>1. k - 1 \in D /\ Rank(k - 1) = k
    <3> HIDE DEF Rank
    <3> QED  BY <1>3
  <2>2. \A index \in D : Rank(index) = k => index = k - 1
    <3> HIDE DEF Rank
    <3> QED  BY <1>3
  <2> HIDE DEF Rank, D
  <2> QED  BY <2>1, <2>2
<1> HIDE DEF D, Rank
<1> QED
  BY <1>2, <1>4

\* What is captured of the items that were given, and where it comes from.
Captured(items, artifacts, seq, n) ==
  /\ IsSeq(artifacts)
  /\ \A j \in 1..Len(artifacts) : \E index \in DOMAIN items : SecretOf(items, artifacts[j], index)
  /\ \A k \in 1..n : seq[k].kind = "reasoning" /\ seq[k].secret # Nothing =>
       \E j \in 1..Len(artifacts) : artifacts[j] = Artifact("encrypted", seq[k].id, seq[k].secret)

\* The first artifact captured for an item is the one that counts.
LEMMA CapturesOne ==
  ASSUME NEW items, NEW artifacts, NEW seq, NEW n \in Nat, Captured(items, artifacts, seq, n),
         NEW index \in DOMAIN items, seq[n + 1] = items[index], items[index].id = Provided(index)
  PROVE  Captured(items, Capture(artifacts, seq[n + 1]), seq, n + 1)
<1> DEFINE item == seq[n + 1]
           found == Artifact("encrypted", item.id, item.secret)
           after == Capture(artifacts, item)
<1>1. IsSeq(artifacts) /\ Len(artifacts) \in Nat /\ DOMAIN artifacts = 1..Len(artifacts)
  BY Sequenced DEF Captured
<1>2. 1..(n + 1) = 1..n \cup {n + 1}
  OBVIOUS
<1>3. CASE item.kind # "reasoning" \/ item.secret = Nothing \/ \E j \in DOMAIN artifacts : artifacts[j] = found
  <2>1. after = artifacts
    BY <1>3 DEF Capture
  <2> HIDE DEF after
  <2>2. item.kind = "reasoning" /\ item.secret # Nothing => \E j \in 1..Len(artifacts) : artifacts[j] = found
    BY <1>1, <1>3
  <2> HIDE DEF found, item
  <2> QED  BY <1>2, <2>1, <2>2 DEF Captured, after, item, found
<1>4. CASE ~(item.kind # "reasoning" \/ item.secret = Nothing \/ \E j \in DOMAIN artifacts : artifacts[j] = found)
  <2>1. after = Append(artifacts, found)
    BY <1>4 DEF Capture
  <2>2. SecretOf(items, found, index)
    BY <1>4 DEF SecretOf
  <2> HIDE DEF after, found
  <2>3. /\ IsSeq(after) /\ Len(after) = Len(artifacts) + 1
        /\ \A j \in 1..Len(artifacts) : after[j] = artifacts[j]
        /\ after[Len(artifacts) + 1] = found
    <3>1. IsSeq(<<found>>) /\ Len(<<found>>) = 1 /\ <<found>>[1] = found
      BY LeadsOne
    <3>2. after = artifacts \o <<found>>
      BY <1>1, <2>1, JoinedLast
    <3> QED  BY <1>1, <3>1, <3>2, Joined
  <2>4. \A j \in 1..Len(after) : \E at \in DOMAIN items : SecretOf(items, after[j], at)
    BY <1>1, <2>2, <2>3 DEF Captured
  <2>5. \A k \in 1..(n + 1) : seq[k].kind = "reasoning" /\ seq[k].secret # Nothing =>
          \E j \in 1..Len(after) : after[j] = Artifact("encrypted", seq[k].id, seq[k].secret)
    <3> TAKE k \in 1..(n + 1)
    <3>1. CASE k = n + 1
      BY <1>1, <2>3, <3>1 DEF found
    <3>2. CASE k \in 1..n
      BY <1>1, <2>3, <3>2 DEF Captured
    <3> QED  BY <1>2, <3>1, <3>2
  <2> QED  BY <2>3, <2>4, <2>5 DEF Captured, after
<1> QED
  BY <1>3, <1>4

\* Each item has the id of its position, and its opaque value may be captured.
Capturing(base, items) ==
  /\ IsSeq(base)
  /\ \E n \in Nat : DOMAIN items = 0..(n - 1)
  /\ \A index \in DOMAIN items : items[index].id = Provided(index)
  /\ \A j \in 1..Len(base) : \E index \in DOMAIN items : SecretOf(items, base[j], index)

\* While the rail streams, its artifacts are opaque values of the answer's items.
LEMMA CapturingRail ==
  ASSUME RailCopied, IsFiniteSet(DOMAIN answer), ~adapter.completed
  PROVE  Capturing(adapter.artifacts, answer)
<1> DEFINE n == Cardinality(DOMAIN answer)
<1>1. n \in Nat /\ DOMAIN answer = 0..(n - 1)
  BY FS_CardinalityType DEF RailCopied
<1> QED
  BY <1>1 DEF RailCopied, Capturing

\* At the end of an answer every opaque value of it is captured.
LEMMA CapturesAll ==
  ASSUME NEW base, NEW items, Capturing(base, items)
  PROVE  LET all == CaptureAll(base, items)
         IN /\ IsSeq(all)
            /\ \A index \in DOMAIN items :
                 items[index].kind = "reasoning" =>
                   ArtifactValue(all, "encrypted", Provided(index)) = items[index].secret
<1> DEFINE seq == InOrder(items)
           all == CaptureAll(base, items)
<1>1. PICK n \in Nat : DOMAIN items = 0..(n - 1)
  BY DEF Capturing
<1>2. DOMAIN seq = 1..n /\ \A k \in 1..n : seq[k] = items[k - 1]
  BY <1>1, InOrderIs
<1>3. Leads("capture", base, seq, all)
  <2> HIDE DEF seq
  <2> QED  BY <1>1, <1>2, CaptureLeads DEF CaptureAll, seq
<1> HIDE DEF seq, all
<1>24. PICK m \in Nat : \E after : /\ DOMAIN seq = 1..m
                                   /\ after[0] = base /\ after[m] = all
                                   /\ \A k \in 0..(m - 1) : after[k + 1] = Step("capture", after[k], seq[k + 1])
  BY <1>3 DEF Leads
<1>4. PICK after : /\ DOMAIN seq = 1..m
                   /\ after[0] = base /\ after[m] = all
                   /\ \A k \in 0..(m - 1) : after[k + 1] = Step("capture", after[k], seq[k + 1])
  BY <1>24, Zenon
<1>5. m = n
  BY <1>1, <1>2, <1>4
<1>6. Captured(items, all, seq, n)
  <2> DEFINE P == {k \in Nat : k <= n => Captured(items, after[k], seq, k)}
  <2>1. 0 \in P
    BY <1>4 DEF Capturing, Captured
  <2>2. ASSUME NEW k \in Nat, k \in P
        PROVE  k + 1 \in P
    <3> SUFFICES ASSUME k + 1 <= n
                 PROVE  Captured(items, after[k + 1], seq, k + 1)
      OBVIOUS
    <3>1. Captured(items, after[k], seq, k)
      BY <1>1, <2>2
    <3>2. after[k + 1] = Capture(after[k], seq[k + 1])
      BY <1>1, <1>4, <1>5 DEF Step
    <3>3. k \in DOMAIN items /\ items[k].id = Provided(k)
      BY <1>1 DEF Capturing
    <3>4. seq[k + 1] = items[k]
      BY <1>1, <1>2
    <3> HIDE DEF P
    <3> QED  BY <3>1, <3>2, <3>3, <3>4, CapturesOne
  <2> HIDE DEF P
  <2>3. Nat \subseteq P
    BY <2>1, <2>2, EveryNumber
  <2>4. n \in P
    BY <1>1, <2>3
  <2> QED  BY <1>1, <1>4, <1>5, <2>4 DEF P
<1>7. IsSeq(all) /\ Len(all) \in Nat /\ DOMAIN all = 1..Len(all)
  BY <1>6, Sequenced DEF Captured
<1>8. ASSUME NEW index \in DOMAIN items, items[index].kind = "reasoning"
      PROVE  ArtifactValue(all, "encrypted", Provided(index)) = items[index].secret
  <2> DEFINE found == {i \in DOMAIN all : all[i].kind = "encrypted" /\ all[i].at = Provided(index)}
  <2>1. ASSUME NEW i \in found
        PROVE  all[i].value = items[index].secret
    <3>1. PICK at \in DOMAIN items : SecretOf(items, all[i], at)
      BY <1>6, <1>7 DEF Captured
    <3>2. Provided(at) = Provided(index) /\ all[i].value = items[at].secret
      BY <2>1, <3>1 DEF SecretOf, Artifact
    <3>3. at = index
      BY <3>2 DEF Provided
    <3> QED  BY <3>2, <3>3
  <2>2. CASE found = {}
    <3>1. items[index].secret = Nothing
      <4> SUFFICES ASSUME items[index].secret # Nothing
                   PROVE  FALSE
        OBVIOUS
      <4>1. index + 1 \in 1..n /\ seq[index + 1] = items[index] /\ items[index].id = Provided(index)
        BY <1>1, <1>2 DEF Capturing
      <4>2. PICK j \in 1..Len(all) : all[j] = Artifact("encrypted", Provided(index), items[index].secret)
        BY <1>6, <1>8, <4>1 DEF Captured
      <4>3. j \in found
        BY <1>7, <4>2 DEF Artifact
      <4> QED  BY <2>2, <4>3
    <3> QED  BY <2>2, <3>1 DEF ArtifactValue
  <2>3. CASE found # {}
    <3>1. found \in SUBSET Nat
      BY <1>7
    <3> HIDE DEF found
    <3>2. Min(found) \in found
      BY <2>3, <3>1, SmallestOf DEF Min
    <3> QED  BY <2>1, <2>3, <3>2 DEF ArtifactValue, found
  <2> QED  BY <2>2, <2>3
<1> QED
  BY <1>7, <1>8 DEF all

LEMMA PairIs ==
  ASSUME NEW u, NEW c
  PROVE  <<u, c>> = <<u>> \o <<c>>
<1> DEFINE pair == <<u, c>>
           joined == <<u>> \o <<c>>
<1>1. /\ IsSeq(joined) /\ Len(joined) = 2 /\ joined[1] = u /\ joined[2] = c
  <2>1. IsSeq(<<u>>) /\ IsSeq(<<c>>) /\ Len(<<u>>) = 1 /\ Len(<<c>>) = 1 /\ <<u>>[1] = u /\ <<c>>[1] = c
    BY LeadsOne
  <2>2. 1 \in 1..1
    OBVIOUS
  <2> QED  BY <2>1, <2>2, Joined
<1>2. PICK S : joined \in Seq(S)
  BY <1>1 DEF IsSeq
<1>3. pair \in Seq({u, c}) /\ Len(pair) = 2 /\ pair[1] = u /\ pair[2] = c
  OBVIOUS
<1> HIDE DEF pair, joined
<1>4. pair = joined
  BY <1>1, <1>2, <1>3, SeqEqual
<1> QED
  BY <1>4 DEF pair, joined

\* What is captured is told, if there is any.
LEMMA ToldArtifacts ==
  ASSUME NEW protocol \in {"anthropic", "responses"}, NEW I, NEW O, NEW artifacts, IsSeq(artifacts)
  PROVE  Told(protocol, Held(I, O, <<>>), When(artifacts # <<>>, <<Artifacts(artifacts)>>), Held(I, O, artifacts))
<1>1. CASE artifacts = <<>>
  BY <1>1, ToldNothing DEF When
<1>2. CASE artifacts # <<>>
  <2>1. <<>> \o artifacts = artifacts
    BY JoinedLast
  <2>2. Told(protocol, Held(I, O, <<>>), <<Artifacts(artifacts)>>, Held(I, O, <<>> \o artifacts))
    BY TellArtifacts
  <2> QED  BY <1>2, <2>1, <2>2 DEF When
<1> QED
  BY <1>1, <1>2

Releases(state) == [state EXCEPT !.completed = TRUE, !.artifacts = <<>>]

LEMMA ReleasesIs ==
  ASSUME NEW rail, AdapterShape(rail)
  PROVE  /\ AdapterShape(Releases(rail)) /\ Releases(rail).completed = TRUE /\ Releases(rail).open = rail.open
         /\ Releases(rail).started = rail.started
<1> DEFINE state == Releases(rail)
<1>1. state = [rail EXCEPT !.completed = TRUE, !.artifacts = <<>>]
  BY DEF Releases
<1> HIDE DEF state
<1> QED
  BY <1>1 DEF AdapterShape, state

\* The last event of the rail brings the opaque values of all items.
LEMMA RailCompletesWhole ==
  ASSUME WholeInv, RailCompletes
  PROVE  WholeInv'
<1>1. /\ exchange.phase = "streaming" /\ exchange.stream /\ exchange.native /\ answer' = answer
      /\ adapter.started /\ ~adapter.completed /\ adapter.open = {}
      /\ Passes(RailCompleted(adapter, answer))
  BY DEF RailCompletes, Answering, WholeInv, ExchangeKnown, Receives
<1>2. /\ ExchangeKnown /\ WholeShape /\ Copied /\ RailCopied /\ Going /\ AdapterShape(adapter)
      /\ exchange.protocol \in {"anthropic", "responses"}
  BY <1>1, RailStreams
<1> DEFINE artifacts == CaptureAll(adapter.artifacts, answer)
           before == When(artifacts # <<>>, <<Artifacts(artifacts)>>)
           step == RailCompleted(adapter, answer)
           held == Held(encoder.items, encoder.open, encoder.artifacts)
           after == Concluded(exchange.protocol, encoder.items, artifacts, FALSE)
<1>3. /\ step.state = Releases(adapter) /\ step.throws = FALSE
      /\ step.events = before \o <<Usage, Completed>>
  <2> HIDE DEF artifacts
  <2> QED  BY DEF RailCompleted, Yields, Releases, artifacts
<1>4. IsFiniteSet(DOMAIN answer) /\ encoder.artifacts = <<>> /\ encoder.open = {}
  BY <1>1, <1>2 DEF RailCopied, WholeShape, Going
<1>5. /\ IsSeq(artifacts)
      /\ \A index \in DOMAIN answer :
           answer[index].kind = "reasoning" =>
             ArtifactValue(artifacts, "encrypted", Provided(index)) = answer[index].secret
  BY <1>1, <1>2, <1>4, CapturingRail, CapturesAll
<1> HIDE DEF artifacts
<1>6. Told(exchange.protocol, held, step.events, after)
  <2> DEFINE i == encoder.items
             middle == Held(i, {}, artifacts)
  <2>1. Told(exchange.protocol, held, before, middle)
    <3> HIDE DEF i
    <3>1. Told(exchange.protocol, Held(i, {}, <<>>), before, middle)
      BY <1>2, <1>5, ToldArtifacts
    <3>2. held = Held(i, {}, <<>>)
      BY <1>4 DEF i
    <3> QED  BY <3>1, <3>2
  <2>2. Told(exchange.protocol, middle, <<Usage>>, middle)
    <3> HIDE DEF i
    <3> QED  BY <1>2, TellUsage
  <2>3. Told(exchange.protocol, middle, <<Completed>>, after)
    <3>1. Told(exchange.protocol, Held(i, {}, artifacts), <<Completed>>, Concluded(exchange.protocol, i, artifacts, FALSE))
      <4> HIDE DEF i
      <4> QED  BY <1>2, TellCompleted
    <3> QED  BY <3>1
  <2>4. <<Usage, Completed>> = <<Usage>> \o <<Completed>>
    BY PairIs
  <2> HIDE DEF middle, after, held, before, step
  <2>5. Told(exchange.protocol, middle, <<Usage, Completed>>, after)
    BY <2>2, <2>3, <2>4, ToldOn
  <2>6. Told(exchange.protocol, held, before \o <<Usage, Completed>>, after)
    BY <2>1, <2>5, ToldOn
  <2> QED  BY <1>3, <2>6
<1>7. AdapterShape(step.state) /\ step.state.completed = TRUE /\ step.state.open = {} /\ step.state.started = adapter.started
  <2>1. AdapterShape(Releases(adapter)) /\ Releases(adapter).completed = TRUE /\ Releases(adapter).open = adapter.open
        /\ Releases(adapter).started = adapter.started
    BY <1>2, ReleasesIs
  <2> HIDE DEF step
  <2> QED  BY <1>1, <1>3, <2>1
<1>8. Passes(step)
  BY <1>1
<1> HIDE DEF step, before
<1>9. /\ ExchangeKnown' /\ WholeShape' /\ Copied' /\ Finished'
      /\ exchange' = exchange /\ adapter' = step.state
      /\ encoder'.items = encoder.items /\ encoder'.artifacts = artifacts
  <2>1. Told(exchange.protocol, Held(encoder.items, encoder.open, encoder.artifacts), step.events,
             Concluded(exchange.protocol, encoder.items, artifacts, FALSE))
    BY <1>6
  <2> QED  BY <1>1, <1>2, <1>3, <1>7, <1>8, <2>1, FinishesWith
<1>10. RailCopied'
  <2>1. \A index : Provided(index)' = Provided(index)
    BY <1>9 DEF Provided, Now
  <2>2. adapter'.completed = TRUE /\ adapter'.started /\ adapter'.open = {}
    BY <1>1, <1>7, <1>9
  <2>3. (\A at \in DOMAIN answer :
          answer[at].kind = "reasoning" =>
            ArtifactValue(encoder.artifacts, "encrypted", Provided(at)) = answer[at].secret)'
    BY <1>1, <1>5, <1>9, <2>1
  <2> QED  BY <1>1, <1>2, <1>9, <2>1, <2>2, <2>3 DEF RailCopied
<1> QED
  BY <1>1, <1>9, <1>10 DEF WholeInv, StreamedInv

\* A failure told in the stream: what is held stays, and is no answer.
LEMMA RailFailsWhole ==
  ASSUME WholeInv, RailFails
  PROVE  WholeInv'
<1>1. /\ exchange.phase = "streaming" /\ exchange.stream /\ exchange.native /\ answer' = answer
      /\ ~adapter.completed /\ Passes(RailFailed(adapter, answer))
  BY DEF RailFails, Answering, WholeInv, ExchangeKnown, Receives
<1>2. /\ ExchangeKnown /\ WholeShape /\ Copied /\ RailCopied /\ Going /\ AdapterShape(adapter)
      /\ exchange.protocol \in {"anthropic", "responses"}
  BY <1>1, RailStreams
<1> DEFINE artifacts == CaptureAll(adapter.artifacts, answer)
           before == When(artifacts # <<>>, <<Artifacts(artifacts)>>)
           step == RailFailed(adapter, answer)
           open == encoder.open
<1>3. /\ step.state = Releases(adapter) /\ step.throws = TRUE /\ step.events = before
  <2> HIDE DEF artifacts
  <2> QED  BY DEF RailFailed, Throws, Releases, artifacts
<1>4. IsFiniteSet(DOMAIN answer) /\ encoder.artifacts = <<>>
  BY <1>1, <1>2 DEF RailCopied, WholeShape
<1>5. IsSeq(artifacts)
  BY <1>1, <1>2, <1>4, CapturingRail, CapturesAll
<1>6. AdapterShape(step.state) /\ Passes(step)
  <2>1. AdapterShape(Releases(adapter))
    BY <1>2, ReleasesIs
  <2> QED  BY <1>1, <1>3, <2>1
<1> HIDE DEF artifacts, step
<1>7. Told(exchange.protocol, Held(encoder.items, encoder.open, encoder.artifacts), step.events,
           Held(encoder.items, open, artifacts))
  <2>1. Told(exchange.protocol, Held(encoder.items, encoder.open, <<>>), before, Held(encoder.items, encoder.open, artifacts))
    BY <1>2, <1>5, ToldArtifacts
  <2> HIDE DEF before
  <2> QED  BY <1>3, <1>4, <2>1
<1> HIDE DEF before, open
<1> QED
  BY <1>1, <1>2, <1>3, <1>6, <1>7, Breaks DEF AdapterShape

-----------------------------------------------------------------------------
(***************************************************************************)
(* An answer given at once: its items one by one in the order of their     *)
(* indices, whichever those are.                                           *)
(***************************************************************************)
\* What is told of each, one after another, is told of them joined.
LEMMA TellsFlat ==
  ASSUME NEW protocol, NEW seqs, IsSeq(seqs), NEW after,
         \A k \in 1..Len(seqs) : Told(protocol, after[k - 1], seqs[k], after[k])
  PROVE  Told(protocol, after[0], FlattenSeq(seqs), after[Len(seqs)])
<1>1. Len(seqs) \in Nat
  BY Sequenced
<1>2. CASE Len(seqs) = 0
  <2>1. seqs = <<>>
    BY <1>2 DEF IsSeq
  <2>2. FlattenSeq(seqs) = <<>>
    BY <1>2, <2>1 DEF FlattenSeq
  <2> QED  BY <1>2, <2>2, ToldNothing
<1>3. CASE Len(seqs) # 0
  <2>1. PICK flat : IsFlat(seqs, Len(seqs), flat) /\ FlattenSeq(seqs) = flat[Len(seqs)]
    BY <1>3, FlattenIs
  <2>2. \A i \in 1..Len(seqs) : flat[i] = IF i = 1 THEN seqs[i] ELSE flat[i - 1] \o seqs[i]
    BY <2>1 DEF IsFlat
  <2> DEFINE P == {k \in Nat : k >= 1 /\ k <= Len(seqs) => Told(protocol, after[0], flat[k], after[k])}
  <2>3. 0 \in P
    OBVIOUS
  <2>4. ASSUME NEW k \in Nat, k \in P PROVE k + 1 \in P
    <3> SUFFICES ASSUME k + 1 <= Len(seqs)
                 PROVE  Told(protocol, after[0], flat[k + 1], after[k + 1])
      OBVIOUS
    <3>1. k + 1 \in 1..Len(seqs) /\ (k + 1) - 1 = k
      BY <1>1
    <3>2. Told(protocol, after[k], seqs[k + 1], after[k + 1])
      BY <3>1
    <3>3. CASE k = 0
      <4>1. flat[k + 1] = seqs[k + 1]
        BY <2>2, <3>1, <3>3
      <4> QED  BY <3>2, <3>3, <4>1
    <3>4. CASE k # 0
      <4>1. flat[k + 1] = flat[k] \o seqs[k + 1]
        <5>1. k + 1 # 1
          BY <3>4
        <5>2. flat[k + 1] = IF k + 1 = 1 THEN seqs[k + 1] ELSE flat[(k + 1) - 1] \o seqs[k + 1]
          BY <2>2, <3>1
        <5> QED  BY <3>1, <5>1, <5>2
      <4>2. Told(protocol, after[0], flat[k], after[k])
        BY <1>1, <2>4, <3>1, <3>4
      <4> QED  BY <3>2, <4>1, <4>2, ToldOn
    <3> QED  BY <3>3, <3>4
  <2>5. Len(seqs) \in P
    <3> HIDE DEF P
    <3> QED  BY <1>1, <2>3, <2>4, EveryNumber
  <2> QED  BY <1>1, <1>3, <2>1, <2>5
<1> QED
  BY <1>2, <1>3

\* What is shown of items, whose opaque values are told apart.
Shown(items) ==
  [index \in DOMAIN items |->
     Item(items[index].kind, StartId(index, items[index].id), items[index].parts, Nothing)]

\* An item told at once: announced, given and closed.
LEMMA TellWhole ==
  ASSUME NEW protocol \in {"anthropic", "responses"}, NEW I, NEW A, NEW i, i \notin DOMAIN I, NEW item, IsSeq(item.parts)
  PROVE  Told(protocol, Held(I, {}, A), WholeItem(i, item),
              Held(Put(I, i, Item(item.kind, StartId(i, item.id), item.parts, Nothing)), {}, A))
<1> DEFINE J == Put(I, i, Item(item.kind, StartId(i, item.id), item.parts, Nothing))
           opened == <<Opened(i, item.kind, item.id)>> \o Deltas(i, item.kind, item.parts)
<1>1. Told(protocol, Held(I, {}, A), opened, Held(J, {} \cup {i}, A))
  BY TellNew
<1>2. {} \cup {i} = {i} /\ {i} \ {i} = {} /\ i \in {i}
  OBVIOUS
<1> HIDE DEF J
<1>3. Told(protocol, Held(J, {i}, A), <<Closed(i)>>, Held(J, {i} \ {i}, A))
  BY <1>2, TellClosed
<1>4. WholeItem(i, item) = opened \o <<Closed(i)>>
  BY DEF WholeItem
<1> HIDE DEF opened
<1>5. Told(protocol, Held(I, {}, A), opened, Held(J, {i}, A)) /\ Told(protocol, Held(J, {i}, A), <<Closed(i)>>, Held(J, {}, A))
  BY <1>1, <1>2, <1>3
<1>6. Told(protocol, Held(I, {}, A), opened \o <<Closed(i)>>, Held(J, {}, A))
  BY <1>5, ToldOn
<1> QED
  BY <1>4, <1>6 DEF J

ShownOf(items, S) ==
  [index \in S |-> Item(items[index].kind, StartId(index, items[index].id), items[index].parts, Nothing)]

LEMMA ShownMore ==
  ASSUME NEW items, NEW S, NEW i
  PROVE  ShownOf(items, S \cup {i})
           = Put(ShownOf(items, S), i, Item(items[i].kind, StartId(i, items[i].id), items[i].parts, Nothing))
BY DEF ShownOf, Put

\* Items given at once, whatever their indices are.
GivenAtOnce(items) ==
  /\ DOMAIN items \in SUBSET Nat /\ IsFiniteSet(DOMAIN items)
  /\ \A index \in DOMAIN items : IsSeq(items[index].parts)
Whole(items) == [index \in DOMAIN items |-> WholeItem(index, items[index])]

\* The items of a body, told one after the other.
LEMMA TellItems ==
  ASSUME NEW protocol \in {"anthropic", "responses"}, NEW items, GivenAtOnce(items)
  PROVE  Told(protocol, Held(<<>>, {}, <<>>), FlattenSeq(InOrder(Whole(items))), Held(Shown(items), {}, <<>>))
<1> DEFINE D == DOMAIN items
           n == Cardinality(D)
           whole == Whole(items)
           seqs == InOrder(whole)
           Before(k) == {IndexAt(D, j) : j \in 1..k}
           after == [k \in 0..n |-> Held(ShownOf(items, Before(k)), {}, <<>>)]
<1>1. D \in SUBSET Nat /\ IsFiniteSet(D) /\ DOMAIN whole = D /\ \A index \in D : whole[index] = WholeItem(index, items[index])
  BY DEF GivenAtOnce, Whole
<1>2. /\ n \in Nat /\ D = Before(n)
      /\ \A k \in 1..n : IndexAt(D, k) \in D
      /\ \A j, k \in 1..n : IndexAt(D, j) = IndexAt(D, k) => j = k
  <2> HIDE DEF D
  <2> QED  BY <1>1, Ranked
<1>3. IsSeq(seqs) /\ Len(seqs) = n /\ \A k \in 1..n : seqs[k] = whole[IndexAt(D, k)]
  <2> HIDE DEF D, whole
  <2> QED  BY <1>1, OrderOf
<1>4. ASSUME NEW k \in 1..n
      PROVE  Told(protocol, after[k - 1], seqs[k], after[k])
  <2> DEFINE i == IndexAt(D, k)
             S == Before(k - 1)
  <2>1. i \in D /\ i \notin S /\ Before(k) = S \cup {i}
    <3>1. k - 1 \in Nat /\ k \notin 1..(k - 1) /\ 1..k = 1..(k - 1) \cup {k} /\ \A j \in 1..(k - 1) : j \in 1..n
      BY <1>2
    <3>2. i \in D
      BY <1>2
    <3>3. i \notin S
      <4> SUFFICES ASSUME NEW j \in 1..(k - 1), i = IndexAt(D, j)
                   PROVE  FALSE
        OBVIOUS
      <4>1. j \in 1..n /\ k \in 1..n /\ IndexAt(D, j) = IndexAt(D, k)
        BY <3>1
      <4> HIDE DEF D, n
      <4>2. j = k
        BY <1>2, <4>1
      <4> QED  BY <3>1, <4>2
    <3>4. Before(k) = S \cup {i}
      <4> HIDE DEF D, n
      <4>1. \A x : x \in Before(k) <=> x \in S \cup {i}
        BY <3>1
      <4> QED  BY <4>1
    <3> QED  BY <3>2, <3>3, <3>4
  <2>2. seqs[k] = WholeItem(i, items[i]) /\ IsSeq(items[i].parts)
    <3>1. IsSeq(items[i].parts)
      BY <2>1 DEF GivenAtOnce
    <3> HIDE DEF D, whole
    <3> QED  BY <1>1, <1>3, <2>1, <3>1
  <2>3. after[k - 1] = Held(ShownOf(items, S), {}, <<>>) /\ after[k] = Held(ShownOf(items, S \cup {i}), {}, <<>>)
    <3>1. k - 1 \in 0..n /\ k \in 0..n
      BY <1>2
    <3> HIDE DEF i, D, n
    <3> QED  BY <2>1, <3>1
  <2>4. i \notin DOMAIN ShownOf(items, S)
    BY <2>1 DEF ShownOf
  <2> HIDE DEF i, S, after, seqs
  <2>5. Told(protocol, Held(ShownOf(items, S), {}, <<>>), WholeItem(i, items[i]),
             Held(Put(ShownOf(items, S), i, Item(items[i].kind, StartId(i, items[i].id), items[i].parts, Nothing)), {}, <<>>))
    BY <2>2, <2>4, TellWhole
  <2>6. ShownOf(items, S \cup {i})
          = Put(ShownOf(items, S), i, Item(items[i].kind, StartId(i, items[i].id), items[i].parts, Nothing))
    BY ShownMore
  <2> QED  BY <2>2, <2>3, <2>5, <2>6
<1>5. after[0] = Held(<<>>, {}, <<>>) /\ after[n] = Held(Shown(items), {}, <<>>)
  <2>1. 0 \in 0..n /\ n \in 0..n /\ Before(0) = {}
    BY <1>2
  <2>2. ShownOf(items, {}) = <<>>
    BY DEF ShownOf
  <2>3. ShownOf(items, D) = Shown(items)
    BY DEF ShownOf, Shown
  <2> HIDE DEF D, n
  <2>4. after[0] = Held(ShownOf(items, Before(0)), {}, <<>>) /\ after[n] = Held(ShownOf(items, Before(n)), {}, <<>>)
    BY <2>1
  <2> QED  BY <1>2, <2>1, <2>2, <2>3, <2>4
<1> HIDE DEF after, seqs, D, whole
<1>6. Told(protocol, after[0], FlattenSeq(seqs), after[n])
  <2>1. \A k \in 1..Len(seqs) : Told(protocol, after[k - 1], seqs[k], after[k])
    BY <1>3, <1>4
  <2>2. Told(protocol, after[0], FlattenSeq(seqs), after[Len(seqs)])
    BY <1>3, <2>1, TellsFlat
  <2> QED  BY <1>3, <2>2
<1> QED
  BY <1>5, <1>6 DEF seqs, whole

\* An answer that is not streamed, before its end.
LEMMA TellBody ==
  ASSUME NEW protocol \in {"anthropic", "responses"}, NEW items, GivenAtOnce(items)
  PROVE  Told(protocol, Held(<<>>, {}, <<>>), <<Started>> \o FlattenSeq(InOrder(Whole(items))), Held(Shown(items), {}, <<>>))
<1>1. Told(protocol, Held(<<>>, {}, <<>>), <<Started>>, Held(<<>>, {}, <<>>))
  BY TellStart
<1>2. Told(protocol, Held(<<>>, {}, <<>>), FlattenSeq(InOrder(Whole(items))), Held(Shown(items), {}, <<>>))
  BY TellItems
<1> QED
  BY <1>1, <1>2, ToldOn

\* Usage and the last event.
LEMMA TellEnding ==
  ASSUME NEW protocol \in {"anthropic", "responses"}, protocol = exchange.protocol, NEW I, NEW A
  PROVE  Told(protocol, Held(I, {}, A), <<Usage, Completed>>, Concluded(protocol, I, A, FALSE))
<1> DEFINE middle == Held(I, {}, A)
           after == Concluded(protocol, I, A, FALSE)
<1>1. Told(protocol, middle, <<Usage>>, middle) /\ Told(protocol, middle, <<Completed>>, after)
  BY TellUsage, TellCompleted
<1>2. <<Usage, Completed>> = <<Usage>> \o <<Completed>>
  BY PairIs
<1> HIDE DEF middle, after
<1>3. Told(protocol, middle, <<Usage>> \o <<Completed>>, after)
  BY <1>1, ToldOn
<1> QED
  BY <1>2, <1>3 DEF middle, after

\* What the encoder makes of events.
LEMMA EncodesTold ==
  ASSUME NEW protocol \in {"anthropic", "responses"}, NEW held, NEW events, NEW after, Told(protocol, held, events, after)
  PROVE  \E frames : EncodeAll(protocol, CoderOf(held, <<>>), events) = CoderOf(after, frames)
<1>1. PICK frames : /\ IsSeq(frames)
                    /\ \A before : IsSeq(before) =>
                         Leads(protocol, CoderOf(held, before), events, CoderOf(after, before \o frames))
  BY DEF Told
<1>2. IsSeq(events) /\ Len(events) \in Nat /\ DOMAIN events = 1..Len(events)
  BY Sequenced DEF Told
<1> DEFINE coder == CoderOf(held, <<>>)
           coded == EncodeAll(protocol, coder, events)
<1>3. [coder EXCEPT !.frames = <<>>] = coder
  BY CoderFrames
<1>4. Leads(protocol, [coder EXCEPT !.frames = <<>>], events, coded)
  <2> HIDE DEF coder
  <2> QED  BY <1>2, EncodeLeads
<1>5. Leads(protocol, coder, events, CoderOf(after, frames))
  <2>1. IsSeq(<<>>) /\ <<>> \o frames = frames
    BY <1>1, LeadsNowhere, JoinedLast
  <2> QED  BY <1>1, <2>1
<1> HIDE DEF coder, coded
<1>6. coded = CoderOf(after, frames)
  BY <1>3, <1>4, <1>5, LeadsOnce
<1> QED
  BY <1>6 DEF coded, coder

\* The answer is aggregated from its events.
Aggregates(step, items, artifacts) ==
  /\ exchange.protocol \in {"anthropic", "responses"} /\ encoder = NewEncoder /\ client = NoOne
  /\ Told(exchange.protocol, Held(<<>>, {}, <<>>), step.events, Concluded(exchange.protocol, items, artifacts, FALSE))
  /\ Answers(step)

\* What is aggregated of a body is what the client gets.
LEMMA AnswersWith ==
  ASSUME NEW step, NEW items, NEW artifacts, Aggregates(step, items, artifacts)
  PROVE  /\ encoder' = Coder(items, {}, artifacts, <<>>)
         /\ client'.blocks = FinalizeAggregate(Coder(items, {}, artifacts, <<>>)) /\ client'.misled = FALSE
<1> USE DEF Aggregates
<1> DEFINE coded == EncodeAll(exchange.protocol, encoder, step.events)
           held == Held(<<>>, {}, <<>>)
           after == Concluded(exchange.protocol, items, artifacts, FALSE)
<1>1. encoder = CoderOf(held, <<>>)
  BY DEF NewEncoder, CoderOf, Held, Coder
<1>2. \A frames : CoderOf(after, frames) = Coder(items, {}, artifacts, frames)
  BY DEF CoderOf, Concluded
<1>8. Told(exchange.protocol, held, step.events, after)
  OBVIOUS
<1> HIDE DEF held, after
<1>3. PICK frames : coded = CoderOf(after, frames)
  BY <1>1, <1>8, EncodesTold
<1>4. [coded EXCEPT !.frames = <<>>] = CoderOf(after, <<>>)
  <2> HIDE DEF coded
  <2> QED  BY <1>3, CoderFrames
<1>5. FinalizeAggregate(coded) = FinalizeAggregate(Coder(items, {}, artifacts, <<>>))
  <2>1. coded.items = items /\ coded.artifacts = artifacts
    <3> HIDE DEF coded
    <3> QED  BY <1>2, <1>3 DEF Coder
  <2> HIDE DEF coded
  <2> QED  BY <2>1 DEF FinalizeAggregate, Coder
<1>6. /\ encoder' = [coded EXCEPT !.frames = <<>>]
      /\ client' = [client EXCEPT !.blocks = FinalizeAggregate(coded), !.ended = "end"]
  BY Zenon DEF Answers
<1> HIDE DEF coded
<1>9. client'.blocks = FinalizeAggregate(coded) /\ client'.misled = FALSE
  BY <1>6 DEF NoOne
<1> QED
  BY <1>2, <1>4, <1>5, <1>6, <1>9

\* A chat answer that is given at once is read without its reasoning.
IsRead(items, index) == exchange.native \/ items[index].kind # "reasoning"
ReadOf(items) == [index \in {i \in DOMAIN items : IsRead(items, i)} |-> items[index]]

\* The client holds what was read of it.
GotAtOnce ==
  /\ exchange.native => exchange.protocol = "responses"
  /\ client.misled = FALSE /\ encoder.open = {} /\ client.blocks = FinalizeAggregate(encoder)
  /\ DOMAIN encoder.items = DOMAIN ReadOf(answer) /\ GivenAtOnce(ReadOf(answer))
  /\ \A index \in DOMAIN ReadOf(answer) :
       /\ IsSeq(answer[index].parts) /\ encoder.items[index].id = StartId(index, answer[index].id)
       /\ encoder.items[index] = Item(answer[index].kind, encoder.items[index].id, answer[index].parts, Nothing)
       /\ answer[index].secret = IF answer[index].kind # "reasoning" THEN Nothing
                                 ELSE ArtifactValue(encoder.artifacts, "encrypted", encoder.items[index].id)

\* An answer got at once is the whole answer.
LEMMA GotIsWhole ==
  ASSUME GotAtOnce, ~exchange.stream
  PROVE  DeliveredWhole
<1> DEFINE given == [index \in {i \in DOMAIN answer : exchange.stream \/ (exchange.native /\ exchange.protocol = "responses")
                                                       \/ answer[i].kind # "reasoning"} |-> answer[index]]
           D == DOMAIN ReadOf(answer)
           blocks == FinalizeAggregate(encoder)
<1>1. DOMAIN given = D /\ given = [index \in D |-> answer[index]] /\ \A index \in D : given[index] = answer[index]
  BY DEF GotAtOnce, ReadOf, IsRead
<1>2. ASSUME NEW index \in D
      PROVE  /\ index \in DOMAIN blocks
             /\ blocks[index].kind = answer[index].kind /\ blocks[index].parts = answer[index].parts
             /\ blocks[index].secret = answer[index].secret
             /\ IsPrefix(answer[index].parts, answer[index].parts)
  <2> DEFINE value == ArtifactValue(encoder.artifacts, "encrypted", encoder.items[index].id)
             item == encoder.items[index]
  <2>1. index \in DOMAIN encoder.items /\ DOMAIN blocks = DOMAIN encoder.items
    BY DEF GotAtOnce, FinalizeAggregate
  <2>2. blocks[index] = IF item.kind # "reasoning" THEN item ELSE [item EXCEPT !.secret = value]
    BY <2>1 DEF FinalizeAggregate
  <2>3. item = Item(answer[index].kind, item.id, answer[index].parts, Nothing)
        /\ answer[index].secret = IF answer[index].kind # "reasoning" THEN Nothing ELSE value
    BY DEF GotAtOnce
  <2>4. IsPrefix(answer[index].parts, answer[index].parts)
    <3>1. IsSeq(answer[index].parts)
      BY DEF GotAtOnce
    <3> QED  BY <3>1, PrefixOfItself
  <2>5. /\ blocks[index].kind = answer[index].kind /\ blocks[index].parts = answer[index].parts
        /\ blocks[index].secret = answer[index].secret
    <3> HIDE DEF value, blocks, item
    <3>1. /\ item.kind = answer[index].kind /\ item.parts = answer[index].parts /\ item.secret = Nothing
      BY <2>3, ItemIs
    <3>2. CASE item.kind # "reasoning"
      BY <2>2, <2>3, <3>1, <3>2
    <3>3. CASE item.kind = "reasoning"
      <4>1. blocks[index] = [item EXCEPT !.secret = value]
        BY <2>2, <3>3
      <4>2. DOMAIN item = {"kind", "id", "parts", "secret"}
        BY <2>3 DEF Item
      <4> QED  BY <2>3, <3>1, <3>3, <4>1, <4>2
    <3> QED  BY <3>2, <3>3
  <2> QED  BY <2>1, <2>4, <2>5
<1>3. DOMAIN blocks = D /\ client.blocks = blocks /\ ~client.misled /\ encoder.open = {}
  BY DEF GotAtOnce, FinalizeAggregate
<1>4. \A index \in D : Said(blocks[index]) = Said(answer[index])
  <2> HIDE DEF D, blocks
  <2> QED  BY <1>2 DEF Said
<1>5. /\ ~client.misled
      /\ \A index \in DOMAIN client.blocks :
           /\ index \in DOMAIN given
           /\ client.blocks[index].kind = given[index].kind
           /\ IsPrefix(client.blocks[index].parts, given[index].parts)
      /\ client.ended = "end" =>
           /\ encoder.open = {}
           /\ [i \in DOMAIN client.blocks |-> Said(client.blocks[i])] = [i \in DOMAIN given |-> Said(given[i])]
  <2> HIDE DEF given, D, blocks
  <2> QED  BY <1>1, <1>2, <1>3, <1>4
<1> HIDE DEF D, blocks
<1> QED
  BY <1>5 DEF DeliveredWhole

LEMMA GotNext == (GotAtOnce /\ ~exchange.stream => DeliveredWhole)'
BY GotIsWhole, PTL

\* To a client that has nothing nothing is delivered.
LEMMA NothingIsWhole ==
  client.blocks = <<>> /\ client.misled = FALSE /\ client.ended # "end" => DeliveredWhole
<1>1. DOMAIN <<>> = {}
  OBVIOUS
<1> QED
  BY <1>1 DEF DeliveredWhole

LEMMA NothingNext == (client.blocks = <<>> /\ client.misled = FALSE /\ client.ended # "end" => DeliveredWhole)'
BY NothingIsWhole, PTL

AtOnceInv ==
  ~exchange.stream =>
    /\ exchange.phase # "over" => client = NoOne /\ encoder = NewEncoder
    /\ exchange.phase = "over" => DeliveredWhole

\* What an answer at once makes of what it gave.
LEMMA GetsAtOnce ==
  ASSUME ExchangeKnown, exchange.phase = "streaming", client = NoOne, encoder = NewEncoder,
         NEW step, Answers(step), NEW artifacts, GivenAtOnce(ReadOf(answer')),
         Told(exchange.protocol, Held(<<>>, {}, <<>>), step.events,
              Concluded(exchange.protocol, Shown(ReadOf(answer')), artifacts, FALSE)),
         \A index \in DOMAIN ReadOf(answer') :
           answer'[index].secret = IF answer'[index].kind # "reasoning" THEN Nothing
                                   ELSE ArtifactValue(artifacts, "encrypted", StartId(index, answer'[index].id))
  PROVE  GotAtOnce'
<1> DEFINE items == Shown(ReadOf(answer'))
<1>1. exchange' = [exchange EXCEPT !.phase = "over"]
  BY DEF Answers
<1>2. exchange'.native = exchange.native /\ exchange'.protocol = exchange.protocol
      /\ (exchange.native => exchange.protocol = "responses")
  BY <1>1 DEF ExchangeKnown
<1>3. /\ encoder' = Coder(items, {}, artifacts, <<>>)
      /\ client'.blocks = FinalizeAggregate(Coder(items, {}, artifacts, <<>>)) /\ client'.misled = FALSE
  <2>1. Aggregates(step, items, artifacts)
    BY DEF ExchangeKnown, Aggregates
  <2> HIDE DEF items
  <2> QED  BY <2>1, AnswersWith
<1>4. ReadOf(answer)' = ReadOf(answer')
  BY <1>2 DEF ReadOf, IsRead
<1>5. /\ encoder'.items = items /\ encoder'.open = {} /\ encoder'.artifacts = artifacts
      /\ client'.blocks = FinalizeAggregate(encoder') /\ client'.misled = FALSE
  <2> HIDE DEF items
  <2>1. encoder'.items = items /\ encoder'.open = {} /\ encoder'.artifacts = artifacts
    BY <1>3 DEF Coder
  <2>2. client'.blocks = FinalizeAggregate(encoder') /\ client'.misled = FALSE
    BY <1>3
  <2> QED  BY <2>1, <2>2
<1>6. ASSUME NEW index \in DOMAIN ReadOf(answer')
      PROVE  /\ IsSeq(answer'[index].parts)
             /\ items[index] = Item(answer'[index].kind, StartId(index, answer'[index].id), answer'[index].parts, Nothing)
             /\ items[index].id = StartId(index, answer'[index].id)
  <2>1. ReadOf(answer')[index] = answer'[index]
    BY DEF ReadOf
  <2>2. IsSeq(answer'[index].parts)
    BY <2>1 DEF GivenAtOnce
  <2>3. items[index] = Item(answer'[index].kind, StartId(index, answer'[index].id), answer'[index].parts, Nothing)
    BY <2>1 DEF Shown
  <2> HIDE DEF items
  <2> QED  BY <2>2, <2>3, ItemIs
<1>7. DOMAIN items = DOMAIN ReadOf(answer')
  BY DEF Shown
<1> HIDE DEF items
<1>8. (FinalizeAggregate(encoder))' = FinalizeAggregate(encoder')
  OBVIOUS
<1>9. ASSUME NEW index \in DOMAIN ReadOf(answer')
      PROVE  /\ encoder'.items[index] = Item(answer'[index].kind, encoder'.items[index].id, answer'[index].parts, Nothing)
             /\ encoder'.items[index].id = StartId(index, answer'[index].id)
             /\ answer'[index].secret = IF answer'[index].kind # "reasoning" THEN Nothing
                                        ELSE ArtifactValue(encoder'.artifacts, "encrypted", encoder'.items[index].id)
  BY <1>5, <1>6
<1> QED
  BY <1>2, <1>4, <1>5, <1>6, <1>7, <1>8, <1>9 DEF GotAtOnce

\* A chat answer that is not streamed.
LEMMA ChatAnswersAtOnce ==
  ASSUME ExchangeKnown, AtOnceInv, ChatAnswers
  PROVE  AtOnceInv' /\ GotAtOnce'
<1>1. PICK at : at \in SUBSET ChatIndices /\ IsFiniteSet(at) /\ answer' = ChatItems(at)
  BY ChatGives
<1> DEFINE Kind(index) == CASE index = 0 -> "text" [] index = 1000 -> "reasoning" [] OTHER -> "call"
           step == ChatBody(adapter, answer')
           read == ReadOf(answer')
<1>2. /\ exchange.phase = "streaming" /\ ~exchange.stream /\ ~exchange.native
      /\ client = NoOne /\ encoder = NewEncoder /\ Answers(step)
  BY ChatGives DEF AtOnceInv
<1>3. /\ DOMAIN answer' = at /\ IsFiniteSet(at)
      /\ \A index \in at : answer'[index].secret = Nothing /\ IsSeq(answer'[index].parts)
  <2>1. ASSUME NEW index \in at
        PROVE  answer'[index].secret = Nothing /\ IsSeq(answer'[index].parts)
    <3> DEFINE parts == <<10 * Now + 1 + (index % 7)>>
               kind == Kind(index)
    <3>1. answer'[index] = Item(kind, Provided(index), parts, Nothing)
      BY <1>1 DEF ChatItems
    <3>2. IsSeq(parts)
      BY LeadsOne
    <3> HIDE DEF parts, kind
    <3>3. answer'[index].secret = Nothing /\ answer'[index].parts = parts
      BY <3>1, ItemIs
    <3> QED  BY <3>2, <3>3
  <2>2. DOMAIN answer' = at /\ IsFiniteSet(at)
    BY <1>1 DEF ChatItems
  <2> HIDE DEF Kind
  <2> QED  BY <2>1, <2>2
<1>4. at \in SUBSET Nat
  BY <1>1, TranslationAssumption DEF ChatIndices
<1>5. /\ DOMAIN read = {i \in at : answer'[i].kind # "reasoning"}
      /\ \A index \in DOMAIN read : read[index] = answer'[index]
  BY <1>2, <1>3 DEF ReadOf, IsRead
<1>6. GivenAtOnce(read)
  <2> HIDE DEF read
  <2>1. DOMAIN read \in SUBSET at
    BY <1>5
  <2>2. IsFiniteSet(DOMAIN read)
    BY <1>3, <2>1, FS_Subset
  <2>3. DOMAIN read \in SUBSET Nat
    BY <1>4, <2>1
  <2>4. \A index \in DOMAIN read : index \in at /\ read[index] = answer'[index]
    BY <1>5, <2>1
  <2>5. \A index \in DOMAIN read : IsSeq(read[index].parts)
    BY <1>3, <2>4
  <2> QED  BY <2>2, <2>3, <2>5 DEF GivenAtOnce
<1>7. step.events = <<Started>> \o FlattenSeq(InOrder(Whole(read))) \o <<Usage, Completed>>
  <2>1. Whole(read) = [index \in {i \in DOMAIN answer' : answer'[i].kind # "reasoning"} |-> WholeItem(index, answer'[index])]
    <3> HIDE DEF read
    <3> QED  BY <1>3, <1>5 DEF Whole
  <2> HIDE DEF read
  <2> QED  BY <2>1 DEF ChatBody, Yields
<1> HIDE DEF read, step
<1>8. Told(exchange.protocol, Held(<<>>, {}, <<>>), step.events, Concluded(exchange.protocol, Shown(read), <<>>, FALSE))
  <2> DEFINE p == exchange.protocol
             events == <<Started>> \o FlattenSeq(InOrder(Whole(read)))
             start == Held(<<>>, {}, <<>>)
             middle == Held(Shown(read), {}, <<>>)
             after == Concluded(p, Shown(read), <<>>, FALSE)
  <2>1. p \in {"anthropic", "responses"} /\ p = exchange.protocol
    BY DEF ExchangeKnown
  <2> HIDE DEF p
  <2>2. Told(p, start, events, middle)
    BY <1>6, <2>1, TellBody
  <2>3. Told(p, middle, <<Usage, Completed>>, after)
    BY <2>1, TellEnding
  <2> HIDE DEF start, middle, after, events
  <2>4. Told(p, start, events \o <<Usage, Completed>>, after)
    BY <2>2, <2>3, ToldOn
  <2> QED  BY <1>7, <2>4 DEF events, start, after, p
<1>9. \A index \in DOMAIN read :
        answer'[index].secret = IF answer'[index].kind # "reasoning" THEN Nothing
                                ELSE ArtifactValue(<<>>, "encrypted", StartId(index, answer'[index].id))
  BY <1>3, <1>5
<1>10. GotAtOnce'
  BY <1>2, <1>6, <1>8, <1>9, GetsAtOnce DEF read
<1>11. exchange'.stream = exchange.stream /\ exchange'.phase = "over"
  <2>1. exchange' = [exchange EXCEPT !.phase = "over"]
    BY <1>2 DEF Answers
  <2> QED  BY <2>1 DEF ExchangeKnown
<1> QED
  BY <1>2, <1>10, <1>11, GotNext DEF AtOnceInv

\* An answer of the rail that is not streamed.
LEMMA RailAnswersAtOnce ==
  ASSUME ExchangeKnown, AtOnceInv, RailAnswers
  PROVE  AtOnceInv' /\ GotAtOnce' /\ \A index \in DOMAIN answer' : answer'[index].id = Provided(index)
<1>1. PICK kinds \in {<<"text">>, <<"reasoning", "call">>, <<"reasoning", "text">>}, opaque \in BOOLEAN :
        LET items == [index \in 0..(Len(kinds) - 1) |->
                        Item(kinds[index + 1], Provided(index), <<10 * Now + index + 1>>,
                             IF opaque /\ kinds[index + 1] = "reasoning" THEN Encrypted(index) ELSE Nothing)]
        IN answer' = items /\ Answers(RailBody(adapter, items))
  BY DEF RailAnswers
<1> DEFINE step == RailBody(adapter, answer')
           read == ReadOf(answer')
           n == Len(kinds)
           artifacts == CaptureAll(<<>>, answer')
           opening == <<Started>> \o FlattenSeq(InOrder(Whole(read)))
           between == When(artifacts # <<>>, <<Artifacts(artifacts)>>)
<1>2. /\ exchange.phase = "streaming" /\ ~exchange.stream /\ exchange.native
      /\ client = NoOne /\ encoder = NewEncoder /\ Answers(step)
  BY <1>1 DEF RailAnswers, AtOnceInv
<1>3. n \in Nat /\ DOMAIN answer' = 0..(n - 1)
  BY <1>1
<1>4. ASSUME NEW index \in DOMAIN answer'
      PROVE  /\ index \in Nat /\ answer'[index].id = Provided(index) /\ IsSeq(answer'[index].parts)
             /\ answer'[index].kind # "reasoning" => answer'[index].secret = Nothing
             /\ StartId(index, answer'[index].id) = Provided(index)
  <2> DEFINE secret == IF opaque /\ kinds[index + 1] = "reasoning" THEN Encrypted(index) ELSE Nothing
             parts == <<10 * Now + index + 1>>
  <2>1. answer'[index] = Item(kinds[index + 1], Provided(index), parts, secret)
    BY <1>1
  <2>2. secret # Nothing => kinds[index + 1] = "reasoning"
    OBVIOUS
  <2>3. IsSeq(parts)
    BY LeadsOne
  <2>4. index \in Nat
    BY <1>3
  <2> HIDE DEF secret, parts, n
  <2>5. /\ answer'[index].id = Provided(index) /\ answer'[index].kind = kinds[index + 1]
        /\ answer'[index].secret = secret /\ answer'[index].parts = parts
    BY <2>1, ItemIs
  <2>6. Provided(index) # Unnamed
    BY <2>4 DEF Provided, Unnamed
  <2> QED  BY <2>2, <2>3, <2>4, <2>5, <2>6 DEF StartId
<1>5. DOMAIN read = DOMAIN answer' /\ \A index \in DOMAIN read : read[index] = answer'[index]
  BY <1>2 DEF ReadOf, IsRead
<1>6. GivenAtOnce(read)
  <2>1. IsFiniteSet(0..(n - 1))
    BY <1>3, FS_Interval
  <2> HIDE DEF read, n
  <2> QED  BY <1>3, <1>4, <1>5, <2>1 DEF GivenAtOnce
<1>7. /\ IsSeq(artifacts)
      /\ \A index \in DOMAIN answer' :
           answer'[index].kind = "reasoning" => ArtifactValue(artifacts, "encrypted", Provided(index)) = answer'[index].secret
  <2> DEFINE all == answer'
  <2>1. Capturing(<<>>, all)
    <3>1. IsSeq(<<>>) /\ 1..Len(<<>>) = {}
      BY LeadsNowhere
    <3> HIDE DEF n
    <3> QED  BY <1>3, <1>4, <3>1 DEF Capturing
  <2> HIDE DEF all
  <2>2. /\ IsSeq(CaptureAll(<<>>, all))
        /\ \A index \in DOMAIN all :
             all[index].kind = "reasoning" => ArtifactValue(CaptureAll(<<>>, all), "encrypted", Provided(index)) = all[index].secret
    BY <2>1, CapturesAll
  <2> QED  BY <2>2 DEF all
<1>8. step.events = opening \o between \o <<Usage, Completed>>
  <2>1. Whole(read) = [index \in DOMAIN answer' |-> WholeItem(index, answer'[index])]
    <3> HIDE DEF read
    <3> QED  BY <1>5 DEF Whole
  <2> HIDE DEF read, artifacts
  <2> QED  BY <2>1 DEF RailBody, Yields, artifacts
<1> HIDE DEF read, step, artifacts
<1>9. Told(exchange.protocol, Held(<<>>, {}, <<>>), step.events, Concluded(exchange.protocol, Shown(read), artifacts, FALSE))
  <2> DEFINE p == exchange.protocol
             start == Held(<<>>, {}, <<>>)
             middle == Held(Shown(read), {}, <<>>)
             kept == Held(Shown(read), {}, artifacts)
             after == Concluded(p, Shown(read), artifacts, FALSE)
  <2>1. p \in {"anthropic", "responses"} /\ p = exchange.protocol
    BY DEF ExchangeKnown
  <2> HIDE DEF p
  <2>2. Told(p, start, opening, middle)
    BY <1>6, <2>1, TellBody
  <2>3. Told(p, middle, between, kept)
    BY <1>7, <2>1, ToldArtifacts
  <2>4. Told(p, kept, <<Usage, Completed>>, after)
    BY <2>1, TellEnding
  <2> HIDE DEF start, middle, kept, after, opening, between
  <2>5. Told(p, start, opening \o between, kept)
    BY <2>2, <2>3, ToldOn
  <2>6. Told(p, start, opening \o between \o <<Usage, Completed>>, after)
    BY <2>4, <2>5, ToldOn
  <2> QED  BY <1>8, <2>6 DEF start, after, p
<1>10. \A index \in DOMAIN read :
         answer'[index].secret = IF answer'[index].kind # "reasoning" THEN Nothing
                                 ELSE ArtifactValue(artifacts, "encrypted", StartId(index, answer'[index].id))
  BY <1>4, <1>5, <1>7
<1>11. GotAtOnce'
  BY <1>2, <1>6, <1>9, <1>10, GetsAtOnce DEF read
<1>12. exchange'.stream = exchange.stream /\ exchange'.phase = "over"
  <2>1. exchange' = [exchange EXCEPT !.phase = "over"]
    BY <1>2 DEF Answers
  <2> QED  BY <2>1 DEF ExchangeKnown
<1> QED
  BY <1>2, <1>4, <1>11, <1>12, GotNext DEF AtOnceInv

-----------------------------------------------------------------------------
(* Every step. *)

\* An exchange begins with nothing given and nothing told.
Blank == answer = <<>> /\ adapter = FreshAdapter /\ encoder = NewEncoder
BlankShape == WholeShape /\ Copied /\ ChatCopied /\ RailCopied /\ encoder.items = <<>> /\ encoder.open = {}
              /\ adapter.completed = FALSE /\ adapter.open = {}

\* Before an answer, nothing is held.
LEMMA BlankIs == Blank => BlankShape
<1> SUFFICES ASSUME Blank
             PROVE  BlankShape
  OBVIOUS
<1>1. /\ encoder = Coder(<<>>, {}, <<>>, <<>>) /\ encoder.items = <<>> /\ encoder.open = {} /\ encoder.artifacts = <<>>
      /\ DOMAIN encoder.items = {}
  BY DEF Blank, NewEncoder, Coder
<1>2. /\ adapter.started = FALSE /\ adapter.completed = FALSE /\ adapter.open = {} /\ adapter.artifacts = <<>>
      /\ adapter.pending = [s \in Slots |-> <<>>] /\ AdapterShape(adapter)
  BY DEF Blank, FreshAdapter, AdapterShape
<1>3. DOMAIN answer = {} /\ answer = [index \in DOMAIN answer |-> answer[index]]
  BY DEF Blank
<1>4. IsFiniteSet({}) /\ Cardinality({}) = 0
  BY FS_EmptySet
<1>5. WholeShape
  <2>1. encoder.items = [index \in DOMAIN encoder.items |-> encoder.items[index]]
    BY <1>1
  <2>2. encoder = Coder(encoder.items, encoder.open, encoder.artifacts, <<>>)
    BY <1>1
  <2> QED  BY <1>1, <1>2, <1>3, <1>4, <2>1, <2>2 DEF WholeShape, AdapterShape
<1>6. Copied /\ ChatCopied
  BY <1>1, <1>2, <1>3 DEF Copied, ChatCopied, Named
<1>7. RailCopied
  <2>1. IsSeq(<<>>) /\ Len(<<>>) = 0
    BY LeadsNowhere
  <2>2. 0..(0 - 1) = {} /\ 1..0 = {}
    OBVIOUS
  <2> QED  BY <1>1, <1>2, <1>3, <1>4, <2>1, <2>2 DEF RailCopied
<1> QED
  BY <1>1, <1>2, <1>5, <1>6, <1>7 DEF BlankShape

LEMMA BlankNext == (Blank => BlankShape)'
BY BlankIs, PTL

\* Initially, and when a request begins, nothing is held.
LEMMA WholeInit ==
  ASSUME ConversationInit
  PROVE  WholeInv
<1>1. BlankShape
  BY BlankIs DEF ConversationInit, Blank
<1>2. ExchangeKnown /\ exchange.native = FALSE
  BY DEF ConversationInit, ExchangeKnown, NoExchange
<1>3. Going
  <2>1. client = View(<<>>, {})
    BY DEF ConversationInit, NoOne, View
  <2> QED  BY <1>1, <2>1 DEF Going, BlankShape
<1> QED
  BY <1>1, <1>2, <1>3 DEF WholeInv, StreamedInv, BlankShape

LEMMA AsksWhole ==
  ASSUME Asks
  PROVE  WholeInv'
<1>1. PICK protocol \in {"anthropic", "responses"}, native \in BOOLEAN, streamed \in BOOLEAN, refused \in BOOLEAN :
        /\ protocol = "anthropic" => ~native
        /\ {"phase", "protocol", "native", "stream", "number", "commitment"} \subseteq DOMAIN exchange'
        /\ exchange'.phase = IF refused THEN "over" ELSE "posted"
        /\ exchange'.protocol = protocol /\ exchange'.native = native /\ exchange'.stream = streamed
        /\ Blank'
        /\ client' = [NoOne EXCEPT !.ended = IF refused THEN "error" ELSE "no"]
  <2>1. PICK protocol, native, streamed, keep, from, byId, foreign, mixed, nameless :
          /\ protocol \in {"anthropic", "responses"} /\ native \in BOOLEAN /\ streamed \in BOOLEAN
          /\ protocol = "anthropic" => ~native
          /\ Ask(protocol, native, streamed, keep, from, byId, foreign, mixed, nameless)
    BY DEF Asks
  <2> QED  BY <2>1 DEF Ask, Blank
<1>2. BlankShape'
  BY <1>1, BlankNext
<1>3. ExchangeKnown'
  <2>1. CASE refused
    BY <1>1, <2>1 DEF ExchangeKnown
  <2>2. CASE ~refused
    <3>1. client' = NoOne
      BY <1>1, <2>2 DEF NoOne
    <3> QED  BY <1>1, <2>2, <3>1 DEF ExchangeKnown, Blank
  <2> QED  BY <2>1, <2>2
<1>4. Going' \/ Failed'
  <2>1. CASE refused
    <3>1. client'.ended = "error" /\ client'.misled = FALSE /\ client'.blocks = <<>>
      BY <1>1, <2>1 DEF NoOne
    <3> QED  BY <1>1, <1>2, <2>1, <3>1 DEF Failed, BlankShape
  <2>2. CASE ~refused
    <3>1. client' = View(<<>>, {})
      BY <1>1, <2>2 DEF NoOne, View
    <3> QED  BY <1>2, <3>1 DEF Going, BlankShape
  <2> QED  BY <2>1, <2>2
<1> QED
  BY <1>2, <1>3, <1>4 DEF WholeInv, StreamedInv, BlankShape

\* A request that fails has no answer.
LEMMA PostFailsWhole ==
  ASSUME WholeInv, NEW failure, PostFails(failure)
  PROVE  WholeInv'
<1>1. exchange' = [exchange EXCEPT !.phase = "over", !.commitment = FailureCommitment(failure)]
  BY DEF PostFails
<1>2. /\ exchange.phase = "posted" /\ client = NoOne /\ encoder = NewEncoder
      /\ client' = [client EXCEPT !.ended = "error"] /\ UNCHANGED <<answer, adapter, encoder>>
  BY DEF PostFails, WholeInv, ExchangeKnown
<1>3. ExchangeKnown' /\ exchange'.phase = "over" /\ exchange'.stream = exchange.stream
  BY <1>1 DEF WholeInv, ExchangeKnown
<1>4. exchange.stream => WholeShape' /\ Copied'
  BY <1>2 DEF WholeInv, StreamedInv, WholeShape, Copied
<1>5. Failed'
  BY <1>2, <1>3 DEF Failed, NoOne, NewEncoder
<1> QED
  BY <1>3, <1>4, <1>5 DEF WholeInv, StreamedInv

\* A request that is accepted has an empty one.
LEMMA PostSucceedsWhole ==
  ASSUME WholeInv, PostSucceeds
  PROVE  WholeInv'
<1>1. PICK id : exchange' = [exchange EXCEPT !.phase = "streaming", !.id = id]
  BY DEF PostSucceeds
<1> DEFINE commitment == IF exchange.native THEN "provider-accepted" ELSE adapter.commitment
<1>2. exchange.phase = "posted" /\ UNCHANGED <<answer, encoder, client>>
      /\ adapter' = [adapter EXCEPT !.commitment = commitment]
  BY DEF PostSucceeds
<1>3. /\ ExchangeKnown' /\ exchange'.phase = "streaming" /\ exchange'.native = exchange.native
      /\ exchange'.protocol = exchange.protocol /\ exchange'.number = exchange.number
      /\ exchange'.stream = exchange.stream
  BY <1>1 DEF WholeInv, ExchangeKnown
<1> SUFFICES ASSUME exchange.stream
             PROVE  StreamedInv'
  BY <1>3 DEF WholeInv
<1>4. /\ WholeShape /\ Copied /\ (Going \/ Finished) /\ (IF exchange.native THEN RailCopied ELSE ChatCopied)
  BY <1>2 DEF WholeInv, StreamedInv, Failed
<1> HIDE DEF commitment
<1>5. /\ AdapterShape(adapter') /\ adapter'.started = adapter.started /\ adapter'.completed = adapter.completed
      /\ adapter'.open = adapter.open /\ adapter'.artifacts = adapter.artifacts /\ adapter'.pending = adapter.pending
  <2>1. AdapterShape(adapter)
    BY <1>4 DEF WholeShape, AdapterShape
  <2> QED  BY <1>2, <2>1 DEF AdapterShape
<1>6. WholeShape' /\ Copied'
  BY <1>2, <1>4, <1>5 DEF WholeShape, Copied, AdapterShape
<1>7. Going' \/ Finished'
  BY <1>2, <1>3, <1>4, <1>5 DEF Going, Finished
<1>8. IF exchange'.native THEN RailCopied' ELSE ChatCopied'
  <2>1. CASE exchange.native
    <3>1. \A index : Provided(index)' = Provided(index)
      BY <1>3 DEF Provided, Now
    <3> QED  BY <1>2, <1>3, <1>4, <1>5, <2>1, <3>1 DEF RailCopied, SecretOf
  <2>2. CASE ~exchange.native
    BY <1>2, <1>3, <1>4, <1>5, <2>2 DEF ChatCopied
  <2> QED  BY <2>1, <2>2
<1> QED
  BY <1>6, <1>7, <1>8 DEF StreamedInv

\* An answer given at once is not streamed.
LEMMA AnswersAtOnce ==
  ASSUME WholeInv, ~exchange.stream, exchange' = [exchange EXCEPT !.phase = "over"]
  PROVE  WholeInv'
<1>1. ExchangeKnown' /\ exchange'.stream = exchange.stream
  BY DEF WholeInv, ExchangeKnown
<1> QED
  BY <1>1 DEF WholeInv

\* Every step keeps what is said of a streamed answer.
LEMMA WholeNext ==
  ASSUME WholeInv, ~Drafts, SlotsApart, [ConversationNext]_conversationVars
  PROVE  WholeInv'
<1>1. CASE Asks
  BY <1>1, AsksWhole
<1>2. ASSUME NEW failure \in Failures, PostFails(failure)
      PROVE  WholeInv'
  BY <1>2, PostFailsWhole
<1>3. CASE PostSucceeds
  BY <1>3, PostSucceedsWhole
<1>4. CASE ChatSaysMore
  BY <1>4, ChatSaysWhole
<1>5. CASE ChatCalls
  BY <1>5, ChatCallsWhole
<1>6. CASE ChatFinishes
  BY <1>6, ChatFinishesWhole
<1>7. CASE ChatUsageLate
  BY <1>7, ChatUsageLateWhole
<1>8. CASE ChatEnds
  BY <1>8, ChatEndsWhole
<1>9. CASE ChatAnswers
  <2>1. ~exchange.stream /\ exchange' = [exchange EXCEPT !.phase = "over"]
    BY <1>9, ChatGives DEF Answers
  <2> QED  BY <2>1, AnswersAtOnce
<1>10. CASE RailStarts
  BY <1>10, RailStartsWhole
<1>11. CASE RailAdds
  BY <1>11, RailAddsWhole
<1>12. CASE RailSaysMore
  BY <1>12, RailSaysMoreWhole
<1>13. CASE RailFinishesItem
  BY <1>13, RailFinishesItemWhole
<1>14. CASE RailCompletes
  BY <1>14, RailCompletesWhole
<1>15. CASE RailFails
  BY <1>15, RailFailsWhole
<1>16. CASE RailEnds
  BY <1>16, RailEndsWhole
<1>17. CASE RailAnswers
  <2>1. ~exchange.stream /\ exchange' = [exchange EXCEPT !.phase = "over"]
    BY <1>17 DEF RailAnswers, Answers
  <2> QED  BY <2>1, AnswersAtOnce
<1>18. CASE UNCHANGED conversationVars
  <2>1. UNCHANGED <<exchange, answer, adapter, encoder, client>>
    BY <1>18 DEF conversationVars
  <2>2. ExchangeKnown'
    BY <2>1 DEF WholeInv, ExchangeKnown
  <2>3. WholeShape' <=> WholeShape
    BY <2>1 DEF WholeShape
  <2>4. /\ Copied' <=> Copied
        /\ ChatCopied' <=> ChatCopied
        /\ Going' <=> Going
        /\ Finished' <=> Finished
        /\ Failed' <=> Failed
    BY <2>1 DEF Copied, ChatCopied, Going, Finished, Failed
  <2>5. RailCopied' <=> RailCopied
    <3>1. \A index : Provided(index)' = Provided(index)
      BY <2>1 DEF Provided, Now
    <3> QED  BY <2>1, <3>1 DEF RailCopied, SecretOf
  <2> QED  BY <2>1, <2>2, <2>3, <2>4, <2>5 DEF WholeInv, StreamedInv
<1> QED
  BY <1>1, <1>2, <1>3, <1>4, <1>5, <1>6, <1>7, <1>8, <1>9, <1>10, <1>11, <1>12, <1>13, <1>14, <1>15,
     <1>16, <1>17, <1>18 DEF ConversationNext

-----------------------------------------------------------------------------
(* An answer given at once, over every step. *)

\* What is streamed stays so during the exchange.
LEMMA StreamStays ==
  ASSUME ExchangeKnown, exchange.stream, NEW step, Passes(step) \/ BodyEnds(step)
  PROVE  exchange'.stream
<1>1. exchange' = exchange \/ (\E c : exchange' = OverWith(c)) \/ exchange' = [exchange EXCEPT !.phase = "over"]
  <2>1. ASSUME NEW s, Passes(s)
        PROVE  exchange' = exchange \/ \E c : exchange' = OverWith(c)
    <3>1. exchange' = exchange \/ exchange' = [exchange EXCEPT !.phase = "over", !.commitment = s.state.commitment]
      BY <2>1, Zenon DEF Passes
    <3> QED  BY <3>1 DEF OverWith
  <2> QED  BY <2>1 DEF BodyEnds
<1>2. ASSUME NEW c, exchange' = OverWith(c)
      PROVE  exchange'.stream = exchange.stream
  BY <1>2 DEF OverWith, ExchangeKnown
<1> QED
  BY <1>1, <1>2 DEF ExchangeKnown

\* Every step keeps what is said of an answer that is not streamed.
LEMMA AtOnceNext ==
  ASSUME WholeInv, AtOnceInv, [ConversationNext]_conversationVars
  PROVE  AtOnceInv'
<1>1. CASE Asks
  <2>1. PICK streamed \in BOOLEAN, refused \in BOOLEAN :
          /\ exchange'.phase = IF refused THEN "over" ELSE "posted"
          /\ client' = [NoOne EXCEPT !.ended = IF refused THEN "error" ELSE "no"]
          /\ encoder' = NewEncoder
    <3>1. PICK protocol, native, streamed, keep, from, byId, foreign, mixed, nameless :
            /\ streamed \in BOOLEAN
            /\ Ask(protocol, native, streamed, keep, from, byId, foreign, mixed, nameless)
      BY <1>1 DEF Asks
    <3> QED  BY <3>1 DEF Ask
  <2>2. CASE refused
    <3>1. client'.blocks = <<>> /\ client'.misled = FALSE /\ client'.ended # "end"
      BY <2>1, <2>2 DEF NoOne
    <3> QED  BY <2>1, <2>2, <3>1, NothingNext DEF AtOnceInv
  <2>3. CASE ~refused
    <3>1. client' = NoOne
      BY <2>1, <2>3 DEF NoOne
    <3> QED  BY <2>1, <2>3, <3>1 DEF AtOnceInv
  <2> QED  BY <2>2, <2>3
<1>2. ASSUME NEW failure \in Failures, PostFails(failure)
      PROVE  AtOnceInv'
  <2>1. exchange' = [exchange EXCEPT !.phase = "over", !.commitment = FailureCommitment(failure)]
    BY <1>2 DEF PostFails
  <2>2. exchange'.phase = "over"
    BY <2>1 DEF WholeInv, ExchangeKnown
  <2>3. client = NoOne /\ client' = [client EXCEPT !.ended = "error"]
    BY <1>2 DEF PostFails, WholeInv, ExchangeKnown
  <2>4. client'.blocks = <<>> /\ client'.misled = FALSE /\ client'.ended # "end"
    BY <2>3 DEF NoOne
  <2> QED  BY <2>2, <2>4, NothingNext DEF AtOnceInv
<1>3. CASE PostSucceeds
  <2>1. PICK id : exchange' = [exchange EXCEPT !.phase = "streaming", !.id = id]
    BY <1>3 DEF PostSucceeds
  <2>2. exchange'.phase = "streaming"
    BY <2>1 DEF WholeInv, ExchangeKnown
  <2>3. client = NoOne /\ encoder = NewEncoder /\ UNCHANGED <<encoder, client>>
    BY <1>3 DEF PostSucceeds, WholeInv, ExchangeKnown
  <2> QED  BY <2>2, <2>3 DEF AtOnceInv
<1>4. CASE ChatSaysMore \/ ChatCalls \/ ChatFinishes \/ ChatUsageLate \/ ChatEnds \/ RailStarts \/ RailAdds
           \/ RailSaysMore \/ RailFinishesItem \/ RailCompletes \/ RailFails \/ RailEnds
  <2>1. exchange.stream /\ \E step : Passes(step) \/ BodyEnds(step)
    <3>1. CASE ChatSaysMore
      BY <3>1 DEF ChatSaysMore, Answering, Receives
    <3>2. CASE ChatCalls
      BY <3>2 DEF ChatCalls, Answering, Receives
    <3>3. CASE ChatFinishes \/ ChatUsageLate \/ ChatEnds
      BY <3>3 DEF ChatFinishes, ChatUsageLate, ChatEnds, Answering, Receives
    <3>4. CASE RailStarts \/ RailCompletes \/ RailFails \/ RailEnds
      BY <3>4 DEF RailStarts, RailCompletes, RailFails, RailEnds, Answering, Receives
    <3>5. CASE RailAdds
      <4>1. exchange.stream
        BY <3>5 DEF RailAdds, Answering
      <4>2. \E index, item : Passes(RailAdded(adapter, index, item))
        BY <3>5, Zenon DEF RailAdds, Receives
      <4> QED  BY <4>1, <4>2
    <3>6. CASE RailSaysMore \/ RailFinishesItem
      BY <3>6 DEF RailSaysMore, RailFinishesItem, Answering, Receives
    <3> QED  BY <1>4, <3>1, <3>2, <3>3, <3>4, <3>5, <3>6
  <2>2. exchange'.stream
    BY <2>1, StreamStays DEF WholeInv
  <2> QED  BY <2>2 DEF AtOnceInv
<1>5. CASE ChatAnswers
  BY <1>5, ChatAnswersAtOnce DEF WholeInv
<1>6. CASE RailAnswers
  BY <1>6, RailAnswersAtOnce DEF WholeInv
<1>7. CASE UNCHANGED conversationVars
  <2>1. UNCHANGED <<exchange, answer, adapter, encoder, client>>
    BY <1>7 DEF conversationVars
  <2>2. DeliveredWhole => DeliveredWhole'
    BY <2>1 DEF DeliveredWhole
  <2> QED  BY <2>1, <2>2 DEF AtOnceInv
<1> QED
  BY <1>1, <1>2, <1>3, <1>4, <1>5, <1>6, <1>7 DEF ConversationNext

\* What a client holds of an answer is a prefix of what the provider gave, and
\* all of it once it was told the end, whatever the chunks are, in whatever
\* order, and wherever the stream breaks off (the encoders, the adapters and
\* what a client reads).  Without drafts an item is announced with its final
\* opaque value; no call has the index of the reasoning.
THEOREM AnswersDelivered ==
  ASSUME ~Drafts, SlotsApart
  PROVE  ConversationSpec => []DeliveredWhole
<1>1. ConversationInit => WholeInv /\ AtOnceInv
  <2> SUFFICES ASSUME ConversationInit
               PROVE  WholeInv /\ AtOnceInv
    OBVIOUS
  <2>1. exchange.stream
    BY DEF ConversationInit, NoExchange
  <2> QED  BY <2>1, WholeInit DEF AtOnceInv
<1>2. WholeInv /\ AtOnceInv /\ [ConversationNext]_conversationVars => (WholeInv /\ AtOnceInv)'
  BY WholeNext, AtOnceNext
<1>3. WholeInv /\ AtOnceInv => DeliveredWhole
  <2> SUFFICES ASSUME WholeInv, AtOnceInv
               PROVE  DeliveredWhole
    OBVIOUS
  <2>1. CASE exchange.stream
    BY <2>1, HeldIsWhole
  <2>2. CASE ~exchange.stream /\ exchange.phase = "over"
    BY <2>2 DEF AtOnceInv
  <2>3. CASE ~exchange.stream /\ exchange.phase # "over"
    <3>1. client.blocks = <<>> /\ client.misled = FALSE /\ client.ended # "end"
      BY <2>3 DEF AtOnceInv, NoOne
    <3> QED  BY <3>1, NothingIsWhole
  <2> QED  BY <2>1, <2>2, <2>3
<1> QED
  BY <1>1, <1>2, <1>3, PTL DEF ConversationSpec

(***************************************************************************)
(* The contents of messages.                                               *)
(***************************************************************************)

MessagesSeq(messages) == IsSeq(messages) /\ \A m \in 1..Len(messages) : IsSeq(messages[m].content)
ContentList(messages) == [i \in DOMAIN messages |-> messages[i].content]

\* The items of messages are their contents joined (Contents).
LEMMA ContentsAre ==
  ASSUME NEW messages
  PROVE  Contents(messages) = FlattenSeq(ContentList(messages))
BY DEF Contents, ContentList

\* The contents of messages are one for each.
LEMMA ContentListed ==
  ASSUME NEW messages, IsSeq(messages)
  PROVE  /\ IsSeq(ContentList(messages)) /\ Len(ContentList(messages)) = Len(messages)
         /\ \A m \in 1..Len(messages) : ContentList(messages)[m] = messages[m].content
<1> DEFINE f == ContentList(messages)
<1>1. Len(messages) \in Nat /\ DOMAIN messages = 1..Len(messages)
  BY Sequenced
<1>2. f = [i \in 1..Len(messages) |-> f[i]] /\ \A i \in 1..Len(messages) : f[i] = messages[i].content
  BY <1>1 DEF ContentList
<1> HIDE DEF f
<1>3. IsSeq(f) /\ Len(f) = Len(messages)
  BY <1>1, <1>2, ListedSeq
<1> QED
  BY <1>2, <1>3 DEF f

\* The items of messages are a sequence.
LEMMA ContentsSeq ==
  ASSUME NEW messages, MessagesSeq(messages)
  PROVE  SeqsOf(ContentList(messages)) /\ IsSeq(Contents(messages))
<1>1. SeqsOf(ContentList(messages))
  BY ContentListed DEF MessagesSeq, SeqsOf
<1> QED
  BY <1>1, FlatSeq, ContentsAre

\* The items of a conversation that goes on are the former ones and the new ones.
LEMMA ContentsJoined ==
  ASSUME NEW a, NEW b, MessagesSeq(a), MessagesSeq(b)
  PROVE  MessagesSeq(a \o b) /\ Contents(a \o b) = Contents(a) \o Contents(b)
<1>1. /\ Len(a) \in Nat /\ Len(b) \in Nat /\ IsSeq(a \o b) /\ Len(a \o b) = Len(a) + Len(b)
      /\ \A i \in 1..Len(a) : (a \o b)[i] = a[i]
      /\ \A i \in 1..Len(b) : (a \o b)[Len(a) + i] = b[i]
  BY Joined, Sequenced DEF MessagesSeq
<1> DEFINE all == a \o b
<1> HIDE DEF all
<1>2. ASSUME NEW m \in 1..Len(all) PROVE IsSeq(all[m].content)
  <2>1. CASE m <= Len(a)
    <3>1. m \in 1..Len(a) /\ all[m] = a[m]
      BY <1>1, <2>1 DEF all
    <3> QED  BY <3>1 DEF MessagesSeq
  <2>2. CASE ~(m <= Len(a))
    <3> DEFINE j == m - Len(a)
    <3>1. j \in 1..Len(b) /\ m = Len(a) + j
      BY <1>1, <2>2 DEF all
    <3> HIDE DEF j
    <3>2. all[m] = b[j]
      BY <1>1, <3>1 DEF all
    <3> QED  BY <3>1, <3>2 DEF MessagesSeq
  <2> QED  BY <2>1, <2>2
<1> DEFINE lAll == ContentList(all)
           lA == ContentList(a)
           lB == ContentList(b)
<1>3. /\ IsSeq(lAll) /\ Len(lAll) = Len(a) + Len(b) /\ \A m \in 1..Len(all) : lAll[m] = all[m].content
      /\ IsSeq(lA) /\ Len(lA) = Len(a) /\ \A m \in 1..Len(a) : lA[m] = a[m].content
      /\ IsSeq(lB) /\ Len(lB) = Len(b) /\ \A m \in 1..Len(b) : lB[m] = b[m].content
  BY <1>1, ContentListed DEF MessagesSeq, all
<1> HIDE DEF lAll, lA, lB
<1>4. ASSUME NEW i \in 1..Len(lA) PROVE lAll[i] = lA[i]
  <2>1. i \in 1..Len(all)
    BY <1>1, <1>3 DEF all
  <2> QED  BY <1>1, <1>3, <2>1 DEF all
<1>5. ASSUME NEW i \in 1..Len(lB) PROVE lAll[Len(lA) + i] = lB[i]
  <2>1. Len(a) + i \in 1..Len(all)
    BY <1>1, <1>3 DEF all
  <2> QED  BY <1>1, <1>3, <2>1 DEF all
<1>6. lAll = lA \o lB
  <2>1. IsSeq(lAll) /\ IsSeq(lA) /\ IsSeq(lB) /\ Len(lAll) = Len(lA) + Len(lB)
    BY <1>3
  <2>2. /\ \A i \in 1..Len(lA) : lAll[i] = lA[i]
        /\ \A i \in 1..Len(lB) : lAll[Len(lA) + i] = lB[i]
    BY <1>4, <1>5
  <2>3. Splits(lAll, lA, lB)
    BY <2>1, <2>2 DEF Splits
  <2> QED  BY <2>3, SplitSeq
<1>7. SeqsOf(lA) /\ SeqsOf(lB)
  BY ContentsSeq DEF lA, lB
<1>8. FlattenSeq(lAll) = FlattenSeq(lA) \o FlattenSeq(lB)
  BY <1>6, <1>7, FlatJoined
<1> QED
  BY <1>1, <1>2, <1>8, ContentsAre DEF MessagesSeq, lAll, lA, lB, all

\* Messages of one item each.
LEMMA ContentsEach ==
  ASSUME NEW messages, NEW s, IsSeq(messages), IsSeq(s), Len(messages) = Len(s),
         \A i \in 1..Len(s) : messages[i].content = <<s[i]>>
  PROVE  MessagesSeq(messages) /\ Contents(messages) = s
<1>1. \A i \in 1..Len(s) : IsSeq(messages[i].content)
  BY LeadsOne
<1> DEFINE x == ContentList(messages)
           y == Apart(s)
<1>2. IsSeq(x) /\ Len(x) = Len(s) /\ \A i \in 1..Len(s) : x[i] = <<s[i]>>
  BY ContentListed
<1>3. /\ IsSeq(y) /\ Len(y) = Len(s) /\ FlattenSeq(y) = s /\ \A i \in 1..Len(s) : y[i] = <<s[i]>>
  <2>1. DOMAIN s = 1..Len(s)
    BY Sequenced
  <2> QED  BY <2>1, FlatApart DEF SeqsOf, Apart
<1> HIDE DEF x, y
<1>4. IsSeq(x) /\ IsSeq(y) /\ Len(x) = Len(y)
  BY <1>2, <1>3
<1>5. \A i \in 1..Len(x) : x[i] = y[i]
  <2> SUFFICES ASSUME NEW i \in 1..Len(x) PROVE x[i] = y[i]
    OBVIOUS
  <2>1. i \in 1..Len(s)
    BY <1>2
  <2>2. x[i] = <<s[i]>>
    BY <1>2, <2>1
  <2>3. y[i] = <<s[i]>>
    BY <1>3, <2>1
  <2> QED  BY <2>2, <2>3
<1>6. x = y
  BY <1>4, <1>5, SameSeq
<1> QED
  BY <1>1, <1>3, <1>6, ContentsAre DEF MessagesSeq, x

\* The items of one message are its content.
LEMMA ContentsOne ==
  ASSUME NEW role, NEW content, IsSeq(content)
  PROVE  MessagesSeq(<<Message(role, content)>>) /\ Contents(<<Message(role, content)>>) = content
<1> DEFINE messages == <<Message(role, content)>>
<1>1. IsSeq(messages) /\ Len(messages) = 1 /\ messages[1].content = content
  BY LeadsOne DEF Message
<1>2. ContentList(messages) = <<content>>
  <2> DEFINE x == ContentList(messages)
             y == <<content>>
  <2>1. IsSeq(x) /\ Len(x) = 1 /\ x[1] = content
    <3> HIDE DEF messages
    <3>1. 1 \in 1..Len(messages)
      BY <1>1
    <3> QED  BY <1>1, <3>1, ContentListed
  <2>2. IsSeq(y) /\ Len(y) = 1 /\ y[1] = content
    BY LeadsOne
  <2> HIDE DEF x, y
  <2>3. \A i \in 1..Len(x) : x[i] = y[i]
    BY <2>1, <2>2
  <2>4. x = y
    BY <2>1, <2>2, <2>3, SameSeq
  <2> QED  BY <2>4 DEF x, y
<1>3. \A m \in 1..Len(messages) : m = 1
  BY <1>1
<1> HIDE DEF messages
<1>4. MessagesSeq(messages)
  BY <1>1, <1>3 DEF MessagesSeq
<1>5. Contents(messages) = content
  BY <1>2, ContentsAre, FlatOne
<1> QED
  BY <1>4, <1>5 DEF messages

\* No message has no items.
LEMMA ContentsNone ==
  MessagesSeq(<<>>) /\ Contents(<<>>) = <<>>
<1>1. IsSeq(<<>>) /\ Len(<<>>) = 0
  BY LeadsNowhere
<1> QED
  BY <1>1, ContentsEach

\* What there is in the sequences is in the one they are joined to.
LEMMA FlatHas ==
  ASSUME NEW seqs, SeqsOf(seqs)
  PROVE  /\ \A i \in 1..Len(FlattenSeq(seqs)) : \E m \in 1..Len(seqs) : \E b \in 1..Len(seqs[m]) : FlattenSeq(seqs)[i] = seqs[m][b]
         /\ \A m \in 1..Len(seqs) : \A b \in 1..Len(seqs[m]) : \E i \in 1..Len(FlattenSeq(seqs)) : FlattenSeq(seqs)[i] = seqs[m][b]
<1> DEFINE Inner(u) == \A i \in 1..Len(FlattenSeq(u)) : \E m \in 1..Len(u) : \E b \in 1..Len(u[m]) : FlattenSeq(u)[i] = u[m][b]
           Outer(u) == \A m \in 1..Len(u) : \A b \in 1..Len(u[m]) : \E i \in 1..Len(FlattenSeq(u)) : FlattenSeq(u)[i] = u[m][b]
           P == {k \in Nat : \A u : SeqsOf(u) /\ Len(u) = k => Inner(u) /\ Outer(u)}
<1>1. 0 \in P
  <2> SUFFICES ASSUME NEW u, SeqsOf(u), Len(u) = 0 PROVE Inner(u) /\ Outer(u)
    OBVIOUS
  <2>1. u = <<>>
    BY DEF SeqsOf, IsSeq
  <2>2. Len(FlattenSeq(u)) = 0
    BY <2>1, FlatNone
  <2> QED  BY <2>2
<1>2. ASSUME NEW k \in Nat, k \in P PROVE k + 1 \in P
  <2> SUFFICES ASSUME NEW u, SeqsOf(u), Len(u) = k + 1 PROVE Inner(u) /\ Outer(u)
    <3> HIDE DEF Inner, Outer
    <3> QED  OBVIOUS
  <2> DEFINE front == [j \in 1..k |-> u[j]]
             last == u[k + 1]
  <2>1. IsSeq(front) /\ Len(front) = k /\ u = front \o <<last>>
    BY LastApart DEF SeqsOf
  <2>2. SeqsOf(front) /\ IsSeq(last) /\ \A j \in 1..k : front[j] = u[j]
    <3>1. k + 1 \in 1..Len(u) /\ \A j \in 1..k : j \in 1..Len(u) /\ front[j] = u[j]
      OBVIOUS
    <3> HIDE DEF front
    <3> QED  BY <2>1, <3>1 DEF SeqsOf
  <2>3. Inner(front) /\ Outer(front)
    <3> HIDE DEF front, Inner, Outer
    <3> QED  BY <1>2, <2>1, <2>2
  <2> HIDE DEF front
  <2>4. FlattenSeq(u) = FlattenSeq(front) \o last
    <3> HIDE DEF last
    <3> QED  BY <2>1, <2>2, FlatMore
  <2> DEFINE x == FlattenSeq(front)
             y == FlattenSeq(u)
  <2>5. /\ Len(x) \in Nat /\ Len(last) \in Nat /\ Len(y) = Len(x) + Len(last)
        /\ \A i \in 1..Len(x) : y[i] = x[i]
        /\ \A i \in 1..Len(last) : y[Len(x) + i] = last[i]
    <3>1. IsSeq(x)
      BY <2>2, FlatSeq
    <3> HIDE DEF x, last
    <3> QED  BY <2>2, <2>4, <3>1, Joined, Sequenced DEF x
  <2>6. \A m \in 1..k : m \in 1..(k + 1) /\ front[m] = u[m]
    BY <2>2
  <2>7. k + 1 \in 1..(k + 1) /\ u[k + 1] = last
    OBVIOUS
  <2>8. Inner(front) => \A i \in 1..Len(x) : \E m \in 1..k : \E b \in 1..Len(u[m]) : x[i] = u[m][b]
    BY <2>1, <2>6
  <2>9. Outer(front) => \A m \in 1..k : \A b \in 1..Len(u[m]) : \E i \in 1..Len(x) : x[i] = u[m][b]
    BY <2>1, <2>6
  <2> HIDE DEF x, y, last
  <2>10. \A i \in 1..Len(y) : \E m \in 1..(k + 1) : \E b \in 1..Len(u[m]) : y[i] = u[m][b]
    <3> SUFFICES ASSUME NEW i \in 1..Len(y) PROVE \E m \in 1..(k + 1) : \E b \in 1..Len(u[m]) : y[i] = u[m][b]
      OBVIOUS
    <3>1. CASE i <= Len(x)
      <4>1. i \in 1..Len(x)
        BY <2>5, <3>1
      <4> HIDE DEF Inner, Outer
      <4> QED  BY <2>3, <2>5, <2>6, <2>8, <4>1
    <3>2. CASE ~(i <= Len(x))
      <4> DEFINE j == i - Len(x)
      <4>1. j \in 1..Len(last) /\ i = Len(x) + j
        BY <2>5, <3>2
      <4> HIDE DEF j, Inner, Outer
      <4>2. y[i] = last[j]
        BY <2>5, <4>1
      <4> QED  BY <2>7, <4>1, <4>2
    <3> QED  BY <3>1, <3>2
  <2>11. \A m \in 1..(k + 1) : \A b \in 1..Len(u[m]) : \E i \in 1..Len(y) : y[i] = u[m][b]
    <3> SUFFICES ASSUME NEW m \in 1..(k + 1), NEW b \in 1..Len(u[m]) PROVE \E i \in 1..Len(y) : y[i] = u[m][b]
      OBVIOUS
    <3>1. CASE m \in 1..k
      <4> HIDE DEF Inner, Outer
      <4>1. PICK i \in 1..Len(x) : x[i] = u[m][b]
        BY <2>3, <2>9, <3>1
      <4>2. i \in 1..Len(y) /\ y[i] = x[i]
        BY <2>5
      <4> QED  BY <4>1, <4>2
    <3>2. CASE m = k + 1
      <4>1. b \in 1..Len(last) /\ u[m] = last
        BY <2>7, <3>2
      <4>2. Len(x) + b \in 1..Len(y) /\ y[Len(x) + b] = last[b]
        BY <2>5, <4>1
      <4> QED  BY <4>1, <4>2
    <3>3. m \in 1..k \/ m = k + 1
      OBVIOUS
    <3> QED  BY <3>1, <3>2, <3>3
  <2> QED  BY <2>10, <2>11 DEF y
<1>3. Len(seqs) \in Nat
  BY Sequenced DEF SeqsOf
<1>4. Len(seqs) \in P
  <2> HIDE DEF P
  <2> QED  BY <1>1, <1>2, <1>3, EveryNumber
<1> QED
  BY <1>4

\* The items of messages are those of their contents.
LEMMA ContentsHas ==
  ASSUME NEW messages, MessagesSeq(messages)
  PROVE  /\ \A i \in 1..Len(Contents(messages)) : \E m \in 1..Len(messages) : \E b \in 1..Len(messages[m].content) :
              Contents(messages)[i] = messages[m].content[b]
         /\ \A m \in 1..Len(messages) : \A b \in 1..Len(messages[m].content) : \E i \in 1..Len(Contents(messages)) :
              Contents(messages)[i] = messages[m].content[b]
<1> DEFINE x == ContentList(messages)
<1>1. SeqsOf(x) /\ Len(x) = Len(messages) /\ \A m \in 1..Len(messages) : x[m] = messages[m].content
  BY ContentsSeq, ContentListed DEF MessagesSeq
<1>2. Contents(messages) = FlattenSeq(x)
  BY ContentsAre
<1> HIDE DEF x
<1>3. \A i \in 1..Len(FlattenSeq(x)) : \E m \in 1..Len(x) : \E b \in 1..Len(x[m]) : FlattenSeq(x)[i] = x[m][b]
  BY <1>1, FlatHas
<1>4. \A m \in 1..Len(x) : \A b \in 1..Len(x[m]) : \E i \in 1..Len(FlattenSeq(x)) : FlattenSeq(x)[i] = x[m][b]
  BY <1>1, FlatHas
<1> DEFINE y == Contents(messages)
<1>5. \A i \in 1..Len(y) : \E m \in 1..Len(messages) : \E b \in 1..Len(messages[m].content) : y[i] = messages[m].content[b]
  <2> SUFFICES ASSUME NEW i \in 1..Len(y) PROVE \E m \in 1..Len(messages) : \E b \in 1..Len(messages[m].content) : y[i] = messages[m].content[b]
    OBVIOUS
  <2>1. PICK m \in 1..Len(x) : \E b \in 1..Len(x[m]) : FlattenSeq(x)[i] = x[m][b]
    BY <1>2, <1>3
  <2>2. m \in 1..Len(messages) /\ x[m] = messages[m].content
    BY <1>1
  <2> QED  BY <1>2, <2>1, <2>2
<1>6. \A m \in 1..Len(messages) : \A b \in 1..Len(messages[m].content) : \E i \in 1..Len(y) : y[i] = messages[m].content[b]
  <2> SUFFICES ASSUME NEW m \in 1..Len(messages), NEW b \in 1..Len(messages[m].content)
               PROVE  \E i \in 1..Len(y) : y[i] = messages[m].content[b]
    OBVIOUS
  <2>1. m \in 1..Len(x) /\ x[m] = messages[m].content
    BY <1>1
  <2>2. PICK i \in 1..Len(FlattenSeq(x)) : FlattenSeq(x)[i] = x[m][b]
    BY <1>4, <2>1
  <2> QED  BY <1>2, <2>1, <2>2
<1> HIDE DEF y
<1> QED
  BY <1>5, <1>6 DEF y

-----------------------------------------------------------------------------
(***************************************************************************)
(* The items of a conversation, and those that are heard.                  *)
(***************************************************************************)

ItemsOf(s) == {s[i] : i \in 1..Len(s)}
Loud(item) == item.kind # "text" \/ item.parts # <<>>
Spoken(s) == InOrder(Restrict(s, {i \in DOMAIN s : s[i].kind # "text" \/ s[i].parts # <<>>}))
BareAll(s) == [i \in DOMAIN s |-> Bare(s[i])]

\* The items of two sequences joined are those of each.
LEMMA ItemsJoined ==
  ASSUME NEW s, NEW t, IsSeq(s), IsSeq(t)
  PROVE  ItemsOf(s \o t) = ItemsOf(s) \cup ItemsOf(t)
<1> DEFINE both == s \o t
<1>1. /\ Len(s) \in Nat /\ Len(t) \in Nat /\ Len(both) = Len(s) + Len(t)
      /\ \A i \in 1..Len(s) : both[i] = s[i]
      /\ \A i \in 1..Len(t) : both[Len(s) + i] = t[i]
  BY Joined, Sequenced
<1> HIDE DEF both
<1>2. ASSUME NEW e \in ItemsOf(both) PROVE e \in ItemsOf(s) \cup ItemsOf(t)
  <2>1. PICK i \in 1..Len(both) : e = both[i]
    BY DEF ItemsOf
  <2>2. CASE i <= Len(s)
    <3>1. i \in 1..Len(s)
      BY <1>1, <2>2
    <3> QED  BY <1>1, <2>1, <3>1 DEF ItemsOf
  <2>3. CASE ~(i <= Len(s))
    <3> DEFINE j == i - Len(s)
    <3>1. j \in 1..Len(t) /\ i = Len(s) + j
      BY <1>1, <2>3
    <3> HIDE DEF j
    <3> QED  BY <1>1, <2>1, <3>1 DEF ItemsOf
  <2> QED  BY <2>2, <2>3
<1>3. ASSUME NEW e \in ItemsOf(s) PROVE e \in ItemsOf(both)
  <2>1. PICK i \in 1..Len(s) : e = s[i]
    BY DEF ItemsOf
  <2>2. i \in 1..Len(both) /\ both[i] = e
    BY <1>1, <2>1
  <2> QED  BY <2>2 DEF ItemsOf
<1>4. ASSUME NEW e \in ItemsOf(t) PROVE e \in ItemsOf(both)
  <2>1. PICK i \in 1..Len(t) : e = t[i]
    BY DEF ItemsOf
  <2>2. Len(s) + i \in 1..Len(both) /\ both[Len(s) + i] = e
    BY <1>1, <2>1
  <2> QED  BY <2>2 DEF ItemsOf
<1>5. ItemsOf(both) = ItemsOf(s) \cup ItemsOf(t)
  BY <1>2, <1>3, <1>4
<1> QED
  BY <1>5 DEF both

\* Of no item, and of one.
LEMMA ItemsFew ==
  ASSUME NEW e
  PROVE  ItemsOf(<<>>) = {} /\ ItemsOf(<<e>>) = {e}
BY DEF ItemsOf

\* The wanted ones, by whatever set tells them.
LEMMA SpokenIs ==
  ASSUME NEW s, IsSeq(s), NEW W, \A i \in 1..Len(s) : s[i] \in W <=> Loud(s[i])
  PROVE  Spoken(s) = Drawn(s, W)
<1>1. DOMAIN s = 1..Len(s)
  BY Sequenced
<1>2. {i \in DOMAIN s : s[i].kind # "text" \/ s[i].parts # <<>>} = {i \in DOMAIN s : s[i] \in W}
  BY <1>1 DEF Loud
<1> QED
  BY <1>2 DEF Spoken, Drawn

\* The items of some kinds, by whatever set tells them.
LEMMA KindIs ==
  ASSUME NEW s, IsSeq(s), NEW kinds, NEW W, \A i \in 1..Len(s) : s[i] \in W <=> s[i].kind \in kinds
  PROVE  OfKind(s, kinds) = Drawn(s, W)
<1>1. DOMAIN s = 1..Len(s)
  BY Sequenced
<1>2. {i \in DOMAIN s : s[i].kind \in kinds} = {i \in DOMAIN s : s[i] \in W}
  BY <1>1
<1> QED
  BY <1>2 DEF OfKind, Drawn

\* The items with an opaque value, by whatever set tells them.
LEMMA SealedIs ==
  ASSUME NEW s, IsSeq(s), NEW W, \A i \in 1..Len(s) : s[i] \in W <=> s[i].kind = "reasoning" /\ s[i].secret # Nothing
  PROVE  Sealed(s) = Drawn(s, W)
<1>1. DOMAIN s = 1..Len(s)
  BY Sequenced
<1>2. {i \in DOMAIN s : s[i].kind = "reasoning" /\ s[i].secret # Nothing} = {i \in DOMAIN s : s[i] \in W}
  BY <1>1
<1> QED
  BY <1>2 DEF Sealed, Drawn

\* What is chosen is there, and wanted.
LEMMA ChosenItems ==
  ASSUME NEW s, IsSeq(s), NEW W
  PROVE  IsSeq(Drawn(s, W)) /\ \A e : e \in ItemsOf(Drawn(s, W)) <=> e \in ItemsOf(s) /\ e \in W
<1> DEFINE chosen == Drawn(s, W)
<1>1. /\ IsSeq(chosen)
      /\ \A k \in 1..Len(chosen) : chosen[k] \in W /\ \E i \in 1..Len(s) : chosen[k] = s[i]
      /\ \A i \in 1..Len(s) : s[i] \in W => \E k \in 1..Len(chosen) : chosen[k] = s[i]
  BY ChosenSeq
<1> HIDE DEF chosen
<1>2. ASSUME NEW e, e \in ItemsOf(chosen) PROVE e \in ItemsOf(s) /\ e \in W
  BY <1>1, <1>2 DEF ItemsOf
<1>3. ASSUME NEW e, e \in ItemsOf(s), e \in W PROVE e \in ItemsOf(chosen)
  BY <1>1, <1>3 DEF ItemsOf
<1>4. \A e : e \in ItemsOf(chosen) <=> e \in ItemsOf(s) /\ e \in W
  BY <1>2, <1>3
<1> QED
  BY <1>1, <1>4 DEF chosen

\* What is heard are the items that are loud.
LEMMA SpokenItems ==
  ASSUME NEW s, IsSeq(s)
  PROVE  IsSeq(Spoken(s)) /\ \A e : e \in ItemsOf(Spoken(s)) <=> e \in ItemsOf(s) /\ Loud(e)
<1> DEFINE W == {e \in ItemsOf(s) : Loud(e)}
<1>1. \A i \in 1..Len(s) : s[i] \in W <=> Loud(s[i])
  BY DEF ItemsOf
<1>2. \A e : e \in W <=> e \in ItemsOf(s) /\ Loud(e)
  OBVIOUS
<1> HIDE DEF W
<1>3. Spoken(s) = Drawn(s, W)
  BY <1>1, SpokenIs
<1> QED
  BY <1>2, <1>3, ChosenItems

\* The items of some kinds are those.
LEMMA KindItems ==
  ASSUME NEW s, IsSeq(s), NEW kinds
  PROVE  IsSeq(OfKind(s, kinds)) /\ \A e : e \in ItemsOf(OfKind(s, kinds)) <=> e \in ItemsOf(s) /\ e.kind \in kinds
<1> DEFINE W == {e \in ItemsOf(s) : e.kind \in kinds}
<1>1. \A i \in 1..Len(s) : s[i] \in W <=> s[i].kind \in kinds
  BY DEF ItemsOf
<1>2. \A e : e \in W <=> e \in ItemsOf(s) /\ e.kind \in kinds
  OBVIOUS
<1> HIDE DEF W
<1>3. OfKind(s, kinds) = Drawn(s, W)
  BY <1>1, KindIs
<1> QED
  BY <1>2, <1>3, ChosenItems

\* The sealed items are the reasoning with an opaque value.
LEMMA SealedItems ==
  ASSUME NEW s, IsSeq(s)
  PROVE  IsSeq(Sealed(s)) /\ \A e : e \in ItemsOf(Sealed(s)) <=> e \in ItemsOf(s) /\ e.kind = "reasoning" /\ e.secret # Nothing
<1> DEFINE W == {e \in ItemsOf(s) : e.kind = "reasoning" /\ e.secret # Nothing}
<1>1. \A i \in 1..Len(s) : s[i] \in W <=> s[i].kind = "reasoning" /\ s[i].secret # Nothing
  BY DEF ItemsOf
<1>2. \A e : e \in W <=> e \in ItemsOf(s) /\ e.kind = "reasoning" /\ e.secret # Nothing
  OBVIOUS
<1> HIDE DEF W
<1>3. Sealed(s) = Drawn(s, W)
  BY <1>1, SealedIs
<1> QED
  BY <1>2, <1>3, ChosenItems

\* What is heard of two sequences, of what was heard, of some kinds.
LEMMA SpokenJoined ==
  ASSUME NEW s, NEW t, IsSeq(s), IsSeq(t)
  PROVE  Spoken(s \o t) = Spoken(s) \o Spoken(t)
<1> DEFINE both == s \o t
           W == {e \in ItemsOf(both) : Loud(e)}
<1>1. IsSeq(both) /\ ItemsOf(both) = ItemsOf(s) \cup ItemsOf(t)
  BY Joined, ItemsJoined
<1>2. /\ \A i \in 1..Len(both) : both[i] \in W <=> Loud(both[i])
      /\ \A i \in 1..Len(s) : s[i] \in W <=> Loud(s[i])
      /\ \A i \in 1..Len(t) : t[i] \in W <=> Loud(t[i])
  <2> HIDE DEF both
  <2> QED  BY <1>1 DEF ItemsOf
<1> HIDE DEF W
<1>3. Spoken(s) = Drawn(s, W) /\ Spoken(t) = Drawn(t, W)
  BY <1>2, SpokenIs
<1>4. Spoken(both) = Drawn(both, W)
  <2> HIDE DEF both
  <2> QED  BY <1>1, <1>2, SpokenIs
<1> QED
  BY <1>3, <1>4, ChosenJoined

\* What is heard of what is heard is all of it.
LEMMA SpokenTwice ==
  ASSUME NEW s, IsSeq(s)
  PROVE  Spoken(Spoken(s)) = Spoken(s)
<1> DEFINE W == {e \in ItemsOf(s) : Loud(e)}
           spoken == Spoken(s)
<1>1. \A i \in 1..Len(s) : s[i] \in W <=> Loud(s[i])
  BY DEF ItemsOf
<1>2. IsSeq(spoken) /\ \A i \in 1..Len(spoken) : spoken[i] \in W <=> Loud(spoken[i])
  <2>1. IsSeq(spoken) /\ \A e \in ItemsOf(spoken) : e \in ItemsOf(s) /\ Loud(e)
    BY SpokenItems
  <2> HIDE DEF spoken
  <2> QED  BY <2>1 DEF ItemsOf
<1> HIDE DEF W, spoken
<1>3. spoken = Drawn(s, W)
  BY <1>1, SpokenIs DEF spoken
<1>4. Spoken(spoken) = Drawn(spoken, W)
  BY <1>2, SpokenIs
<1>5. Drawn(Drawn(s, W), W) = Drawn(s, W)
  BY ChosenTwice
<1> QED
  BY <1>3, <1>4, <1>5 DEF spoken

\* Whether kinds are told apart before or after does not matter.
LEMMA SpokenOfKind ==
  ASSUME NEW s, IsSeq(s), NEW kinds
  PROVE  Spoken(OfKind(s, kinds)) = OfKind(Spoken(s), kinds)
<1> DEFINE V == {e \in ItemsOf(s) : e.kind \in kinds}
           W == {e \in ItemsOf(s) : Loud(e)}
           both == {e \in ItemsOf(s) : e.kind \in kinds /\ Loud(e)}
           some == OfKind(s, kinds)
           spoken == Spoken(s)
<1>1. /\ \A i \in 1..Len(s) : s[i] \in V <=> s[i].kind \in kinds
      /\ \A i \in 1..Len(s) : s[i] \in W <=> Loud(s[i])
  BY DEF ItemsOf
<1>2. /\ IsSeq(some) /\ \A i \in 1..Len(some) : some[i] \in W <=> Loud(some[i])
  <2>1. IsSeq(some) /\ \A e \in ItemsOf(some) : e \in ItemsOf(s)
    BY KindItems
  <2> HIDE DEF some
  <2> QED  BY <2>1 DEF ItemsOf
<1>3. /\ IsSeq(spoken) /\ \A i \in 1..Len(spoken) : spoken[i] \in V <=> spoken[i].kind \in kinds
  <2>1. IsSeq(spoken) /\ \A e \in ItemsOf(spoken) : e \in ItemsOf(s)
    BY SpokenItems
  <2> HIDE DEF spoken
  <2> QED  BY <2>1 DEF ItemsOf
<1>4. /\ \A e : e \in both <=> e \in V /\ e \in W
      /\ \A e : e \in both <=> e \in W /\ e \in V
  OBVIOUS
<1> HIDE DEF V, W, both, some, spoken
<1>5. some = Drawn(s, V) /\ spoken = Drawn(s, W)
  BY <1>1, KindIs, SpokenIs DEF some, spoken
<1>6. Spoken(some) = Drawn(some, W)
  BY <1>2, SpokenIs
<1>7. OfKind(spoken, kinds) = Drawn(spoken, V)
  BY <1>3, KindIs
<1>8. Drawn(Drawn(s, V), W) = Drawn(s, both)
  BY <1>4, ChosenTwice
<1>9. Drawn(Drawn(s, W), V) = Drawn(s, both)
  BY <1>4, ChosenTwice
<1> QED
  BY <1>5, <1>6, <1>7, <1>8, <1>9 DEF some, spoken

-----------------------------------------------------------------------------
(* Items alike. *)

\* An item has an opaque value only if it is reasoning.
RightItem(item) ==
  /\ item = Item(item.kind, item.id, item.parts, item.secret)
  /\ item.kind # "reasoning" => item.secret = Nothing

RestoredAll(s, artifacts) ==
  [i \in DOMAIN s |-> IF s[i].kind = "reasoning" /\ s[i].id # Unnamed
                      THEN [s[i] EXCEPT !.secret = ArtifactValue(artifacts, "encrypted", s[i].id)] ELSE s[i]]
\* The artifacts hold the opaque values of the items that have ids.
Tagged(e) == e.kind = "reasoning" /\ e.id # Unnamed
Values(artifacts, items) ==
  \A e \in items : Tagged(e) => ArtifactValue(artifacts, "encrypted", e.id) = e.secret

\* An item given an opaque value is the same otherwise.
LEMMA SecretIs ==
  ASSUME NEW item, RightItem(item), NEW value
  PROVE  /\ [item EXCEPT !.secret = value].kind = item.kind /\ [item EXCEPT !.secret = value].parts = item.parts
         /\ [item EXCEPT !.secret = value].id = item.id /\ [item EXCEPT !.secret = value].secret = value
         /\ [item EXCEPT !.secret = value] = Item(item.kind, item.id, item.parts, value)
<1>1. DOMAIN item = {"kind", "id", "parts", "secret"}
  BY DEF RightItem, Item
<1>2. [item EXCEPT !.secret = value] = Item(item.kind, item.id, item.parts, value)
  BY DEF RightItem, Item
<1> QED
  BY <1>1, <1>2

\* An item without its opaque value is the same otherwise.
LEMMA BareIs ==
  ASSUME NEW item, RightItem(item)
  PROVE  /\ Bare(item).kind = item.kind /\ Bare(item).parts = item.parts /\ Bare(item).id = item.id
         /\ Bare(item).secret = Nothing /\ RightItem(Bare(item))
<1> DEFINE bare == Bare(item)
<1>1. /\ bare.kind = item.kind /\ bare.parts = item.parts /\ bare.id = item.id /\ bare.secret = Nothing
      /\ bare = Item(item.kind, item.id, item.parts, Nothing)
  BY SecretIs DEF Bare
<1> HIDE DEF bare
<1>2. RightItem(bare)
  BY <1>1 DEF RightItem
<1> QED
  BY <1>1, <1>2 DEF bare

\* Every item of a sequence is bared.
LEMMA BareListed ==
  ASSUME NEW s, IsSeq(s)
  PROVE  IsSeq(BareAll(s)) /\ Len(BareAll(s)) = Len(s) /\ \A i \in 1..Len(s) : BareAll(s)[i] = Bare(s[i])
<1> DEFINE bare == BareAll(s)
<1>1. Len(s) \in Nat /\ DOMAIN s = 1..Len(s)
  BY Sequenced
<1>2. bare = [i \in 1..Len(s) |-> bare[i]] /\ \A i \in 1..Len(s) : bare[i] = Bare(s[i])
  BY <1>1 DEF BareAll
<1> HIDE DEF bare
<1>3. IsSeq(bare) /\ Len(bare) = Len(s)
  BY <1>1, <1>2, ListedSeq
<1> QED
  BY <1>2, <1>3 DEF bare

\* Two sequences joined are bared as each is.
LEMMA BareJoined ==
  ASSUME NEW a, NEW b, IsSeq(a), IsSeq(b)
  PROVE  BareAll(a \o b) = BareAll(a) \o BareAll(b)
<1> DEFINE both == a \o b
           bareAll == BareAll(both)
           bareA == BareAll(a)
           bareB == BareAll(b)
<1>1. /\ Len(a) \in Nat /\ Len(b) \in Nat /\ IsSeq(both) /\ Len(both) = Len(a) + Len(b)
      /\ \A i \in 1..Len(a) : both[i] = a[i]
      /\ \A i \in 1..Len(b) : both[Len(a) + i] = b[i]
  BY Joined, Sequenced
<1> HIDE DEF both
<1>2. /\ IsSeq(bareAll) /\ Len(bareAll) = Len(both) /\ \A i \in 1..Len(both) : bareAll[i] = Bare(both[i])
      /\ IsSeq(bareA) /\ Len(bareA) = Len(a) /\ \A i \in 1..Len(a) : bareA[i] = Bare(a[i])
      /\ IsSeq(bareB) /\ Len(bareB) = Len(b) /\ \A i \in 1..Len(b) : bareB[i] = Bare(b[i])
  BY <1>1, BareListed
<1> HIDE DEF bareAll, bareA, bareB
<1>3. IsSeq(bareAll) /\ IsSeq(bareA) /\ IsSeq(bareB) /\ Len(bareAll) = Len(bareA) + Len(bareB)
  BY <1>1, <1>2
<1>4. \A i \in 1..Len(bareA) : bareAll[i] = bareA[i]
  <2>1. \A i \in 1..Len(a) : i \in 1..Len(both)
    BY <1>1
  <2> QED  BY <1>1, <1>2, <2>1
<1>5. \A i \in 1..Len(bareB) : bareAll[Len(bareA) + i] = bareB[i]
  <2>1. \A i \in 1..Len(b) : Len(a) + i \in 1..Len(both)
    BY <1>1
  <2> QED  BY <1>1, <1>2, <2>1
<1>6. bareAll = bareA \o bareB
  <2>1. IsSeq(bareAll) /\ IsSeq(bareA) /\ IsSeq(bareB) /\ Len(bareAll) = Len(bareA) + Len(bareB)
    BY <1>3
  <2>2. \A i \in 1..Len(bareA) : bareAll[i] = bareA[i]
    BY <1>4
  <2>3. \A i \in 1..Len(bareB) : bareAll[Len(bareA) + i] = bareB[i]
    BY <1>5
  <2>4. Splits(bareAll, bareA, bareB)
    BY <2>1, <2>2, <2>3 DEF Splits
  <2> QED  BY <2>4, SplitSeq
<1> QED
  BY <1>6 DEF bareAll, bareA, bareB, both

\* Of items alike, alike ones are heard.
LEMMA SpokenAlike ==
  ASSUME NEW s, NEW t, IsSeq(s), IsSeq(t), Len(s) = Len(t), \A i \in 1..Len(s) : Loud(s[i]) <=> Loud(t[i])
  PROVE  IsSeq(Spoken(s)) /\ IsSeq(Spoken(t)) /\ Paired(s, t, Spoken(s), Spoken(t))
<1> DEFINE inS == {e \in ItemsOf(s) : Loud(e)}
           inT == {e \in ItemsOf(t) : Loud(e)}
<1>1. /\ \A i \in 1..Len(s) : s[i] \in inS <=> Loud(s[i])
      /\ \A i \in 1..Len(t) : t[i] \in inT <=> Loud(t[i])
  BY DEF ItemsOf
<1> HIDE DEF inS, inT
<1>2. Spoken(s) = Drawn(s, inS) /\ Spoken(t) = Drawn(t, inT)
  BY <1>1, SpokenIs
<1>3. \A i \in 1..Len(s) : s[i] \in inS <=> t[i] \in inT
  BY <1>1
<1>4. Paired(s, t, Drawn(s, inS), Drawn(t, inT))
  BY <1>3, ChosenAlike
<1>5. IsSeq(Spoken(s)) /\ IsSeq(Spoken(t))
  BY SpokenItems
<1> QED
  BY <1>2, <1>4, <1>5

\* Of items alike, alike ones are of some kinds.
LEMMA KindAlike ==
  ASSUME NEW s, NEW t, IsSeq(s), IsSeq(t), Len(s) = Len(t), NEW kinds,
         \A i \in 1..Len(s) : s[i].kind \in kinds <=> t[i].kind \in kinds
  PROVE  /\ IsSeq(OfKind(s, kinds)) /\ IsSeq(OfKind(t, kinds))
         /\ Paired(s, t, OfKind(s, kinds), OfKind(t, kinds))
<1> DEFINE inS == {e \in ItemsOf(s) : e.kind \in kinds}
           inT == {e \in ItemsOf(t) : e.kind \in kinds}
<1>1. /\ \A i \in 1..Len(s) : s[i] \in inS <=> s[i].kind \in kinds
      /\ \A i \in 1..Len(t) : t[i] \in inT <=> t[i].kind \in kinds
  BY DEF ItemsOf
<1> HIDE DEF inS, inT
<1>2. OfKind(s, kinds) = Drawn(s, inS) /\ OfKind(t, kinds) = Drawn(t, inT)
  BY <1>1, KindIs
<1>3. \A i \in 1..Len(s) : s[i] \in inS <=> t[i] \in inT
  BY <1>1
<1> QED
  BY <1>2, <1>3, ChosenAlike, KindItems

\* What is heard does not depend on opaque values.
LEMMA SpokenBare ==
  ASSUME NEW s, IsSeq(s), \A e \in ItemsOf(s) : RightItem(e)
  PROVE  Spoken(BareAll(s)) = BareAll(Spoken(s))
<1> DEFINE bare == BareAll(s)
           spoken == Spoken(s)
           both == Spoken(bare)
           other == BareAll(spoken)
<1>1. IsSeq(bare) /\ Len(bare) = Len(s) /\ \A i \in 1..Len(s) : bare[i] = Bare(s[i])
  BY BareListed
<1>2. \A i \in 1..Len(s) : RightItem(s[i])
  BY DEF ItemsOf
<1> HIDE DEF bare
<1>3. \A i \in 1..Len(s) : Loud(s[i]) <=> Loud(bare[i])
  BY <1>1, <1>2, BareIs DEF Loud
<1>4. /\ IsSeq(spoken) /\ IsSeq(both) /\ Len(spoken) = Len(both)
      /\ \A k \in 1..Len(spoken) : \E i \in 1..Len(s) : spoken[k] = s[i] /\ both[k] = bare[i]
  BY <1>1, <1>3, SpokenAlike DEF Paired
<1> HIDE DEF spoken, both
<1>5. IsSeq(other) /\ Len(other) = Len(spoken) /\ \A k \in 1..Len(spoken) : other[k] = Bare(spoken[k])
  BY <1>4, BareListed
<1> HIDE DEF other
<1>6. \A k \in 1..Len(both) : both[k] = other[k]
  BY <1>1, <1>4, <1>5
<1>7. both = other
  BY <1>4, <1>5, <1>6, SameSeq
<1> QED
  BY <1>7 DEF both, other, bare, spoken

\* Every item of a sequence is restored.
LEMMA RestoredListed ==
  ASSUME NEW s, IsSeq(s), NEW artifacts
  PROVE  /\ IsSeq(RestoredAll(s, artifacts)) /\ Len(RestoredAll(s, artifacts)) = Len(s)
         /\ \A i \in 1..Len(s) : RestoredAll(s, artifacts)[i] =
              IF s[i].kind = "reasoning" /\ s[i].id # Unnamed
              THEN [s[i] EXCEPT !.secret = ArtifactValue(artifacts, "encrypted", s[i].id)] ELSE s[i]
<1> DEFINE all == RestoredAll(s, artifacts)
<1>1. Len(s) \in Nat /\ DOMAIN s = 1..Len(s)
  BY Sequenced
<1>2. all = [i \in 1..Len(s) |-> all[i]] /\ \A i \in 1..Len(s) : all[i] =
              IF s[i].kind = "reasoning" /\ s[i].id # Unnamed
              THEN [s[i] EXCEPT !.secret = ArtifactValue(artifacts, "encrypted", s[i].id)] ELSE s[i]
  BY <1>1 DEF RestoredAll
<1> HIDE DEF all
<1>3. IsSeq(all) /\ Len(all) = Len(s)
  BY <1>1, <1>2, ListedSeq
<1> QED
  BY <1>2, <1>3 DEF all

\* What is said of every item of a sequence.
LEMMA SaidListed ==
  ASSUME NEW s, IsSeq(s)
  PROVE  SaidAll(s) = [i \in 1..Len(s) |-> Said(s[i])]
<1>1. DOMAIN s = 1..Len(s)
  BY Sequenced
<1> QED
  BY <1>1 DEF SaidAll

\* Items that say the same, one by one, say the same.
LEMMA SaidAlike ==
  ASSUME NEW s, NEW t, IsSeq(s), IsSeq(t), Len(s) = Len(t), \A i \in 1..Len(s) : Said(s[i]) = Said(t[i])
  PROVE  SaidAll(s) = SaidAll(t)
BY SaidListed

\* What the rail may be told of items is told one by one.
LEMMA RestorableListed ==
  ASSUME NEW s, IsSeq(s)
  PROVE  /\ IsSeq(Restorable(s)) /\ Len(Restorable(s)) = Len(s)
         /\ \A i \in 1..Len(s) : Restorable(s)[i] = IF s[i].kind = "reasoning" /\ s[i].id = Unnamed THEN Bare(s[i]) ELSE s[i]
<1> DEFINE all == Restorable(s)
<1>1. Len(s) \in Nat /\ DOMAIN s = 1..Len(s)
  BY Sequenced
<1>2. /\ all = [i \in 1..Len(s) |-> all[i]]
      /\ \A i \in 1..Len(s) : all[i] = IF s[i].kind = "reasoning" /\ s[i].id = Unnamed THEN Bare(s[i]) ELSE s[i]
  BY <1>1 DEF Restorable
<1> HIDE DEF all
<1>3. IsSeq(all) /\ Len(all) = Len(s)
  BY <1>1, <1>2, ListedSeq
<1> QED
  BY <1>2, <1>3 DEF all

\* Only the opaque values of reasoning without an id are not told.
LEMMA RestorableItems ==
  ASSUME NEW s, IsSeq(s), \A e \in ItemsOf(s) : RightItem(e)
  PROVE  /\ \A e \in ItemsOf(Restorable(s)) : RightItem(e)
         /\ \A i \in 1..Len(s) : /\ Restorable(s)[i].kind = s[i].kind /\ Restorable(s)[i].parts = s[i].parts
                                 /\ Restorable(s)[i].secret = IF Tagged(s[i]) THEN s[i].secret ELSE Nothing
<1> DEFINE all == Restorable(s)
<1>1. /\ Len(all) = Len(s)
      /\ \A i \in 1..Len(s) : all[i] = IF s[i].kind = "reasoning" /\ s[i].id = Unnamed THEN Bare(s[i]) ELSE s[i]
  BY RestorableListed
<1> HIDE DEF all
<1>2. ASSUME NEW i \in 1..Len(s)
      PROVE  /\ RightItem(all[i]) /\ all[i].kind = s[i].kind /\ all[i].parts = s[i].parts
             /\ all[i].secret = IF Tagged(s[i]) THEN s[i].secret ELSE Nothing
  <2> DEFINE item == s[i]
  <2>1. RightItem(item)
    BY DEF ItemsOf
  <2>2. all[i] = IF item.kind = "reasoning" /\ item.id = Unnamed THEN Bare(item) ELSE item
    BY <1>1
  <2> HIDE DEF item
  <2>3. /\ RightItem(Bare(item)) /\ Bare(item).kind = item.kind /\ Bare(item).parts = item.parts
        /\ Bare(item).secret = Nothing
    BY <2>1, BareIs
  <2>4. item.kind # "reasoning" => item.secret = Nothing
    BY <2>1 DEF RightItem
  <2>5. /\ RightItem(all[i]) /\ all[i].kind = item.kind /\ all[i].parts = item.parts
        /\ all[i].secret = IF Tagged(item) THEN item.secret ELSE Nothing
    BY <2>1, <2>2, <2>3, <2>4 DEF Tagged
  <2> QED  BY <2>5 DEF item
<1>3. \A e \in ItemsOf(all) : RightItem(e)
  BY <1>1, <1>2 DEF ItemsOf
<1> QED
  BY <1>2, <1>3 DEF all

\* What the rail is sent of a conversation is what its client knows.
LEMMA RestoredIsKnown ==
  ASSUME NEW known, IsSeq(known), \A e \in ItemsOf(known) : RightItem(e),
         NEW held, IsSeq(held), \A e \in ItemsOf(held) : RightItem(e), Spoken(held) = BareAll(Spoken(known)),
         NEW artifacts, Values(artifacts, ItemsOf(known))
  PROVE  SaidAll(Spoken(RestoredAll(held, artifacts))) = SaidAll(Spoken(Restorable(known)))
<1> DEFINE sent == RestoredAll(held, artifacts)
           tellable == Restorable(known)
           toldHeld == Spoken(held)
           toldSent == Spoken(sent)
           toldKnown == Spoken(known)
           toldWhole == Spoken(tellable)
<1>1. /\ IsSeq(sent) /\ Len(sent) = Len(held)
      /\ \A i \in 1..Len(held) : sent[i] =
              IF held[i].kind = "reasoning" /\ held[i].id # Unnamed
              THEN [held[i] EXCEPT !.secret = ArtifactValue(artifacts, "encrypted", held[i].id)] ELSE held[i]
  BY RestoredListed
<1> HIDE DEF sent
<1>2. ASSUME NEW i \in 1..Len(held)
      PROVE  /\ RightItem(held[i]) /\ sent[i].kind = held[i].kind /\ sent[i].parts = held[i].parts
             /\ sent[i].secret = IF Tagged(held[i]) THEN ArtifactValue(artifacts, "encrypted", held[i].id)
                                 ELSE held[i].secret
  <2>1. RightItem(held[i])
    BY DEF ItemsOf
  <2>2. CASE Tagged(held[i])
    <3> DEFINE value == ArtifactValue(artifacts, "encrypted", held[i].id)
               item == held[i]
    <3>1. sent[i] = [item EXCEPT !.secret = value]
      BY <1>1, <2>2 DEF Tagged
    <3> HIDE DEF value, item
    <3>2. RightItem(item)
      BY <2>1 DEF item
    <3>3. sent[i].kind = item.kind /\ sent[i].parts = item.parts /\ sent[i].secret = value
      BY <3>1, <3>2, SecretIs
    <3> QED  BY <2>1, <2>2, <3>3 DEF item, value
  <2>3. CASE ~Tagged(held[i])
    BY <1>1, <2>1, <2>3 DEF Tagged
  <2> QED  BY <2>2, <2>3
<1>3. \A i \in 1..Len(held) : Loud(held[i]) <=> Loud(sent[i])
  BY <1>2 DEF Loud
<1>4. /\ IsSeq(toldHeld) /\ IsSeq(toldSent) /\ Len(toldHeld) = Len(toldSent)
      /\ \A k \in 1..Len(toldHeld) : \E i \in 1..Len(held) : toldHeld[k] = held[i] /\ toldSent[k] = sent[i]
  BY <1>1, <1>3, SpokenAlike DEF Paired
<1>5. /\ IsSeq(tellable) /\ Len(tellable) = Len(known)
      /\ \A i \in 1..Len(known) : /\ tellable[i].kind = known[i].kind /\ tellable[i].parts = known[i].parts
                                  /\ tellable[i].secret = IF Tagged(known[i]) THEN known[i].secret ELSE Nothing
  BY RestorableListed, RestorableItems
<1> HIDE DEF toldSent, tellable
<1>6. /\ IsSeq(toldKnown) /\ IsSeq(toldWhole) /\ Len(toldKnown) = Len(toldWhole)
      /\ \A k \in 1..Len(toldKnown) : \E i \in 1..Len(known) : toldKnown[k] = known[i] /\ toldWhole[k] = tellable[i]
  <2>1. \A i \in 1..Len(known) : Loud(known[i]) <=> Loud(tellable[i])
    BY <1>5 DEF Loud
  <2> QED  BY <1>5, <2>1, SpokenAlike DEF Paired
<1> HIDE DEF toldKnown, toldWhole
<1>7. Len(toldHeld) = Len(toldKnown) /\ \A k \in 1..Len(toldKnown) : toldHeld[k] = Bare(toldKnown[k])
  <2>1. toldHeld = BareAll(toldKnown)
    BY DEF toldKnown
  <2> HIDE DEF toldHeld
  <2> QED  BY <1>6, <2>1, BareListed
<1> HIDE DEF toldHeld
<1>8. ASSUME NEW k \in 1..Len(toldSent)
      PROVE  Said(toldSent[k]) = Said(toldWhole[k])
  <2>1. k \in 1..Len(toldHeld) /\ k \in 1..Len(toldKnown)
    BY <1>4, <1>7
  <2>2. PICK i \in 1..Len(held) : toldHeld[k] = held[i] /\ toldSent[k] = sent[i]
    BY <1>4, <2>1
  <2>3. PICK j \in 1..Len(known) : toldKnown[k] = known[j] /\ toldWhole[k] = tellable[j]
    BY <1>6, <2>1
  <2> DEFINE item == known[j]
  <2>4. item \in ItemsOf(known) /\ RightItem(item) /\ held[i] = Bare(item)
    BY <1>7, <2>1, <2>2, <2>3 DEF ItemsOf
  <2>5. toldWhole[k].kind = item.kind /\ toldWhole[k].parts = item.parts
        /\ toldWhole[k].secret = IF Tagged(item) THEN item.secret ELSE Nothing
    BY <1>5, <2>3
  <2> HIDE DEF item
  <2>6. held[i].kind = item.kind /\ held[i].parts = item.parts /\ held[i].id = item.id /\ held[i].secret = Nothing
    BY <2>4, BareIs
  <2>7. Tagged(item) => ArtifactValue(artifacts, "encrypted", item.id) = item.secret
    BY <2>4 DEF Values
  <2>8. Tagged(held[i]) <=> Tagged(item)
    BY <2>6 DEF Tagged
  <2>9. sent[i].kind = item.kind /\ sent[i].parts = item.parts
        /\ sent[i].secret = IF Tagged(item) THEN item.secret ELSE Nothing
    BY <1>2, <2>6, <2>7, <2>8
  <2> QED  BY <2>2, <2>5, <2>9 DEF Said
<1>9. Len(toldSent) = Len(toldWhole)
  BY <1>4, <1>6, <1>7
<1>10. SaidAll(toldSent) = SaidAll(toldWhole)
  BY <1>4, <1>6, <1>8, <1>9, SaidAlike
<1> QED
  BY <1>10 DEF toldSent, toldWhole, tellable, sent

\* What the chat provider is sent of it is what its client knows but reasoning.
LEMMA KindsAreKnown ==
  ASSUME NEW known, IsSeq(known), \A e \in ItemsOf(known) : RightItem(e),
         NEW held, IsSeq(held), Spoken(held) = BareAll(Spoken(known)),
         NEW kinds, "reasoning" \notin kinds
  PROVE  SaidAll(Spoken(OfKind(held, kinds))) = SaidAll(Spoken(OfKind(known, kinds)))
<1> DEFINE toldHeld == Spoken(held)
           toldKnown == Spoken(known)
           someHeld == OfKind(toldHeld, kinds)
           someKnown == OfKind(toldKnown, kinds)
<1>1. Spoken(OfKind(held, kinds)) = someHeld /\ Spoken(OfKind(known, kinds)) = someKnown
  BY SpokenOfKind
<1>2. IsSeq(toldKnown) /\ \A e \in ItemsOf(toldKnown) : RightItem(e)
  BY SpokenItems
<1>3. toldHeld = BareAll(toldKnown)
  OBVIOUS
<1> HIDE DEF toldHeld, toldKnown
<1>4. IsSeq(toldHeld) /\ Len(toldHeld) = Len(toldKnown) /\ \A i \in 1..Len(toldKnown) : toldHeld[i] = Bare(toldKnown[i])
  BY <1>2, <1>3, BareListed
<1>5. \A i \in 1..Len(toldKnown) : RightItem(toldKnown[i])
  BY <1>2 DEF ItemsOf
<1>6. \A i \in 1..Len(toldHeld) : toldHeld[i].kind \in kinds <=> toldKnown[i].kind \in kinds
  BY <1>4, <1>5, BareIs
<1>7. /\ IsSeq(someHeld) /\ IsSeq(someKnown) /\ Len(someHeld) = Len(someKnown)
      /\ \A k \in 1..Len(someHeld) : \E i \in 1..Len(toldHeld) : someHeld[k] = toldHeld[i] /\ someKnown[k] = toldKnown[i]
  BY <1>2, <1>4, <1>6, KindAlike DEF Paired
<1>8. \A e \in ItemsOf(someKnown) : e.kind \in kinds
  BY <1>2, KindItems
<1> HIDE DEF someHeld, someKnown
<1>9. ASSUME NEW k \in 1..Len(someHeld)
      PROVE  Said(someHeld[k]) = Said(someKnown[k])
  <2>1. PICK i \in 1..Len(toldHeld) : someHeld[k] = toldHeld[i] /\ someKnown[k] = toldKnown[i]
    BY <1>7
  <2> DEFINE item == toldKnown[i]
  <2>2. RightItem(item) /\ toldHeld[i] = Bare(item) /\ item.kind \in kinds
    BY <1>4, <1>5, <1>7, <1>8, <2>1 DEF ItemsOf
  <2> HIDE DEF item
  <2>3. item.secret = Nothing
    BY <2>2 DEF RightItem
  <2>4. toldHeld[i].kind = item.kind /\ toldHeld[i].parts = item.parts /\ toldHeld[i].secret = Nothing
    BY <2>2, BareIs
  <2> QED  BY <2>1, <2>3, <2>4 DEF Said, item
<1>10. SaidAll(someHeld) = SaidAll(someKnown)
  BY <1>7, <1>9, SaidAlike
<1> QED
  BY <1>1, <1>10

-----------------------------------------------------------------------------
(* What is sent of messages. *)

Unmixed(content) ==
  \/ \A b \in 1..Len(content) : content[b].kind = "result"
  \/ \A b \in 1..Len(content) : content[b].kind # "result"
UnmixedAll(messages) == MessagesSeq(messages) /\ \A m \in 1..Len(messages) : Unmixed(messages[m].content)
AnyTold == {"input", "text", "call", "result"}

\* The same, for any message.
LEMMA ContentsSingle ==
  ASSUME NEW message, IsSeq(message.content)
  PROVE  MessagesSeq(<<message>>) /\ Contents(<<message>>) = message.content
<1> DEFINE messages == <<message>>
           content == message.content
<1>1. IsSeq(messages) /\ Len(messages) = 1 /\ messages[1].content = content
  BY LeadsOne
<1>2. ContentList(messages) = <<content>>
  <2> DEFINE listed == ContentList(messages)
             single == <<content>>
  <2>1. IsSeq(listed) /\ Len(listed) = 1 /\ listed[1] = content
    <3> HIDE DEF messages
    <3>1. 1 \in 1..Len(messages)
      BY <1>1
    <3> QED  BY <1>1, <3>1, ContentListed
  <2>2. IsSeq(single) /\ Len(single) = 1 /\ single[1] = content
    BY LeadsOne
  <2> HIDE DEF listed, single
  <2>3. \A i \in 1..Len(listed) : listed[i] = single[i]
    BY <2>1, <2>2
  <2>4. listed = single
    BY <2>1, <2>2, <2>3, SameSeq
  <2> QED  BY <2>4 DEF listed, single
<1>3. \A m \in 1..Len(messages) : m = 1
  BY <1>1
<1> HIDE DEF messages
<1>4. MessagesSeq(messages)
  BY <1>1, <1>3 DEF MessagesSeq
<1>5. Contents(messages) = content
  <2> HIDE DEF content
  <2>1. IsSeq(content)
    BY DEF content
  <2> QED  BY <1>2, <2>1, ContentsAre, FlatOne
<1> QED
  BY <1>4, <1>5 DEF messages

\* The items of some kinds of two sequences joined.
LEMMA KindJoined ==
  ASSUME NEW s, NEW t, IsSeq(s), IsSeq(t), NEW kinds
  PROVE  OfKind(s \o t, kinds) = OfKind(s, kinds) \o OfKind(t, kinds)
<1> DEFINE both == s \o t
           W == {e \in ItemsOf(both) : e.kind \in kinds}
<1>1. IsSeq(both) /\ ItemsOf(both) = ItemsOf(s) \cup ItemsOf(t)
  BY Joined, ItemsJoined
<1>2. /\ \A i \in 1..Len(both) : both[i] \in W <=> both[i].kind \in kinds
      /\ \A i \in 1..Len(s) : s[i] \in W <=> s[i].kind \in kinds
      /\ \A i \in 1..Len(t) : t[i] \in W <=> t[i].kind \in kinds
  <2> HIDE DEF both
  <2> QED  BY <1>1 DEF ItemsOf
<1> HIDE DEF W
<1>3. OfKind(s, kinds) = Drawn(s, W) /\ OfKind(t, kinds) = Drawn(t, W)
  BY <1>2, KindIs
<1>4. OfKind(both, kinds) = Drawn(both, W)
  <2> HIDE DEF both
  <2> QED  BY <1>1, <1>2, KindIs
<1> QED
  BY <1>3, <1>4, ChosenJoined

\* What a chat provider is told of a message (Tellable).
TellableOf(content) ==
  LET results == OfKind(content, {"result"})
  IN IF results # <<>> THEN results ELSE OfKind(content, {"input", "text", "call"})

\* A message is told as one, or each of its results apart.
LEMMA ChatMessageTold ==
  ASSUME NEW message, IsSeq(message.content)
  PROVE  /\ IsSeq(TellableOf(message.content)) /\ MessagesSeq(ChatMessage(message))
         /\ Contents(ChatMessage(message)) = TellableOf(message.content)
<1> DEFINE content == message.content
           results == OfKind(content, {"result"})
           rest == OfKind(content, {"input", "text", "call"})
           reasoning == OfKind(content, {"reasoning"})
           calls == OfKind(content, {"call"})
           single == [content |-> rest, reasoning |-> IF Replays /\ calls # <<>> THEN reasoning ELSE <<>>]
           each == [i \in DOMAIN results |-> [content |-> <<results[i]>>, reasoning |-> <<>>]]
<1>1. ChatMessage(message) = IF results # <<>> THEN each ELSE <<single>>
  BY DEF ChatMessage
<1>2. IsSeq(content)
  OBVIOUS
<1>3. TellableOf(content) = IF results # <<>> THEN results ELSE rest
  BY DEF TellableOf
<1> HIDE DEF content
<1>4. IsSeq(results) /\ IsSeq(rest)
  BY <1>2, KindItems
<1>5. CASE results # <<>>
  <2> HIDE DEF results
  <2>1. Len(results) \in Nat /\ DOMAIN results = 1..Len(results)
    BY <1>4, Sequenced
  <2>2. each = [j \in 1..Len(results) |-> each[j]] /\ \A j \in 1..Len(results) : each[j].content = <<results[j]>>
    BY <2>1
  <2> HIDE DEF each
  <2>3. IsSeq(each) /\ Len(each) = Len(results)
    BY <2>1, <2>2, ListedSeq
  <2>4. MessagesSeq(each) /\ Contents(each) = results
    BY <1>4, <2>2, <2>3, ContentsEach
  <2> QED  BY <1>1, <1>3, <1>4, <1>5, <2>4 DEF content
<1>6. CASE results = <<>>
  <2>1. single.content = rest
    OBVIOUS
  <2> HIDE DEF single, rest, results, each
  <2>2. MessagesSeq(<<single>>) /\ Contents(<<single>>) = rest
    BY <1>4, <2>1, ContentsSingle
  <2> QED  BY <1>1, <1>3, <1>4, <1>6, <2>2 DEF content
<1> QED
  BY <1>5, <1>6

\* Of a message that does not mix results with other items all can be told but reasoning.
LEMMA TellableAll ==
  ASSUME NEW content, IsSeq(content), Unmixed(content)
  PROVE  TellableOf(content) = OfKind(content, AnyTold)
<1> DEFINE results == OfKind(content, {"result"})
           told == OfKind(content, AnyTold)
           rest == OfKind(content, {"input", "text", "call"})
<1>1. TellableOf(content) = IF results # <<>> THEN results ELSE rest
  BY DEF TellableOf
<1>2. IsSeq(results) /\ \A e : e \in ItemsOf(results) <=> e \in ItemsOf(content) /\ e.kind \in {"result"}
  BY KindItems
<1>3. CASE results # <<>>
  <2> HIDE DEF results
  <2>1. PICK i \in 1..Len(results) : TRUE
    <3>1. Len(results) # 0
      BY <1>2, <1>3 DEF IsSeq
    <3>2. Len(results) \in Nat
      BY <1>2, Sequenced
    <3>3. 1 \in 1..Len(results)
      BY <3>1, <3>2
    <3> QED  BY <3>3
  <2>2. PICK b \in 1..Len(content) : content[b].kind = "result"
    <3>1. results[i] \in ItemsOf(content) /\ results[i].kind = "result"
      BY <1>2 DEF ItemsOf
    <3> QED  BY <3>1 DEF ItemsOf
  <2>3. \A i2 \in 1..Len(content) : content[i2].kind = "result"
    BY <2>2 DEF Unmixed
  <2> DEFINE W == ItemsOf(content)
  <2>4. /\ \A j \in 1..Len(content) : content[j] \in W <=> content[j].kind \in {"result"}
        /\ \A j \in 1..Len(content) : content[j] \in W <=> content[j].kind \in AnyTold
    BY <2>3 DEF ItemsOf, AnyTold
  <2> HIDE DEF W
  <2>5. OfKind(content, {"result"}) = Drawn(content, W)
    BY <2>4, KindIs
  <2>6. told = Drawn(content, W)
    BY <2>4, KindIs
  <2> QED  BY <1>1, <1>3, <2>5, <2>6 DEF results
<1>4. CASE results = <<>>
  <2>1. \A b \in 1..Len(content) : content[b].kind # "result"
    BY <1>2, <1>4, ItemsFew DEF ItemsOf
  <2> DEFINE W == {e \in ItemsOf(content) : e.kind \in AnyTold}
  <2>2. /\ \A j \in 1..Len(content) : content[j] \in W <=> content[j].kind \in {"input", "text", "call"}
        /\ \A j \in 1..Len(content) : content[j] \in W <=> content[j].kind \in AnyTold
    BY <2>1 DEF ItemsOf, AnyTold
  <2> HIDE DEF W
  <2>3. rest = Drawn(content, W)
    BY <2>2, KindIs
  <2>4. told = Drawn(content, W)
    BY <2>2, KindIs
  <2> QED  BY <1>1, <1>4, <2>3, <2>4
<1> QED
  BY <1>3, <1>4

\* What can be told of messages, one by one.
LEMMA TellableListed ==
  ASSUME NEW messages, MessagesSeq(messages)
  PROVE  /\ MessagesSeq(Tellable(messages)) /\ Len(Tellable(messages)) = Len(messages)
         /\ \A m \in 1..Len(messages) : Tellable(messages)[m] = [content |-> TellableOf(messages[m].content)]
<1> DEFINE f == Tellable(messages)
<1>1. IsSeq(messages) /\ Len(messages) \in Nat /\ DOMAIN messages = 1..Len(messages)
  BY Sequenced DEF MessagesSeq
<1>2. f = [m \in 1..Len(messages) |-> f[m]]
  BY <1>1 DEF Tellable
<1>3. \A m \in 1..Len(messages) : f[m] = [content |-> TellableOf(messages[m].content)]
  BY <1>1 DEF Tellable, TellableOf
<1> HIDE DEF f
<1>4. IsSeq(f) /\ Len(f) = Len(messages)
  BY <1>1, <1>2, ListedSeq
<1>5. ASSUME NEW m \in 1..Len(f) PROVE IsSeq(f[m].content)
  <2>1. IsSeq(messages[m].content) /\ f[m].content = TellableOf(messages[m].content)
    <3>1. m \in 1..Len(messages)
      BY <1>4
    <3>2. f[m] = [content |-> TellableOf(messages[m].content)]
      BY <1>3, <3>1
    <3> QED  BY <3>1, <3>2 DEF MessagesSeq
  <2> DEFINE message == messages[m]
  <2>2. IsSeq(TellableOf(message.content))
    <3>1. IsSeq(message.content)
      BY <2>1
    <3> HIDE DEF message
    <3> QED  BY <3>1, ChatMessageTold
  <2> QED  BY <2>1, <2>2
<1> QED
  BY <1>3, <1>4, <1>5 DEF MessagesSeq, f

\* One more sequence.
LEMMA SeqsMore ==
  ASSUME NEW seqs, SeqsOf(seqs), NEW one, IsSeq(one)
  PROVE  SeqsOf(seqs \o <<one>>)
<1> DEFINE single == <<one>>
           all == seqs \o single
<1>1. IsSeq(single) /\ Len(single) = 1 /\ single[1] = one
  BY LeadsOne
<1> HIDE DEF single
<1>2. /\ IsSeq(all) /\ Len(all) = Len(seqs) + 1 /\ Len(seqs) \in Nat
      /\ \A i \in 1..Len(seqs) : all[i] = seqs[i]
      /\ \A i \in 1..1 : all[Len(seqs) + i] = single[i]
  <2>1. IsSeq(seqs) /\ Len(seqs) \in Nat
    BY Sequenced DEF SeqsOf
  <2>2. /\ IsSeq(all) /\ Len(all) = Len(seqs) + Len(single)
        /\ \A i \in 1..Len(seqs) : all[i] = seqs[i]
        /\ \A i \in 1..Len(single) : all[Len(seqs) + i] = single[i]
    <3>1. Splits(all, seqs, single)
      BY <1>1, <2>1, JoinedSplits
    <3> HIDE DEF all
    <3> QED  BY <3>1 DEF Splits
  <2> HIDE DEF all
  <2> QED  BY <1>1, <2>1, <2>2
<1> HIDE DEF all
<1>3. ASSUME NEW i \in 1..Len(all) PROVE IsSeq(all[i])
  <2>1. CASE i \in 1..Len(seqs)
    BY <1>2, <2>1 DEF SeqsOf
  <2>2. CASE i = Len(seqs) + 1
    <3>1. 1 \in 1..1
      OBVIOUS
    <3> QED  BY <1>1, <1>2, <2>2, <3>1
  <2>3. i \in 1..Len(seqs) \/ i = Len(seqs) + 1
    BY <1>2
  <2> QED  BY <2>1, <2>2, <2>3
<1> QED
  BY <1>2, <1>3 DEF SeqsOf, all, single

ToldList(messages) == [i \in DOMAIN messages |-> ChatMessage(messages[i])]

\* What is sent of messages is what is sent of each.
LEMMA ToldListed ==
  ASSUME NEW messages, IsSeq(messages)
  PROVE  /\ IsSeq(ToldList(messages)) /\ Len(ToldList(messages)) = Len(messages)
         /\ \A m \in 1..Len(messages) : ToldList(messages)[m] = ChatMessage(messages[m])
<1> DEFINE f == ToldList(messages)
<1>1. Len(messages) \in Nat /\ DOMAIN messages = 1..Len(messages)
  BY Sequenced
<1>2. f = [i \in 1..Len(messages) |-> f[i]] /\ \A i \in 1..Len(messages) : f[i] = ChatMessage(messages[i])
  BY <1>1 DEF ToldList
<1> HIDE DEF f
<1>3. IsSeq(f) /\ Len(f) = Len(messages)
  BY <1>1, <1>2, ListedSeq
<1> QED
  BY <1>2, <1>3 DEF f

\* All messages are told in order, by induction over their number.
LEMMA ChatSent ==
  ASSUME NEW messages, MessagesSeq(messages)
  PROVE  /\ MessagesSeq(ToChatMessages(messages))
         /\ Contents(ToChatMessages(messages)) = Contents(Tellable(messages))
         /\ UnmixedAll(messages) => Contents(Tellable(messages)) = OfKind(Contents(messages), AnyTold)
<1> DEFINE Sent(u) == /\ SeqsOf(ToldList(u)) /\ MessagesSeq(FlattenSeq(ToldList(u)))
                      /\ Contents(FlattenSeq(ToldList(u))) = Contents(Tellable(u))
                      /\ UnmixedAll(u) => Contents(Tellable(u)) = OfKind(Contents(u), AnyTold)
           P == {k \in Nat : \A u : MessagesSeq(u) /\ Len(u) = k => Sent(u)}
<1>1. 0 \in P
  <2> SUFFICES ASSUME NEW u, MessagesSeq(u), Len(u) = 0 PROVE Sent(u)
    <3> HIDE DEF Sent
    <3> QED  OBVIOUS
  <2>1. u = <<>>
    BY DEF MessagesSeq, IsSeq
  <2>2. ToldList(u) = <<>> /\ Tellable(u) = <<>>
    BY <2>1 DEF ToldList, Tellable
  <2>3. IsSeq(<<>>) /\ Len(<<>>) = 0
    BY LeadsNowhere
  <2>4. MessagesSeq(<<>>) /\ Contents(<<>>) = <<>>
    BY ContentsNone
  <2>5. OfKind(<<>>, AnyTold) = <<>>
    <3> DEFINE W == {}
    <3>1. OfKind(<<>>, AnyTold) = Drawn(<<>>, W)
      BY <2>3, KindIs
    <3> HIDE DEF W
    <3> QED  BY <3>1, ChosenNone
  <2>6. SeqsOf(<<>>)
    BY <2>3 DEF SeqsOf
  <2> QED  BY <2>1, <2>2, <2>4, <2>5, <2>6, FlatNone
<1>2. ASSUME NEW k \in Nat, k \in P PROVE k + 1 \in P
  <2> SUFFICES ASSUME NEW u, MessagesSeq(u), Len(u) = k + 1 PROVE Sent(u)
    <3> HIDE DEF Sent
    <3> QED  OBVIOUS
  <2> DEFINE front == [j \in 1..k |-> u[j]]
             last == u[k + 1]
             single == <<last>>
  <2>1. IsSeq(front) /\ Len(front) = k /\ u = front \o single
    BY LastApart DEF MessagesSeq
  <2>2. MessagesSeq(front) /\ IsSeq(last.content) /\ IsSeq(u)
        /\ \A j \in 1..k : j \in 1..Len(u) /\ front[j] = u[j]
    <3>1. k + 1 \in 1..Len(u) /\ \A j \in 1..k : j \in 1..Len(u) /\ front[j] = u[j]
      OBVIOUS
    <3> HIDE DEF front
    <3> QED  BY <2>1, <3>1 DEF MessagesSeq
  <2>3. UnmixedAll(u) => UnmixedAll(front) /\ Unmixed(last.content)
    <3>1. k + 1 \in 1..Len(u)
      OBVIOUS
    <3> HIDE DEF front
    <3> QED  BY <2>1, <2>2, <3>1 DEF UnmixedAll
  <2>4. Sent(front)
    <3> HIDE DEF front, Sent
    <3> QED  BY <1>2, <2>1, <2>2
  <2> DEFINE told == ChatMessage(last)
             toldFront == ToldList(front)
             toldAll == ToldList(u)
             contents == TellableOf(last.content)
             tellable == [content |-> contents]
  <2>5. MessagesSeq(told) /\ Contents(told) = contents /\ IsSeq(contents)
    BY <2>2, ChatMessageTold
  <2> HIDE DEF front, single
  <2>6. toldAll = toldFront \o <<told>>
    <3>1. IsSeq(toldFront) /\ Len(toldFront) = k /\ \A j \in 1..k : toldFront[j] = ChatMessage(front[j])
      BY <2>1, ToldListed
    <3>2. IsSeq(toldAll) /\ Len(toldAll) = k + 1 /\ \A j \in 1..(k + 1) : toldAll[j] = ChatMessage(u[j])
      BY <2>2, ToldListed
    <3> HIDE DEF toldAll, toldFront
    <3>3. \A j \in 1..Len(toldFront) : toldAll[j] = toldFront[j]
      BY <2>2, <3>1, <3>2
    <3>4. toldAll[Len(toldFront) + 1] = told
      BY <3>1, <3>2
    <3> HIDE DEF told
    <3> QED  BY <3>1, <3>2, <3>3, <3>4, SplitLast
  <2>7. /\ SeqsOf(toldFront) /\ MessagesSeq(FlattenSeq(toldFront))
        /\ Contents(FlattenSeq(toldFront)) = Contents(Tellable(front))
        /\ UnmixedAll(front) => Contents(Tellable(front)) = OfKind(Contents(front), AnyTold)
    BY <2>4
  <2> HIDE DEF Sent
  <2>8. MessagesSeq(Tellable(front)) /\ Contents(Tellable(u)) = Contents(Tellable(front)) \o contents
    <3> DEFINE f == Tellable(front)
               all == Tellable(u)
    <3>1. MessagesSeq(f) /\ Len(f) = k /\ \A j \in 1..k : f[j] = [content |-> TellableOf(front[j].content)]
      BY <2>1, <2>2, TellableListed
    <3>2. MessagesSeq(all) /\ Len(all) = k + 1 /\ \A j \in 1..(k + 1) : all[j] = [content |-> TellableOf(u[j].content)]
      BY TellableListed
    <3> HIDE DEF f, all
    <3>3. \A j \in 1..Len(f) : all[j] = f[j]
      <4>1. \A j \in 1..k : j \in 1..(k + 1) /\ front[j] = u[j]
        BY <2>2
      <4> QED  BY <3>1, <3>2, <4>1
    <3>4. all[Len(f) + 1] = tellable
      BY <3>1, <3>2
    <3>5. MessagesSeq(<<tellable>>) /\ Contents(<<tellable>>) = contents
      <4>1. tellable.content = contents
        OBVIOUS
      <4> HIDE DEF tellable, contents
      <4> QED  BY <2>5, <4>1, ContentsSingle
    <3> HIDE DEF tellable
    <3>6. all = f \o <<tellable>>
      <4>1. IsSeq(all) /\ IsSeq(f) /\ Len(all) = Len(f) + 1
        BY <3>1, <3>2 DEF MessagesSeq
      <4> QED  BY <3>3, <3>4, <4>1, SplitLast
    <3> DEFINE added == <<tellable>>
    <3> HIDE DEF added
    <3>7. Contents(f \o added) = Contents(f) \o Contents(added)
      BY <3>1, <3>5, ContentsJoined DEF added
    <3> QED  BY <3>1, <3>5, <3>6, <3>7 DEF added, f, all
  <2> HIDE DEF told, toldFront, toldAll, contents, tellable, last
  <2>9. FlattenSeq(toldAll) = FlattenSeq(toldFront) \o told
    BY <2>5, <2>6, <2>7, FlatMore DEF SeqsOf, MessagesSeq
  <2>10. SeqsOf(toldAll)
    <3>1. IsSeq(told)
      BY <2>5 DEF MessagesSeq
    <3> QED  BY <2>6, <2>7, <3>1, SeqsMore
  <2> DEFINE flat == FlattenSeq(toldFront)
  <2>11. MessagesSeq(flat \o told) /\ Contents(flat \o told) = Contents(flat) \o Contents(told)
    <3> HIDE DEF flat
    <3>1. MessagesSeq(flat)
      BY <2>7 DEF flat
    <3> QED  BY <2>5, <3>1, ContentsJoined
  <2>12. UnmixedAll(u) => Contents(Tellable(u)) = OfKind(Contents(u), AnyTold)
    <3> SUFFICES ASSUME UnmixedAll(u) PROVE Contents(Tellable(u)) = OfKind(Contents(u), AnyTold)
      OBVIOUS
    <3> DEFINE old == Contents(front)
               new == last.content
    <3>1. MessagesSeq(single) /\ Contents(single) = new
      BY <2>2, ContentsSingle DEF single
    <3>2. Contents(u) = old \o new
      BY <2>1, <2>2, <3>1, ContentsJoined
    <3>3. contents = OfKind(new, AnyTold)
      BY <2>2, <2>3, TellableAll DEF contents
    <3>4. IsSeq(old) /\ IsSeq(new)
      BY <2>2, ContentsSeq
    <3>5. Contents(Tellable(front)) = OfKind(old, AnyTold)
      BY <2>3, <2>7
    <3> HIDE DEF old, new
    <3>6. OfKind(old \o new, AnyTold) = OfKind(old, AnyTold) \o OfKind(new, AnyTold)
      BY <3>4, KindJoined
    <3> QED  BY <2>8, <3>2, <3>3, <3>5, <3>6
  <2> QED  BY <2>5, <2>7, <2>8, <2>9, <2>10, <2>11, <2>12 DEF toldAll, Sent
<1>3. Len(messages) \in Nat
  BY Sequenced DEF MessagesSeq
<1>4. Len(messages) \in P
  <2> HIDE DEF P
  <2> QED  BY <1>1, <1>2, <1>3, EveryNumber
<1>5. Sent(messages)
  <2> HIDE DEF Sent
  <2> QED  BY <1>4
<1>6. ToChatMessages(messages) = FlattenSeq(ToldList(messages))
  BY DEF ToChatMessages, ToldList
<1> QED
  BY <1>5, <1>6

\* On the rail every item is sent apart, with its opaque value.
LEMMA RailSent ==
  ASSUME NEW messages, MessagesSeq(messages), NEW fidelity
  PROVE  /\ MessagesSeq(ResponsesInput(messages, fidelity))
         /\ Contents(ResponsesInput(messages, fidelity)) = RestoredAll(Contents(messages), fidelity.artifacts)
<1> DEFINE items == Contents(messages)
           all == RestoredAll(items, fidelity.artifacts)
           sent == ResponsesInput(messages, fidelity)
<1>1. IsSeq(items) /\ DOMAIN items = 1..Len(items) /\ Len(items) \in Nat
  BY ContentsSeq, Sequenced
<1>2. sent = [i \in 1..Len(items) |-> sent[i]] /\ \A i \in 1..Len(items) : sent[i].content = <<all[i]>>
  BY <1>1 DEF ResponsesInput, RestoredAll
<1> HIDE DEF items
<1>3. IsSeq(all) /\ Len(all) = Len(items)
  BY <1>1, RestoredListed
<1> HIDE DEF all, sent
<1>4. IsSeq(sent) /\ Len(sent) = Len(items)
  BY <1>1, <1>2, ListedSeq
<1>5. MessagesSeq(sent) /\ Contents(sent) = all
  BY <1>2, <1>3, <1>4, ContentsEach
<1> QED
  BY <1>5 DEF sent, all, items

-----------------------------------------------------------------------------
(* The artifacts of items. *)

PlaceOf(id) == IF id = Unnamed THEN ReasoningItem ELSE id
SealedList(s) == [i \in DOMAIN Sealed(s) |-> Artifact("encrypted", PlaceOf(Sealed(s)[i].id), Sealed(s)[i].secret)]
OneValue(items) ==
  \A e, f \in items : Tagged(e) /\ Tagged(f) /\ e.id = f.id => e.secret = f.secret
KnownBy(items, n) ==
  \A e \in items :
    /\ RightItem(e)
    /\ e.kind = "reasoning" => /\ e.id.of \in 0..n /\ e.id # ReasoningItem
                               /\ e.id = Local(1000) => e.secret = Nothing
ArtifactsBy(artifacts, n) ==
  IsSeq(artifacts) /\ \A j \in 1..Len(artifacts) : artifacts[j].at.of \in 0..n /\ artifacts[j].at # Local(1000)
Matches(artifacts, at, j) == artifacts[j].kind = "encrypted" /\ artifacts[j].at = at

\* Without an artifact of the item there is no value.
LEMMA ValueNone ==
  ASSUME NEW artifacts, IsSeq(artifacts), NEW at, \A j \in 1..Len(artifacts) : ~Matches(artifacts, at, j)
  PROVE  ArtifactValue(artifacts, "encrypted", at) = Nothing
<1>1. DOMAIN artifacts = 1..Len(artifacts)
  BY Sequenced
<1>2. {i \in DOMAIN artifacts : artifacts[i].kind = "encrypted" /\ artifacts[i].at = at} = {}
  BY <1>1 DEF Matches
<1> QED
  BY <1>2 DEF ArtifactValue

\* With one, the first one's is the value.
LEMMA ValueFirst ==
  ASSUME NEW artifacts, IsSeq(artifacts), NEW at, NEW j \in 1..Len(artifacts), Matches(artifacts, at, j)
  PROVE  \E i \in 1..Len(artifacts) : /\ Matches(artifacts, at, i) /\ \A k \in 1..(i - 1) : ~Matches(artifacts, at, k)
                                      /\ ArtifactValue(artifacts, "encrypted", at) = artifacts[i].value
<1> DEFINE found == {i \in DOMAIN artifacts : artifacts[i].kind = "encrypted" /\ artifacts[i].at = at}
<1>1. Len(artifacts) \in Nat /\ DOMAIN artifacts = 1..Len(artifacts)
  BY Sequenced
<1>2. j \in found /\ found \in SUBSET Nat /\ found # {}
  BY <1>1 DEF Matches
<1>3. ArtifactValue(artifacts, "encrypted", at) = artifacts[Min(found)].value
  BY <1>2 DEF ArtifactValue
<1>4. \A i : i \in found <=> i \in 1..Len(artifacts) /\ Matches(artifacts, at, i)
  BY <1>1 DEF Matches
<1> HIDE DEF found
<1>5. Min(found) \in found /\ \A i \in found : Min(found) <= i
  <2>1. \E m \in found : \A i \in found : m <= i
    BY <1>2, SmallestOf
  <2> QED  BY <2>1 DEF Min
<1>6. \A k \in 1..(Min(found) - 1) : k \notin found /\ k \in 1..Len(artifacts)
  BY <1>1, <1>2, <1>4, <1>5
<1> QED
  BY <1>3, <1>4, <1>5, <1>6

TellsOne(artifacts, at, value) ==
  /\ IsSeq(artifacts) /\ \E j \in 1..Len(artifacts) : Matches(artifacts, at, j)
  /\ \A j \in 1..Len(artifacts) : Matches(artifacts, at, j) => artifacts[j].value = value

\* If all of an item's artifacts tell one value, that is it.
LEMMA ValueSome ==
  ASSUME NEW artifacts, NEW at, NEW value, TellsOne(artifacts, at, value)
  PROVE  ArtifactValue(artifacts, "encrypted", at) = value
BY ValueFirst DEF TellsOne

\* What is added after does not matter if it is not for the item.
LEMMA ValueJoined ==
  ASSUME NEW a, NEW b, IsSeq(a), IsSeq(b), NEW at, \A j \in 1..Len(b) : ~Matches(b, at, j)
  PROVE  ArtifactValue(a \o b, "encrypted", at) = ArtifactValue(a, "encrypted", at)
<1> DEFINE both == a \o b
<1>1. Splits(both, a, b) /\ Len(a) \in Nat /\ Len(b) \in Nat
  BY JoinedSplits, Sequenced
<1> HIDE DEF both
<1>2. /\ IsSeq(both) /\ Len(both) = Len(a) + Len(b)
      /\ \A i \in 1..Len(a) : i \in 1..Len(both) /\ (Matches(both, at, i) <=> Matches(a, at, i)) /\ both[i] = a[i]
  BY <1>1 DEF Splits, Matches
<1>3. ASSUME NEW i \in 1..Len(both), Matches(both, at, i)
      PROVE  i \in 1..Len(a)
  <2>1. CASE i <= Len(a)
    BY <1>1, <2>1
  <2>2. CASE ~(i <= Len(a))
    <3> DEFINE j == i - Len(a)
    <3>1. j \in 1..Len(b) /\ i = Len(a) + j
      BY <1>1, <1>2, <2>2
    <3> HIDE DEF j
    <3>2. both[i] = b[j]
      BY <1>1, <3>1 DEF Splits
    <3>3. Matches(b, at, j)
      BY <1>3, <3>2 DEF Matches
    <3> QED  BY <3>1, <3>3
  <2> QED  BY <2>1, <2>2
<1>4. CASE \E j \in 1..Len(a) : Matches(a, at, j)
  <2>1. PICK j \in 1..Len(a) : Matches(a, at, j)
    BY <1>4
  <2>2. PICK i \in 1..Len(a) : /\ Matches(a, at, i) /\ \A k \in 1..(i - 1) : ~Matches(a, at, k)
                               /\ ArtifactValue(a, "encrypted", at) = a[i].value
    BY <2>1, ValueFirst
  <2>3. j \in 1..Len(both) /\ Matches(both, at, j)
    BY <1>2, <2>1
  <2>4. PICK m \in 1..Len(both) : /\ Matches(both, at, m) /\ \A k \in 1..(m - 1) : ~Matches(both, at, k)
                                  /\ ArtifactValue(both, "encrypted", at) = both[m].value
    BY <1>2, <2>3, ValueFirst
  <2>5. m \in 1..Len(a) /\ Matches(a, at, m) /\ Matches(both, at, i)
    BY <1>2, <1>3, <2>2, <2>4
  <2>6. m = i
    <3>1. m \in Nat /\ i \in Nat /\ m >= 1 /\ i >= 1
      BY <1>1, <2>5
    <3>2. ~(m < i)
      BY <2>2, <2>5, <3>1
    <3>3. ~(i < m)
      BY <2>4, <2>5, <3>1
    <3> QED  BY <3>1, <3>2, <3>3
  <2> QED  BY <1>2, <2>2, <2>4, <2>6 DEF both
<1>5. CASE \A j \in 1..Len(a) : ~Matches(a, at, j)
  <2>1. ArtifactValue(a, "encrypted", at) = Nothing
    BY <1>5, ValueNone
  <2>2. \A j \in 1..Len(both) : ~Matches(both, at, j)
    BY <1>2, <1>3, <1>5
  <2>3. ArtifactValue(both, "encrypted", at) = Nothing
    BY <1>2, <2>2, ValueNone
  <2> QED  BY <2>1, <2>3 DEF both
<1> QED
  BY <1>4, <1>5

\* The artifacts of items are those of the sealed ones.
LEMMA SealedListed ==
  ASSUME NEW s, IsSeq(s)
  PROVE  /\ IsSeq(SealedList(s))
         /\ \A j \in 1..Len(SealedList(s)) : \E e \in ItemsOf(s) :
              e.kind = "reasoning" /\ e.secret # Nothing /\ SealedList(s)[j] = Artifact("encrypted", PlaceOf(e.id), e.secret)
         /\ \A e \in ItemsOf(s) : e.kind = "reasoning" /\ e.secret # Nothing =>
              \E j \in 1..Len(SealedList(s)) : SealedList(s)[j] = Artifact("encrypted", PlaceOf(e.id), e.secret)
<1> DEFINE sealed == Sealed(s)
           list == SealedList(s)
<1>1. IsSeq(sealed) /\ \A e : e \in ItemsOf(sealed) <=> e \in ItemsOf(s) /\ e.kind = "reasoning" /\ e.secret # Nothing
  BY SealedItems
<1>2. list = [i \in DOMAIN sealed |-> Artifact("encrypted", PlaceOf(sealed[i].id), sealed[i].secret)]
  BY DEF SealedList
<1> HIDE DEF sealed, list
<1>3. Len(sealed) \in Nat /\ DOMAIN sealed = 1..Len(sealed)
  BY <1>1, Sequenced
<1>4. /\ list = [i \in 1..Len(sealed) |-> list[i]]
      /\ \A i \in 1..Len(sealed) : list[i] = Artifact("encrypted", PlaceOf(sealed[i].id), sealed[i].secret)
  BY <1>2, <1>3
<1>5. IsSeq(list) /\ Len(list) = Len(sealed)
  BY <1>3, <1>4, ListedSeq
<1>6. ASSUME NEW j \in 1..Len(list)
      PROVE  \E e \in ItemsOf(s) : e.kind = "reasoning" /\ e.secret # Nothing /\ list[j] = Artifact("encrypted", PlaceOf(e.id), e.secret)
  <2>1. sealed[j] \in ItemsOf(sealed)
    BY <1>5 DEF ItemsOf
  <2> QED  BY <1>1, <1>4, <1>5, <2>1
<1>7. ASSUME NEW e \in ItemsOf(s), e.kind = "reasoning", e.secret # Nothing
      PROVE  \E j \in 1..Len(list) : list[j] = Artifact("encrypted", PlaceOf(e.id), e.secret)
  <2>1. e \in ItemsOf(sealed)
    BY <1>1, <1>7
  <2>2. PICK j \in 1..Len(sealed) : e = sealed[j]
    BY <2>1 DEF ItemsOf
  <2> QED  BY <1>4, <1>5, <2>2
<1> QED
  BY <1>5, <1>6, <1>7 DEF list

\* An artifact is for the item of its id.
LEMMA ArtifactIs ==
  ASSUME NEW id, NEW secret
  PROVE  /\ Artifact("encrypted", id, secret).kind = "encrypted" /\ Artifact("encrypted", id, secret).at = id
         /\ Artifact("encrypted", id, secret).value = secret
BY DEF Artifact

\* The opaque values of a history that is resent go to its items.
LEMMA ResentValues ==
  ASSUME NEW s, IsSeq(s), NEW n \in Nat, OneValue(ItemsOf(s)), KnownBy(ItemsOf(s), n)
  PROVE  ArtifactsBy(SealedList(s), n) /\ Values(SealedList(s), ItemsOf(s))
<1> DEFINE list == SealedList(s)
           items == ItemsOf(s)
<1>1. /\ IsSeq(list)
      /\ \A j \in 1..Len(list) : \E e \in items :
           e.kind = "reasoning" /\ e.secret # Nothing /\ list[j] = Artifact("encrypted", PlaceOf(e.id), e.secret)
      /\ \A e \in items : e.kind = "reasoning" /\ e.secret # Nothing =>
           \E j \in 1..Len(list) : list[j] = Artifact("encrypted", PlaceOf(e.id), e.secret)
  BY SealedListed
<1> HIDE DEF list, items
<1>2. ASSUME NEW j \in 1..Len(list)
      PROVE  /\ list[j].at.of \in 0..n /\ list[j].at # Local(1000)
             /\ \A e \in items : Tagged(e) /\ Matches(list, e.id, j) => list[j].value = e.secret /\ e.secret # Nothing
  <2>1. PICK f \in items : f.kind = "reasoning" /\ f.secret # Nothing /\ list[j] = Artifact("encrypted", PlaceOf(f.id), f.secret)
    BY <1>1
  <2>2. list[j].at = PlaceOf(f.id) /\ list[j].value = f.secret /\ list[j].kind = "encrypted"
    BY <2>1, ArtifactIs
  <2>3. f.id.of \in 0..n /\ f.id # Local(1000)
    BY <2>1 DEF KnownBy, items
  <2>4. PlaceOf(f.id).of \in 0..n /\ PlaceOf(f.id) # Local(1000)
    <3>1. ReasoningItem.of = 0 /\ ReasoningItem # Local(1000) /\ 0 \in 0..n
      BY DEF ReasoningItem, Local
    <3> QED  BY <2>3, <3>1 DEF PlaceOf
  <2>5. \A e \in items : Tagged(e) /\ e.id = PlaceOf(f.id) => e.secret = f.secret
    <3>1. \A e \in items : Tagged(e) => e.id # Unnamed /\ e.id # ReasoningItem
      BY DEF KnownBy, Tagged, items
    <3>2. \A e \in items : Tagged(e) /\ e.id = PlaceOf(f.id) => Tagged(f) /\ e.id = f.id
      BY <2>1, <3>1 DEF Tagged, PlaceOf
    <3> QED  BY <3>2 DEF OneValue, items
  <2> QED  BY <2>1, <2>2, <2>4, <2>5 DEF Matches
<1>3. ASSUME NEW e \in items, Tagged(e)
      PROVE  ArtifactValue(list, "encrypted", e.id) = e.secret
  <2>1. CASE e.secret = Nothing
    <3>1. \A j \in 1..Len(list) : ~Matches(list, e.id, j)
      BY <1>2, <1>3, <2>1
    <3> QED  BY <1>1, <2>1, <3>1, ValueNone
  <2>2. CASE e.secret # Nothing
    <3>1. PICK j \in 1..Len(list) : list[j] = Artifact("encrypted", PlaceOf(e.id), e.secret)
      BY <1>1, <1>3, <2>2 DEF Tagged
    <3>2. Matches(list, e.id, j)
      BY <1>3, <3>1, ArtifactIs DEF Matches, Tagged, PlaceOf
    <3>3. \A i \in 1..Len(list) : Matches(list, e.id, i) => list[i].value = e.secret
      BY <1>2, <1>3
    <3>4. \E i \in 1..Len(list) : Matches(list, e.id, i)
      BY <3>2
    <3>5. TellsOne(list, e.id, e.secret)
      BY <1>1, <3>3, <3>4 DEF TellsOne
    <3> QED  BY <3>5, ValueSome
  <2> QED  BY <2>1, <2>2
<1>4. ArtifactsBy(list, n) /\ Values(list, items)
  BY <1>1, <1>2, <1>3 DEF ArtifactsBy, Values
<1> QED
  BY <1>4 DEF list, items

\* What an answer of exchange n adds to a conversation.
AddedBy(items, n) ==
  /\ OneValue(items)
  /\ \A e \in items : /\ RightItem(e) /\ e.kind # "result"
                      /\ e.kind = "reasoning" => \/ e.id = Local(1000) /\ e.secret = Nothing
                                                 \/ e.id.of = n

\* What an exchange adds to the items that are known.
LEMMA AddedKnown ==
  ASSUME NEW n \in Nat \ {0}, NEW old, NEW new, OneValue(old), KnownBy(old, n - 1), AddedBy(new, n)
  PROVE  OneValue(old \cup new) /\ KnownBy(old \cup new, n)
<1>1. Local(1000).of = 0 /\ Local(1000) # ReasoningItem /\ ReasoningItem.of = 0
  BY DEF Local, ReasoningItem
<1>2. ASSUME NEW e \in new, e.kind = "reasoning"
      PROVE  e.id.of \in 0..n /\ e.id # ReasoningItem /\ (e.id = Local(1000) => e.secret = Nothing)
  BY <1>1, <1>2 DEF AddedBy
<1>3. ASSUME NEW e \in old, e.kind = "reasoning"
      PROVE  e.id.of \in 0..(n - 1) /\ e.id.of \in 0..n /\ e.id # ReasoningItem
             /\ (e.id = Local(1000) => e.secret = Nothing)
  BY <1>3 DEF KnownBy
<1>4. KnownBy(old \cup new, n)
  BY <1>2, <1>3 DEF KnownBy, AddedBy
<1>5. ASSUME NEW e \in old, NEW f \in new, Tagged(e), Tagged(f), e.id = f.id
      PROVE  e.secret = f.secret
  <2>1. f.id.of # n
    BY <1>3, <1>5 DEF Tagged
  <2>2. f.id = Local(1000) /\ f.secret = Nothing
    BY <1>5, <2>1 DEF AddedBy, Tagged
  <2> QED  BY <1>3, <1>5, <2>2 DEF Tagged
<1>6. OneValue(old \cup new)
  BY <1>5 DEF OneValue, AddedBy
<1> QED
  BY <1>4, <1>6

\* The artifacts of what is added do not change the values of what was known.
LEMMA AddedValues ==
  ASSUME NEW n \in Nat \ {0}, NEW old, NEW artifacts, NEW s, IsSeq(s),
         KnownBy(old, n - 1), ArtifactsBy(artifacts, n - 1), Values(artifacts, old), AddedBy(ItemsOf(s), n)
  PROVE  /\ ArtifactsBy(artifacts \o SealedList(s), n)
         /\ Values(artifacts \o SealedList(s), old \cup ItemsOf(s))
<1> DEFINE list == SealedList(s)
           new == ItemsOf(s)
           both == artifacts \o list
<1>1. Local(1000).of = 0 /\ OneValue(new) /\ KnownBy(new, n)
  <2>1. KnownBy({}, n - 1) /\ OneValue({})
    BY DEF KnownBy, OneValue
  <2> HIDE DEF new
  <2>2. AddedBy(new, n)
    BY DEF new
  <2>3. KnownBy({} \cup new, n) /\ {} \cup new = new
    BY <2>1, <2>2, AddedKnown
  <2> QED  BY <2>2, <2>3 DEF Local, AddedBy
<1>2. ArtifactsBy(list, n) /\ Values(list, new)
  BY <1>1, ResentValues
<1>3. \A j \in 1..Len(list) : \E e \in new :
           e.kind = "reasoning" /\ e.secret # Nothing /\ list[j] = Artifact("encrypted", PlaceOf(e.id), e.secret)
  BY SealedListed
<1>named. ASSUME NEW e \in new, e.kind = "reasoning"
       PROVE  e.id # Unnamed /\ PlaceOf(e.id) = e.id
  <2>1. Unnamed.of = 0 /\ Local(1000) # Unnamed /\ n # 0
    BY DEF Unnamed, Local
  <2>2. e.id = Local(1000) \/ e.id.of = n
    BY <1>named DEF AddedBy
  <2> QED  BY <2>1, <2>2 DEF PlaceOf
<1>4. \A j \in 1..Len(list) : list[j].at.of = n
  <2> HIDE DEF list
  <2> SUFFICES ASSUME NEW j \in 1..Len(list) PROVE list[j].at.of = n
    OBVIOUS
  <2>1. PICK e \in new : e.kind = "reasoning" /\ e.secret # Nothing /\ list[j] = Artifact("encrypted", PlaceOf(e.id), e.secret)
    BY <1>3
  <2>2. PlaceOf(e.id).of = n
    BY <1>named, <2>1 DEF AddedBy
  <2> QED  BY <2>1, <2>2, ArtifactIs
<1> HIDE DEF list
<1>5. IsSeq(list) /\ IsSeq(artifacts) /\ Splits(both, artifacts, list) /\ Len(artifacts) \in Nat /\ Len(list) \in Nat
  BY <1>2, JoinedSplits, Sequenced DEF ArtifactsBy
<1> HIDE DEF new, both
<1>6. IsSeq(both) /\ Len(both) = Len(artifacts) + Len(list)
  BY <1>5 DEF Splits
<1>7. ASSUME NEW i \in 1..Len(both)
      PROVE  \/ i \in 1..Len(artifacts) /\ both[i] = artifacts[i]
             \/ \E j \in 1..Len(list) : i = Len(artifacts) + j /\ both[i] = list[j]
  <2>1. CASE i <= Len(artifacts)
    <3>1. i \in 1..Len(artifacts)
      BY <1>5, <2>1
    <3> QED  BY <1>5, <3>1 DEF Splits
  <2>2. CASE ~(i <= Len(artifacts))
    <3> DEFINE j == i - Len(artifacts)
    <3>1. j \in 1..Len(list) /\ i = Len(artifacts) + j
      BY <1>5, <1>6, <2>2
    <3> HIDE DEF j
    <3>2. both[i] = list[j]
      BY <1>5, <3>1 DEF Splits
    <3> QED  BY <3>1, <3>2
  <2> QED  BY <2>1, <2>2
<1>8. ArtifactsBy(both, n)
  <2>1. \A j \in 1..Len(artifacts) : artifacts[j].at.of \in 0..n /\ artifacts[j].at # Local(1000)
    BY DEF ArtifactsBy
  <2>2. \A j \in 1..Len(list) : list[j].at.of \in 0..n /\ list[j].at # Local(1000)
    BY <1>2 DEF ArtifactsBy
  <2>3. ASSUME NEW i \in 1..Len(both) PROVE both[i].at.of \in 0..n /\ both[i].at # Local(1000)
    <3>1. CASE i \in 1..Len(artifacts) /\ both[i] = artifacts[i]
      BY <2>1, <3>1
    <3>2. CASE \E j \in 1..Len(list) : both[i] = list[j]
      BY <2>2, <3>2
    <3> QED  BY <1>7, <3>1, <3>2
  <2> QED  BY <1>6, <2>3 DEF ArtifactsBy
<1>9. ASSUME NEW e \in old, Tagged(e)
      PROVE  ArtifactValue(both, "encrypted", e.id) = e.secret
  <2>1. e.id.of # n
    BY <1>9 DEF KnownBy, Tagged
  <2>2. \A j \in 1..Len(list) : ~Matches(list, e.id, j)
    BY <1>4, <2>1 DEF Matches
  <2> DEFINE at == e.id
  <2> HIDE DEF at
  <2>3. ArtifactValue(artifacts \o list, "encrypted", at) = ArtifactValue(artifacts, "encrypted", at)
    BY <1>5, <2>2, ValueJoined DEF at
  <2>4. ArtifactValue(artifacts, "encrypted", at) = e.secret
    BY <1>9 DEF Values, at
  <2> QED  BY <2>3, <2>4 DEF at, both
<1>10. ASSUME NEW e \in new, e.kind = "reasoning"
       PROVE  ArtifactValue(both, "encrypted", e.id) = e.secret
  <2>1. e.id.of = n \/ e.id = Local(1000)
    BY <1>10 DEF AddedBy, new
  <2>2. \A j \in 1..Len(artifacts) : ~Matches(artifacts, e.id, j)
    <3>1. \A j \in 1..Len(artifacts) : artifacts[j].at.of \in 0..(n - 1) /\ artifacts[j].at # Local(1000)
      BY DEF ArtifactsBy
    <3> QED  BY <2>1, <3>1 DEF Matches
  <2>3. ASSUME NEW i \in 1..Len(both), Matches(both, e.id, i)
        PROVE  both[i].value = e.secret /\ e.secret # Nothing
    <3>1. PICK j \in 1..Len(list) : both[i] = list[j]
      BY <1>7, <2>2, <2>3 DEF Matches
    <3>2. PICK f \in new : f.kind = "reasoning" /\ f.secret # Nothing /\ list[j] = Artifact("encrypted", PlaceOf(f.id), f.secret)
      BY <1>3
    <3>3. list[j].at = f.id /\ list[j].value = f.secret
      BY <1>named, <3>2, ArtifactIs
    <3>4. f.id = e.id
      BY <2>3, <3>1, <3>3 DEF Matches
    <3>5. f.secret = e.secret
      BY <1>1, <1>10, <1>named, <3>2, <3>4 DEF OneValue, Tagged
    <3> QED  BY <3>1, <3>2, <3>3, <3>5
  <2>4. CASE e.secret = Nothing
    <3>1. \A i \in 1..Len(both) : ~Matches(both, e.id, i)
      BY <2>3, <2>4
    <3> QED  BY <1>6, <2>4, <3>1, ValueNone
  <2>5. CASE e.secret # Nothing
    <3>1. PICK j \in 1..Len(list) : list[j] = Artifact("encrypted", PlaceOf(e.id), e.secret)
      BY <1>10, <2>5, SealedListed DEF list, new
    <3>2. Len(artifacts) + j \in 1..Len(both) /\ both[Len(artifacts) + j] = list[j]
      BY <1>5, <1>6 DEF Splits
    <3>3. Matches(both, e.id, Len(artifacts) + j)
      BY <1>10, <1>named, <3>1, <3>2, ArtifactIs DEF Matches
    <3>4. \E i \in 1..Len(both) : Matches(both, e.id, i)
      BY <3>2, <3>3
    <3>5. \A i \in 1..Len(both) : Matches(both, e.id, i) => both[i].value = e.secret
      BY <2>3
    <3>6. TellsOne(both, e.id, e.secret)
      BY <1>6, <3>4, <3>5 DEF TellsOne
    <3> QED  BY <3>6, ValueSome
  <2> QED  BY <2>4, <2>5
<1>11. Values(both, old \cup new)
  BY <1>9, <1>10 DEF Values, Tagged
<1> QED
  BY <1>8, <1>11 DEF both, list, new

-----------------------------------------------------------------------------
(* What a client knows, and what the gateway holds of it. *)

\* A conversation as its client knows it, of the first n exchanges.
Sound(memory, n) ==
  /\ MessagesSeq(memory) /\ \A m \in 1..Len(memory) : "content" \in DOMAIN memory[m]
  /\ KnownBy(ItemsOf(Contents(memory)), n) /\ OneValue(ItemsOf(Contents(memory)))

\* The same, apart from its opaque values, and those.
Carried(messages, artifacts, memory, n) ==
  /\ UnmixedAll(messages) /\ \A e \in ItemsOf(Contents(messages)) : RightItem(e)
  /\ Spoken(Contents(messages)) = BareAll(Spoken(Contents(memory)))
  /\ ArtifactsBy(artifacts, n) /\ Values(artifacts, ItemsOf(Contents(memory)))

\* What can be told of it (HistoryReplayed).
ToBeTold(memory, native) == IF native THEN Restorable(Contents(memory)) ELSE Contents(Tellable(memory))

\* What is posted of it is the whole of it.
LEMMA PostedWhole ==
  ASSUME NEW memory, NEW n \in Nat, Sound(memory, n), UnmixedAll(memory), NEW messages, NEW fidelity,
         Carried(messages, fidelity.artifacts, memory, n), NEW native \in BOOLEAN
  PROVE  LET sent == Payload(native, [messages |-> messages, fidelity |-> fidelity])
         IN SaidAll(Spoken(Contents(sent))) = SaidAll(Spoken(ToBeTold(memory, native)))
<1> DEFINE known == Contents(memory)
           held == Contents(messages)
           sent == Payload(native, [messages |-> messages, fidelity |-> fidelity])
           artifacts == fidelity.artifacts
<1>1. sent = IF native THEN ResponsesInput(messages, fidelity) ELSE ToChatMessages(messages)
  BY DEF Payload
<1>2. /\ IsSeq(known) /\ IsSeq(held) /\ UnmixedAll(messages) /\ MessagesSeq(messages) /\ MessagesSeq(memory)
      /\ \A e \in ItemsOf(known) : RightItem(e)
      /\ \A e \in ItemsOf(held) : RightItem(e)
      /\ Spoken(held) = BareAll(Spoken(known)) /\ Values(artifacts, ItemsOf(known))
  BY ContentsSeq DEF Sound, Carried, UnmixedAll, KnownBy
<1> HIDE DEF sent
<1>3. CASE native
  <2>1. Contents(sent) = RestoredAll(held, artifacts)
    BY <1>1, <1>2, <1>3, RailSent
  <2>2. ToBeTold(memory, native) = Restorable(known)
    BY <1>3 DEF ToBeTold
  <2> HIDE DEF known, held, artifacts
  <2>3. SaidAll(Spoken(RestoredAll(held, artifacts))) = SaidAll(Spoken(Restorable(known)))
    BY <1>2, RestoredIsKnown
  <2> QED  BY <2>1, <2>2, <2>3 DEF sent
<1>4. CASE ~native
  <2>1. Contents(sent) = OfKind(held, AnyTold)
    BY <1>1, <1>2, <1>4, ChatSent
  <2>2. ToBeTold(memory, native) = OfKind(known, AnyTold)
    BY <1>2, <1>4, ChatSent DEF ToBeTold
  <2> HIDE DEF known, held, artifacts
  <2>3. "reasoning" \notin AnyTold
    BY DEF AnyTold
  <2>4. SaidAll(Spoken(OfKind(held, AnyTold))) = SaidAll(Spoken(OfKind(known, AnyTold)))
    BY <1>2, <2>3, KindsAreKnown
  <2> QED  BY <2>1, <2>2, <2>4 DEF sent
<1> QED
  BY <1>3, <1>4

\* What says the same holds the same opaque values.
LEMMA SaidOpaque ==
  ASSUME NEW a, NEW b, IsSeq(a), IsSeq(b), \A e \in ItemsOf(b) : RightItem(e),
         SaidAll(Spoken(a)) = SaidAll(Spoken(b))
  PROVE  Opaque(b) \subseteq Opaque(a)
<1> DEFINE toldA == Spoken(a)
           toldB == Spoken(b)
<1>1. /\ IsSeq(toldA) /\ \A e : e \in ItemsOf(toldA) <=> e \in ItemsOf(a) /\ Loud(e)
      /\ IsSeq(toldB) /\ \A e : e \in ItemsOf(toldB) <=> e \in ItemsOf(b) /\ Loud(e)
  BY SpokenItems
<1>2. SaidAll(toldA) = SaidAll(toldB)
  OBVIOUS
<1> HIDE DEF toldA, toldB
<1>3. SaidAll(toldA) = [i \in 1..Len(toldA) |-> Said(toldA[i])] /\ SaidAll(toldB) = [i \in 1..Len(toldB) |-> Said(toldB[i])]
  BY <1>1, SaidListed
<1>4. \A i \in 1..Len(toldB) : i \in 1..Len(toldA) /\ Said(toldA[i]) = Said(toldB[i])
  BY <1>2, <1>3
<1>5. DOMAIN a = 1..Len(a) /\ DOMAIN b = 1..Len(b)
  BY Sequenced
<1>6. ASSUME NEW value \in Opaque(b)
      PROVE  value \in Opaque(a)
  <2>1. PICK e \in ItemsOf(b) : value = e.secret /\ value # Nothing
    BY <1>5 DEF Opaque, ItemsOf
  <2>2. Loud(e)
    BY <2>1 DEF RightItem, Loud
  <2>3. PICK i \in 1..Len(toldB) : toldB[i] = e
    BY <1>1, <2>1, <2>2 DEF ItemsOf
  <2>4. toldA[i].secret = value
    BY <1>4, <2>1, <2>3 DEF Said
  <2>5. toldA[i] \in ItemsOf(a)
    BY <1>1, <1>4, <2>3 DEF ItemsOf
  <2> QED  BY <1>5, <2>1, <2>4, <2>5 DEF Opaque, ItemsOf
<1> QED
  BY <1>6

-----------------------------------------------------------------------------
(* What is decoded. *)

\* Messages of one item each hold the items.
LEMMA SinglesAre ==
  ASSUME NEW messages, NEW s, IsSeq(messages), IsSeq(s), Len(messages) = Len(s),
         \A i \in 1..Len(s) : messages[i].content = <<s[i]>>
  PROVE  UnmixedAll(messages) /\ Contents(messages) = s
<1>1. MessagesSeq(messages) /\ Contents(messages) = s
  BY ContentsEach
<1>2. ASSUME NEW m \in 1..Len(messages) PROVE Unmixed(messages[m].content)
  <2> DEFINE content == messages[m].content
             item == s[m]
  <2>1. content = <<item>>
    OBVIOUS
  <2> HIDE DEF content, item
  <2>2. Len(content) = 1 /\ content[1] = item
    BY <2>1
  <2>3. \A b \in 1..Len(content) : b = 1
    BY <2>2
  <2>4. Unmixed(content)
    BY <2>2, <2>3 DEF Unmixed
  <2> QED  BY <2>4 DEF content
<1> QED
  BY <1>1, <1>2 DEF UnmixedAll

\* Each item of a sequence, as a message of its author.
LEMMA EachMessage ==
  ASSUME NEW s, IsSeq(s), NEW messages, DOMAIN messages = DOMAIN s, messages = [i \in DOMAIN s |-> messages[i]],
         \A i \in DOMAIN s : \E role : messages[i] = Message(role, <<s[i]>>)
  PROVE  /\ UnmixedAll(messages) /\ Contents(messages) = s
         /\ \A m \in 1..Len(messages) : "content" \in DOMAIN messages[m]
<1>1. Len(s) \in Nat /\ DOMAIN s = 1..Len(s)
  BY Sequenced
<1>2. IsSeq(messages) /\ Len(messages) = Len(s)
  BY <1>1, ListedSeq
<1>3. \A i \in 1..Len(s) : messages[i].content = <<s[i]>> /\ "content" \in DOMAIN messages[i]
  <2> SUFFICES ASSUME NEW i \in 1..Len(s) PROVE messages[i].content = <<s[i]>> /\ "content" \in DOMAIN messages[i]
    OBVIOUS
  <2> DEFINE single == <<s[i]>>
  <2>1. PICK role : messages[i] = Message(role, single)
    BY <1>1
  <2> HIDE DEF single
  <2>2. messages[i].content = single /\ "content" \in DOMAIN messages[i]
    BY <2>1 DEF Message
  <2> QED  BY <2>2 DEF single
<1>4. UnmixedAll(messages) /\ Contents(messages) = s
  BY <1>2, <1>3, SinglesAre
<1> QED
  BY <1>2, <1>3, <1>4

\* The items of bare items are right.
LEMMA BareItems ==
  ASSUME NEW s, IsSeq(s), \A e \in ItemsOf(s) : RightItem(e)
  PROVE  \A e \in ItemsOf(BareAll(s)) : RightItem(e) /\ e.secret = Nothing
<1> DEFINE bare == BareAll(s)
<1>1. Len(bare) = Len(s) /\ \A i \in 1..Len(s) : bare[i] = Bare(s[i])
  BY BareListed
<1> HIDE DEF bare
<1>2. ASSUME NEW e \in ItemsOf(bare) PROVE RightItem(e) /\ e.secret = Nothing
  <2>1. PICK i \in 1..Len(s) : e = Bare(s[i])
    BY <1>1 DEF ItemsOf
  <2>2. RightItem(s[i])
    BY DEF ItemsOf
  <2> QED  BY <2>1, <2>2, BareIs
<1> QED
  BY <1>2 DEF bare

\* The items a client sends, decoded.
LEMMA DecodedItems ==
  ASSUME NEW s, IsSeq(s), \A e \in ItemsOf(s) : RightItem(e)
  PROVE  /\ UnmixedAll(DecodeResponses(s).messages) /\ Contents(DecodeResponses(s).messages) = BareAll(s)
         /\ DecodeResponses(s).fidelity.artifacts = SealedList(s)
<1> DEFINE messages == DecodeResponses(s).messages
           bare == BareAll(s)
           artifacts == DecodeResponses(s).fidelity.artifacts
<1>1. IsSeq(bare) /\ DOMAIN bare = DOMAIN s /\ \A i \in DOMAIN s : bare[i] = Bare(s[i])
  BY BareListed, Sequenced
<1>2. /\ messages = [i \in DOMAIN s |-> Message(Author(s[i]), <<Bare(s[i])>>)]
      /\ artifacts = SealedList(s)
  BY DEF DecodeResponses, SealedList, PlaceOf
<1> HIDE DEF messages, bare, artifacts
<1>3. UnmixedAll(messages) /\ Contents(messages) = bare
  <2>1. /\ DOMAIN messages = DOMAIN bare /\ messages = [i \in DOMAIN bare |-> messages[i]]
        /\ \A i \in DOMAIN bare : messages[i] = Message(Author(s[i]), <<bare[i]>>)
    BY <1>1, <1>2
  <2>2. \A i \in DOMAIN bare : \E role : messages[i] = Message(role, <<bare[i]>>)
    BY <2>1
  <2> QED  BY <1>1, <2>1, <2>2, EachMessage
<1> QED
  BY <1>2, <1>3 DEF messages, bare, artifacts

\* A history that is resent.
LEMMA ResentCarried ==
  ASSUME NEW memory, NEW n \in Nat, Sound(memory, n)
  PROVE  LET decoded == DecodeResponses(Contents(memory))
         IN Carried(decoded.messages, decoded.fidelity.artifacts, memory, n)
<1> DEFINE known == Contents(memory)
           messages == DecodeResponses(known).messages
           artifacts == DecodeResponses(known).fidelity.artifacts
<1>1. IsSeq(known) /\ KnownBy(ItemsOf(known), n) /\ OneValue(ItemsOf(known)) /\ \A e \in ItemsOf(known) : RightItem(e)
  BY ContentsSeq DEF Sound, KnownBy
<1> HIDE DEF known
<1>2. UnmixedAll(messages) /\ Contents(messages) = BareAll(known) /\ artifacts = SealedList(known)
  BY <1>1, DecodedItems
<1>3. ArtifactsBy(SealedList(known), n) /\ Values(SealedList(known), ItemsOf(known))
  BY <1>1, ResentValues
<1>4. Spoken(BareAll(known)) = BareAll(Spoken(known))
  BY <1>1, SpokenBare
<1>5. \A e \in ItemsOf(BareAll(known)) : RightItem(e)
  BY <1>1, BareItems
<1> HIDE DEF messages, artifacts
<1>6. Carried(messages, artifacts, memory, n)
  BY <1>2, <1>3, <1>4, <1>5 DEF Carried, known
<1> QED
  BY <1>6 DEF messages, artifacts, known

BareMessages(messages) == [m \in DOMAIN messages |-> [messages[m] EXCEPT !.content = BareAll(@)]]
SignedBy(content) == {b \in DOMAIN content : content[b].secret # Nothing}
HeldWell(messages) == MessagesSeq(messages) /\ \A m \in 1..Len(messages) : "content" \in DOMAIN messages[m]

\* Messages are bared one by one.
LEMMA BareMessagesListed ==
  ASSUME NEW messages, HeldWell(messages)
  PROVE  /\ IsSeq(BareMessages(messages)) /\ Len(BareMessages(messages)) = Len(messages)
         /\ \A m \in 1..Len(messages) : BareMessages(messages)[m].content = BareAll(messages[m].content)
<1> DEFINE f == BareMessages(messages)
<1>1. Len(messages) \in Nat /\ DOMAIN messages = 1..Len(messages)
  BY Sequenced DEF HeldWell, MessagesSeq
<1>2. f = [m \in 1..Len(messages) |-> f[m]] /\ \A m \in 1..Len(messages) : f[m].content = BareAll(messages[m].content)
  BY <1>1 DEF BareMessages, HeldWell
<1> HIDE DEF f
<1>3. IsSeq(f) /\ Len(f) = Len(messages)
  BY <1>1, <1>2, ListedSeq
<1> QED
  BY <1>2, <1>3 DEF f

\* Bare messages hold the bare items, by induction over their number.
LEMMA BareContents ==
  ASSUME NEW messages, HeldWell(messages)
  PROVE  MessagesSeq(BareMessages(messages)) /\ Contents(BareMessages(messages)) = BareAll(Contents(messages))
<1> DEFINE Bared(u) == MessagesSeq(BareMessages(u)) /\ Contents(BareMessages(u)) = BareAll(Contents(u))
           P == {k \in Nat : \A u : HeldWell(u) /\ Len(u) = k => Bared(u)}
<1>1. 0 \in P
  <2> SUFFICES ASSUME NEW u, HeldWell(u), Len(u) = 0 PROVE Bared(u)
    <3> HIDE DEF Bared
    <3> QED  OBVIOUS
  <2>1. u = <<>>
    BY DEF HeldWell, MessagesSeq, IsSeq
  <2>2. BareMessages(u) = <<>>
    BY <2>1 DEF BareMessages
  <2>3. BareAll(<<>>) = <<>>
    BY DEF BareAll
  <2> QED  BY <2>1, <2>2, <2>3, ContentsNone
<1>2. ASSUME NEW k \in Nat, k \in P PROVE k + 1 \in P
  <2> SUFFICES ASSUME NEW u, HeldWell(u), Len(u) = k + 1 PROVE Bared(u)
    <3> HIDE DEF Bared
    <3> QED  OBVIOUS
  <2> DEFINE front == [j \in 1..k |-> u[j]]
             last == u[k + 1]
             single == <<last>>
             content == last.content
  <2>1. IsSeq(front) /\ Len(front) = k /\ u = front \o single
    BY LastApart DEF HeldWell, MessagesSeq
  <2>2. HeldWell(front) /\ IsSeq(content) /\ IsSeq(u) /\ \A j \in 1..k : j \in 1..Len(u) /\ front[j] = u[j]
    <3>1. k + 1 \in 1..Len(u) /\ \A j \in 1..k : j \in 1..Len(u) /\ front[j] = u[j]
      OBVIOUS
    <3> HIDE DEF front
    <3> QED  BY <2>1, <3>1 DEF HeldWell, MessagesSeq
  <2>3. Bared(front)
    <3> HIDE DEF front, Bared
    <3> QED  BY <1>2, <2>1, <2>2
  <2> DEFINE bareFront == BareMessages(front)
             bareAll == BareMessages(u)
             bareLast == [last EXCEPT !.content = BareAll(@)]
  <2>4. bareLast.content = BareAll(content)
    <3>1. "content" \in DOMAIN last
      BY DEF HeldWell
    <3> QED  BY <3>1
  <2>5. IsSeq(bareFront) /\ Len(bareFront) = k /\ IsSeq(bareAll) /\ Len(bareAll) = k + 1
    <3> HIDE DEF front
    <3> QED  BY <2>1, <2>2, BareMessagesListed
  <2>6. bareAll[k + 1] = bareLast /\ \A j \in 1..k : bareAll[j] = bareFront[j]
    <3>1. DOMAIN u = 1..(k + 1) /\ DOMAIN front = 1..k
      BY <2>2, Sequenced
    <3> HIDE DEF front
    <3> QED  BY <2>2, <3>1 DEF BareMessages
  <2> HIDE DEF front, single, content, bareFront, bareAll, bareLast
  <2>7. bareAll = bareFront \o <<bareLast>>
    BY <2>5, <2>6, SplitLast
  <2>8. MessagesSeq(bareFront) /\ Contents(bareFront) = BareAll(Contents(front))
    BY <2>3 DEF bareFront
  <2>9. IsSeq(BareAll(content))
    BY <2>2, BareListed
  <2>10. MessagesSeq(<<bareLast>>) /\ Contents(<<bareLast>>) = BareAll(content)
    BY <2>4, <2>9, ContentsSingle
  <2> DEFINE added == <<bareLast>>
  <2> HIDE DEF added
  <2>11. MessagesSeq(bareFront \o added) /\ Contents(bareFront \o added) = BareAll(Contents(front)) \o BareAll(content)
    BY <2>8, <2>10, ContentsJoined DEF added
  <2>12. MessagesSeq(single) /\ Contents(single) = content
    BY <2>2, ContentsSingle DEF single, content
  <2>13. MessagesSeq(front) /\ IsSeq(Contents(front))
    BY <2>2, ContentsSeq DEF HeldWell
  <2>14. Contents(u) = Contents(front) \o content
    BY <2>1, <2>12, <2>13, ContentsJoined
  <2> DEFINE old == Contents(front)
  <2> HIDE DEF old
  <2>15. BareAll(old \o content) = BareAll(old) \o BareAll(content)
    BY <2>2, <2>13, BareJoined DEF old
  <2> QED  BY <2>7, <2>11, <2>14, <2>15 DEF added, old, bareAll
<1>3. Len(messages) \in Nat
  BY Sequenced DEF HeldWell, MessagesSeq
<1>4. Len(messages) \in P
  <2> HIDE DEF P
  <2> QED  BY <1>1, <1>2, <1>3, EveryNumber
<1> QED
  BY <1>4

\* Of a history without signatures nothing is put aside.
LEMMA UnsignedHistory ==
  ASSUME NEW memory, HeldWell(memory),
         LET Signs(m) == InOrder([b \in SignedBy(memory[m].content) |->
                                 Artifact("signature", [of |-> m, n |-> b], memory[m].content[b].secret)])
         IN FlattenSeq([m \in DOMAIN memory |-> Signs(m)]) = <<>>
  PROVE  \A e \in ItemsOf(Contents(memory)) : e.secret = Nothing
<1> DEFINE Marks(m) == [b \in SignedBy(memory[m].content) |->
                          Artifact("signature", [of |-> m, n |-> b], memory[m].content[b].secret)]
           lists == [m \in DOMAIN memory |-> InOrder(Marks(m))]
<1>1. Len(memory) \in Nat /\ DOMAIN memory = 1..Len(memory)
  BY Sequenced DEF HeldWell, MessagesSeq
<1>2. ASSUME NEW m \in 1..Len(memory)
      PROVE  /\ IsSeq(InOrder(Marks(m))) /\ Len(InOrder(Marks(m))) = Cardinality(SignedBy(memory[m].content))
             /\ IsFiniteSet(SignedBy(memory[m].content)) /\ DOMAIN memory[m].content = 1..Len(memory[m].content)
  <2> DEFINE content == memory[m].content
             marks == Marks(m)
             D == SignedBy(content)
  <2>1. Len(content) \in Nat /\ DOMAIN content = 1..Len(content)
    BY Sequenced DEF HeldWell, MessagesSeq
  <2> DEFINE size == Len(content)
  <2>2. IsFiniteSet(1..size)
    <3>1. size \in Nat
      BY <2>1
    <3> HIDE DEF size
    <3>2. size \in Int /\ 1 \in Int
      BY <3>1
    <3> QED  BY <3>2, FS_Interval
  <2>3. DOMAIN marks = D
    OBVIOUS
  <2>4. D \in SUBSET (1..Len(content)) /\ D \in SUBSET Nat
    BY <2>1 DEF SignedBy
  <2> HIDE DEF D, marks, content
  <2>5. IsFiniteSet(D)
    BY <2>2, <2>4, FS_Subset
  <2>6. IsSeq(InOrder(marks)) /\ Len(InOrder(marks)) = Cardinality(D)
    BY <2>3, <2>4, <2>5, OrderOf
  <2> QED  BY <2>1, <2>5, <2>6 DEF D, marks, content
<1>3. /\ lists = [m \in 1..Len(memory) |-> lists[m]]
      /\ \A m \in 1..Len(memory) : lists[m] = InOrder(Marks(m))
  BY <1>1
<1>4. FlattenSeq(lists) = <<>>
  OBVIOUS
<1> HIDE DEF lists
<1>5. IsSeq(lists) /\ Len(lists) = Len(memory)
  BY <1>1, <1>3, ListedSeq
<1>6. SeqsOf(lists)
  <2> HIDE DEF Marks
  <2> QED  BY <1>2, <1>3, <1>5 DEF SeqsOf
<1>7. \A m \in 1..Len(lists) : \A b \in 1..Len(lists[m]) : FALSE
  <2>1. 1..Len(FlattenSeq(lists)) = {}
    BY <1>4
  <2>2. \A m \in 1..Len(lists) : \A b \in 1..Len(lists[m]) : \E i \in 1..Len(FlattenSeq(lists)) : FlattenSeq(lists)[i] = lists[m][b]
    BY <1>6, FlatHas
  <2> QED  BY <2>1, <2>2
<1>8. ASSUME NEW m \in 1..Len(memory)
      PROVE  SignedBy(memory[m].content) = {}
  <2> DEFINE D == SignedBy(memory[m].content)
  <2>1. IsFiniteSet(D) /\ Len(lists[m]) = Cardinality(D)
    BY <1>2, <1>3
  <2> HIDE DEF D
  <2>2. Cardinality(D) \in Nat /\ (Cardinality(D) = 0 <=> D = {})
    BY <2>1, FS_CardinalityType, FS_EmptySet
  <2>3. Cardinality(D) = 0
    <3>1. ~(1 \in 1..Len(lists[m]))
      BY <1>5, <1>7
    <3> QED  BY <2>1, <2>2, <3>1
  <2> QED  BY <2>2, <2>3 DEF D
<1>9. MessagesSeq(memory)
  BY DEF HeldWell
<1>10. ASSUME NEW e \in ItemsOf(Contents(memory)) PROVE e.secret = Nothing
  <2>1. PICK i \in 1..Len(Contents(memory)) : e = Contents(memory)[i]
    BY DEF ItemsOf
  <2>2. PICK m \in 1..Len(memory) : \E b \in 1..Len(memory[m].content) : Contents(memory)[i] = memory[m].content[b]
    BY <1>9, ContentsHas
  <2>3. PICK b \in 1..Len(memory[m].content) : e = memory[m].content[b]
    BY <2>1, <2>2
  <2>4. b \in DOMAIN memory[m].content
    BY <1>2
  <2> QED  BY <1>8, <2>3, <2>4 DEF SignedBy
<1> QED
  BY <1>10

\* An item without an opaque value is bare.
LEMMA BareAlready ==
  ASSUME NEW item, RightItem(item), item.secret = Nothing
  PROVE  Bare(item) = item
<1>1. Bare(item) = Item(item.kind, item.id, item.parts, Nothing)
  BY SecretIs DEF Bare
<1> QED
  BY <1>1 DEF RightItem

\* A history that is sent with its signatures, of which there are none: as much
\* of it is told as can be.
LEMMA SignedWhole ==
  ASSUME NEW memory, NEW n \in Nat, Sound(memory, n), DecodeAnthropic(memory).fidelity.required = {}
  PROVE  /\ \A e \in ItemsOf(Contents(memory)) : e.secret = Nothing
         /\ MessagesSeq(DecodeAnthropic(memory).messages)
         /\ Contents(ToChatMessages(DecodeAnthropic(memory).messages)) = ToBeTold(memory, FALSE)
<1> DEFINE Signs(m) == InOrder([b \in SignedBy(memory[m].content) |->
                               Artifact("signature", [of |-> m, n |-> b], memory[m].content[b].secret)])
           all == FlattenSeq([m \in DOMAIN memory |-> Signs(m)])
           decoded == DecodeAnthropic(memory)
           messages == decoded.messages
           known == Contents(memory)
<1>1. decoded = [messages |-> BareMessages(memory),
                 fidelity |-> [artifacts |-> all, required |-> IF all = <<>> THEN {} ELSE {"signature"}]]
  BY Zenon DEF DecodeAnthropic, BareMessages, BareAll, SignedBy
<1> HIDE DEF decoded
<1>2. all = <<>> /\ messages = BareMessages(memory)
  <2> HIDE DEF all
  <2>1. decoded.fidelity.required = {}
    BY DEF decoded
  <2> QED  BY <1>1, <2>1
<1>3. HeldWell(memory) /\ MessagesSeq(memory)
  BY DEF Sound, HeldWell
<1>4. \A e \in ItemsOf(known) : e.secret = Nothing
  BY <1>2, <1>3, UnsignedHistory
<1> HIDE DEF all, Signs, messages
<1>5. MessagesSeq(messages)
  BY <1>2, <1>3, BareContents
<1>6. \A e \in ItemsOf(known) : RightItem(e)
  BY DEF Sound, KnownBy
<1>7. ASSUME NEW m \in 1..Len(memory) PROVE messages[m].content = memory[m].content
  <2> DEFINE content == memory[m].content
             bare == BareAll(content)
  <2>1. IsSeq(content) /\ messages[m].content = bare
    BY <1>2, <1>3, BareMessagesListed DEF MessagesSeq
  <2>2. ASSUME NEW b \in 1..Len(content) PROVE RightItem(content[b]) /\ content[b].secret = Nothing
    <3>1. PICK i \in 1..Len(Contents(memory)) : Contents(memory)[i] = memory[m].content[b]
      BY <1>3, ContentsHas
    <3>2. memory[m].content[b] \in ItemsOf(known)
      BY <3>1 DEF ItemsOf, known
    <3> QED  BY <1>4, <1>6, <3>2
  <2> HIDE DEF content
  <2>3. IsSeq(bare) /\ Len(bare) = Len(content) /\ \A b \in 1..Len(content) : bare[b] = Bare(content[b])
    BY <2>1, BareListed
  <2> HIDE DEF bare
  <2>4. \A b \in 1..Len(content) : bare[b] = content[b]
    BY <2>2, <2>3, BareAlready
  <2>5. bare = content
    BY <2>1, <2>3, <2>4, SameSeq
  <2> QED  BY <2>1, <2>5 DEF content
<1>8. Contents(ToChatMessages(messages)) = Contents(Tellable(messages))
  BY <1>5, ChatSent
<1>9. Tellable(messages) = Tellable(memory)
  <2> DEFINE f == Tellable(messages)
             g == Tellable(memory)
  <2>1. Len(messages) = Len(memory)
    BY <1>2, <1>3, BareMessagesListed
  <2>2. /\ MessagesSeq(f) /\ Len(f) = Len(messages)
        /\ \A m \in 1..Len(messages) : f[m] = [content |-> TellableOf(messages[m].content)]
    BY <1>5, TellableListed
  <2>3. /\ MessagesSeq(g) /\ Len(g) = Len(memory)
        /\ \A m \in 1..Len(memory) : g[m] = [content |-> TellableOf(memory[m].content)]
    BY <1>3, TellableListed
  <2> HIDE DEF f, g
  <2>4. \A m \in 1..Len(f) : f[m] = g[m]
    BY <1>7, <2>1, <2>2, <2>3
  <2>5. IsSeq(f) /\ IsSeq(g)
    BY <2>2, <2>3 DEF MessagesSeq
  <2>6. f = g
    BY <2>1, <2>2, <2>3, <2>4, <2>5, SameSeq
  <2> QED  BY <2>6 DEF f, g
<1>10. ToBeTold(memory, FALSE) = Contents(Tellable(memory))
  BY DEF ToBeTold
<1> QED
  BY <1>4, <1>5, <1>8, <1>9, <1>10 DEF messages, known, decoded

HasContent(messages) == \A m \in 1..Len(messages) : "content" \in DOMAIN messages[m]
Plain(items) == \A e \in items : RightItem(e) /\ e.kind # "reasoning"

\* What is known of earlier exchanges stays known.
LEMMA SoundLater ==
  ASSUME NEW n \in Nat, NEW memory, Sound(memory, n)
  PROVE  Sound(memory, n + 1)
<1>1. \A i : i \in 0..n => i \in 0..(n + 1)
  OBVIOUS
<1> QED
  BY <1>1 DEF Sound, KnownBy

\* What is carried stays so.
LEMMA CarriedLater ==
  ASSUME NEW n \in Nat, NEW messages, NEW artifacts, NEW memory, Carried(messages, artifacts, memory, n)
  PROVE  Carried(messages, artifacts, memory, n + 1)
<1>1. \A i : i \in 0..n => i \in 0..(n + 1)
  OBVIOUS
<1> QED
  BY <1>1 DEF Carried, ArtifactsBy

\* Messages that follow others.
LEMMA MessagesJoined ==
  ASSUME NEW old, NEW more, MessagesSeq(old), MessagesSeq(more)
  PROVE  /\ MessagesSeq(old \o more) /\ Contents(old \o more) = Contents(old) \o Contents(more)
         /\ IsSeq(Contents(old)) /\ IsSeq(Contents(more))
         /\ ItemsOf(Contents(old \o more)) = ItemsOf(Contents(old)) \cup ItemsOf(Contents(more))
         /\ HasContent(old) /\ HasContent(more) => HasContent(old \o more)
         /\ UnmixedAll(old) /\ UnmixedAll(more) => UnmixedAll(old \o more)
<1> DEFINE all == old \o more
<1>1. MessagesSeq(old) /\ MessagesSeq(more) /\ IsSeq(old) /\ IsSeq(more)
  BY DEF MessagesSeq
<1>2. MessagesSeq(all) /\ Contents(all) = Contents(old) \o Contents(more)
  BY <1>1, ContentsJoined
<1>3. IsSeq(Contents(old)) /\ IsSeq(Contents(more))
  BY <1>1, ContentsSeq
<1>4. ItemsOf(Contents(all)) = ItemsOf(Contents(old)) \cup ItemsOf(Contents(more))
  <2> DEFINE first == Contents(old)
             second == Contents(more)
  <2>1. IsSeq(first) /\ IsSeq(second) /\ Contents(all) = first \o second
    BY <1>2, <1>3
  <2> HIDE DEF first, second, all
  <2>2. ItemsOf(first \o second) = ItemsOf(first) \cup ItemsOf(second)
    BY <2>1, ItemsJoined
  <2> QED  BY <2>1, <2>2 DEF first, second
<1>5. /\ Len(all) = Len(old) + Len(more) /\ Len(old) \in Nat /\ Len(more) \in Nat
      /\ \A i \in 1..Len(old) : all[i] = old[i]
      /\ \A i \in 1..Len(more) : all[Len(old) + i] = more[i]
  BY <1>1, Joined, Sequenced
<1> HIDE DEF all
<1>6. ASSUME NEW m \in 1..Len(all)
      PROVE  (\E i \in 1..Len(old) : all[m] = old[i]) \/ (\E i \in 1..Len(more) : all[m] = more[i])
  <2>1. CASE m <= Len(old)
    <3>1. m \in 1..Len(old)
      BY <1>5, <2>1
    <3> QED  BY <1>5, <3>1
  <2>2. CASE m > Len(old)
    <3>1. m - Len(old) \in 1..Len(more) /\ Len(old) + (m - Len(old)) = m
      BY <1>5, <2>2
    <3> QED  BY <1>5, <3>1
  <2> QED  BY <1>5, <2>1, <2>2
<1>7. UnmixedAll(old) /\ UnmixedAll(more) => UnmixedAll(all)
  BY <1>2, <1>6 DEF UnmixedAll
<1>8. HasContent(old) /\ HasContent(more) => HasContent(all)
  BY <1>6 DEF HasContent
<1> QED
  BY <1>2, <1>3, <1>4, <1>7, <1>8 DEF all

\* The same, of messages that do not mix.
LEMMA UnmixedJoined ==
  ASSUME NEW old, NEW more, UnmixedAll(old), UnmixedAll(more)
  PROVE  /\ UnmixedAll(old \o more) /\ Contents(old \o more) = Contents(old) \o Contents(more)
         /\ IsSeq(Contents(old))
         /\ ItemsOf(Contents(old \o more)) = ItemsOf(Contents(old)) \cup ItemsOf(Contents(more))
<1>1. MessagesSeq(old) /\ MessagesSeq(more)
  BY DEF UnmixedAll
<1> QED
  BY <1>1, MessagesJoined

\* A conversation that goes on with what a provider adds to it.
LEMMA SoundAdded ==
  ASSUME NEW n \in Nat \ {0}, NEW memory, Sound(memory, n - 1), NEW more, MessagesSeq(more), HasContent(more),
         AddedBy(ItemsOf(Contents(more)), n)
  PROVE  Sound(memory \o more, n)
<1> DEFINE known == ItemsOf(Contents(memory))
           added == ItemsOf(Contents(more))
<1>1. /\ MessagesSeq(memory \o more) /\ ItemsOf(Contents(memory \o more)) = known \cup added
      /\ HasContent(memory \o more)
  BY MessagesJoined DEF Sound, HasContent
<1>2. OneValue(known) /\ KnownBy(known, n - 1) /\ AddedBy(added, n)
  BY DEF Sound
<1> HIDE DEF known, added
<1>3. OneValue(known \cup added) /\ KnownBy(known \cup added, n)
  BY <1>2, AddedKnown
<1> QED
  BY <1>1, <1>3 DEF Sound, HasContent

\* A conversation that goes on with what its client adds to it.
LEMMA SoundSaid ==
  ASSUME NEW n \in Nat, NEW memory, Sound(memory, n), NEW more, MessagesSeq(more), HasContent(more),
         Plain(ItemsOf(Contents(more)))
  PROVE  Sound(memory \o more, n)
<1> DEFINE known == ItemsOf(Contents(memory))
           added == ItemsOf(Contents(more))
<1>1. /\ MessagesSeq(memory \o more) /\ ItemsOf(Contents(memory \o more)) = known \cup added
      /\ HasContent(memory \o more)
  BY MessagesJoined DEF Sound, HasContent
<1>2. OneValue(known) /\ KnownBy(known, n) /\ Plain(added)
  BY DEF Sound
<1> HIDE DEF known, added
<1>3. OneValue(known \cup added) /\ KnownBy(known \cup added, n)
  BY <1>2 DEF OneValue, KnownBy, Plain, Tagged
<1> QED
  BY <1>1, <1>3 DEF Sound, HasContent

\* An empty conversation, and one that another provider's reasoning begins.
LEMMA NothingSound ==
  ASSUME NEW n \in Nat
  PROVE  Sound(<<>>, n) /\ UnmixedAll(<<>>)
<1>1. MessagesSeq(<<>>) /\ Contents(<<>>) = <<>> /\ ItemsOf(<<>>) = {}
  BY ContentsNone, ItemsFew
<1>2. 1..Len(<<>>) = {}
  OBVIOUS
<1> QED
  BY <1>1, <1>2 DEF Sound, UnmixedAll, KnownBy, OneValue

\* One message holds its content.
LEMMA OneMessage ==
  ASSUME NEW role, NEW content, IsSeq(content)
  PROVE  /\ MessagesSeq(<<Message(role, content)>>) /\ HasContent(<<Message(role, content)>>)
         /\ Contents(<<Message(role, content)>>) = content
         /\ Unmixed(content) => UnmixedAll(<<Message(role, content)>>)
<1> DEFINE message == Message(role, content)
           single == <<message>>
<1>1. MessagesSeq(single) /\ Contents(single) = content
  BY ContentsOne
<1>2. message.content = content /\ "content" \in DOMAIN message
  BY DEF Message
<1> HIDE DEF message
<1>3. Len(single) = 1 /\ single[1] = message
  OBVIOUS
<1> HIDE DEF single
<1>4. \A m \in 1..Len(single) : single[m] = message
  BY <1>3
<1> QED
  BY <1>1, <1>2, <1>4 DEF UnmixedAll, HasContent, single, message

\* One item is not mixed.
LEMMA OneItem ==
  ASSUME NEW item
  PROVE  IsSeq(<<item>>) /\ Unmixed(<<item>>)
<1> DEFINE content == <<item>>
<1>1. IsSeq(content)
  BY LeadsOne
<1>2. Len(content) = 1
  OBVIOUS
<1> HIDE DEF content
<1>3. \A b \in 1..Len(content) : b = 1
  BY <1>2
<1>4. Unmixed(content)
  BY <1>3 DEF Unmixed
<1> QED
  BY <1>1, <1>4 DEF content

\* What another provider gave is sound: no exchange of this gateway gave it.
LEMMA ForeignSound ==
  ASSUME NEW n \in Nat
  PROVE  Sound(Foreign, n) /\ UnmixedAll(Foreign)
<1> DEFINE input == Item("input", Unnamed, <<1>>, Nothing)
           value == [of |-> 0, n |-> 1, draft |-> FALSE]
           reasoning == Item("reasoning", [of |-> 0, n |-> 1], <<2>>, value)
           inputs == <<input>>
           reasonings == <<reasoning>>
           asked == <<Message("user", inputs)>>
           answered == <<Message("assistant", reasonings)>>
<1>1. /\ input.kind = "input" /\ input.id = Unnamed /\ input.secret = Nothing /\ input.parts = <<1>>
      /\ reasoning.kind = "reasoning" /\ reasoning.id = [of |-> 0, n |-> 1] /\ reasoning.secret = value
      /\ reasoning.parts = <<2>>
  BY ItemIs
<1>2. [of |-> 0, n |-> 1] # ReasoningItem /\ [of |-> 0, n |-> 1] # Local(1000) /\ [of |-> 0, n |-> 1].of = 0 /\ 0 \in 0..n
  BY DEF ReasoningItem, Local
<1>3. RightItem(input) /\ RightItem(reasoning) /\ reasoning.id.of \in 0..n
      /\ reasoning.id # Local(1000) /\ reasoning.id # ReasoningItem
  BY <1>1, <1>2 DEF RightItem
<1>4. IsSeq(inputs) /\ Unmixed(inputs) /\ IsSeq(reasonings) /\ Unmixed(reasonings)
  BY OneItem
<1>5. ItemsOf(inputs) = {input} /\ ItemsOf(reasonings) = {reasoning}
  BY ItemsFew
<1>6. Foreign = <<Message("user", inputs), Message("assistant", reasonings)>>
  BY DEF Foreign
<1> HIDE DEF input, reasoning, inputs, reasonings
<1>7. /\ UnmixedAll(asked) /\ HasContent(asked) /\ Contents(asked) = inputs
      /\ UnmixedAll(answered) /\ HasContent(answered) /\ Contents(answered) = reasonings
  BY <1>4, OneMessage
<1>8. Foreign = asked \o answered
  <2> DEFINE first == Message("user", inputs)
             second == Message("assistant", reasonings)
  <2>1. Foreign = <<first, second>> /\ asked = <<first>> /\ answered = <<second>>
    BY <1>6
  <2> HIDE DEF first, second, asked, answered
  <2> QED  BY <2>1, PairIs
<1> HIDE DEF asked, answered
<1>9. UnmixedAll(Foreign) /\ HasContent(Foreign) /\ ItemsOf(Contents(Foreign)) = {input} \cup {reasoning}
  <2>1. /\ UnmixedAll(asked \o answered) /\ (HasContent(asked) /\ HasContent(answered) => HasContent(asked \o answered))
        /\ ItemsOf(Contents(asked \o answered)) = ItemsOf(Contents(asked)) \cup ItemsOf(Contents(answered))
    BY <1>7, UnmixedJoined, MessagesJoined DEF UnmixedAll
  <2> QED  BY <1>5, <1>7, <1>8, <2>1
<1> DEFINE items == {input} \cup {reasoning}
<1>10. KnownBy(items, n) /\ OneValue(items)
  BY <1>1, <1>3 DEF KnownBy, OneValue, Tagged
<1> QED
  BY <1>9, <1>10 DEF Sound, HasContent, UnmixedAll

\* What a client adds: its results, something new, or both.
LEMMA SaysPlain ==
  ASSUME NEW calls, IsSeq(calls), NEW mixed \in BOOLEAN
  PROVE  IsSeq(Says(calls, mixed)) /\ Plain(ItemsOf(Says(calls, mixed)))
<1> DEFINE input == Item("input", Unnamed, <<10 * (Now + 1)>>, Nothing)
           results == [i \in DOMAIN calls |-> Item("result", calls[i].id, <<>>, Nothing)]
           more == When(calls = <<>> \/ mixed, <<input>>)
<1>1. Says(calls, mixed) = results \o more
  BY DEF Says
<1>2. Len(calls) \in Nat /\ DOMAIN calls = 1..Len(calls)
  BY Sequenced
<1>3. IsSeq(results) /\ Plain(ItemsOf(results))
  <2>1. results = [i \in 1..Len(calls) |-> results[i]]
    BY <1>2
  <2>2. ASSUME NEW i \in 1..Len(calls) PROVE RightItem(results[i]) /\ results[i].kind = "result"
    <3> DEFINE item == Item("result", calls[i].id, <<>>, Nothing)
    <3>1. results[i] = item
      BY <1>2
    <3>2. item = Item(item.kind, item.id, item.parts, item.secret) /\ item.kind = "result" /\ item.secret = Nothing
      BY ItemIs
    <3> HIDE DEF item
    <3> QED  BY <3>1, <3>2 DEF RightItem
  <2> HIDE DEF results
  <2>3. IsSeq(results) /\ Len(results) = Len(calls)
    BY <1>2, <2>1, ListedSeq
  <2> QED  BY <2>2, <2>3 DEF Plain, ItemsOf
<1>4. IsSeq(more) /\ Plain(ItemsOf(more))
  <2> DEFINE single == <<input>>
  <2>1. input = Item(input.kind, input.id, input.parts, input.secret) /\ input.kind = "input" /\ input.secret = Nothing
    BY ItemIs
  <2> HIDE DEF input
  <2>2. RightItem(input) /\ input.kind # "reasoning"
    BY <2>1 DEF RightItem
  <2>3. IsSeq(single) /\ ItemsOf(single) = {input} /\ IsSeq(<<>>) /\ ItemsOf(<<>>) = {}
    BY OneItem, ItemsFew, LeadsNowhere
  <2>4. Plain({input}) /\ Plain({})
    BY <2>2 DEF Plain
  <2>5. more = single \/ more = <<>>
    BY DEF When
  <2> HIDE DEF single, more
  <2> QED  BY <2>3, <2>4, <2>5
<1> HIDE DEF results, more
<1>5. IsSeq(results \o more) /\ ItemsOf(results \o more) = ItemsOf(results) \cup ItemsOf(more)
  BY <1>3, <1>4, Joined, ItemsJoined
<1>6. Plain(ItemsOf(results) \cup ItemsOf(more))
  BY <1>3, <1>4 DEF Plain
<1> QED
  BY <1>1, <1>5, <1>6

\* What a client adds carries no opaque value.
LEMMA PlainSealed ==
  ASSUME NEW s, IsSeq(s), Plain(ItemsOf(s))
  PROVE  SealedList(s) = <<>> /\ Opaque(s) = {}
<1>1. IsSeq(Sealed(s)) /\ \A e : e \in ItemsOf(Sealed(s)) <=> e \in ItemsOf(s) /\ e.kind = "reasoning" /\ e.secret # Nothing
  BY SealedItems
<1> DEFINE sealed == Sealed(s)
<1>2. IsSeq(sealed) /\ ItemsOf(sealed) = {}
  BY <1>1 DEF Plain
<1>3. SealedList(s) = [i \in DOMAIN sealed |-> Artifact("encrypted", PlaceOf(sealed[i].id), sealed[i].secret)]
  BY DEF SealedList
<1> HIDE DEF sealed
<1>4. Len(sealed) \in Nat /\ DOMAIN sealed = 1..Len(sealed)
  BY <1>2, Sequenced
<1>5. DOMAIN sealed = {}
  <2>1. \A i \in 1..Len(sealed) : FALSE
    BY <1>2 DEF ItemsOf
  <2> QED  BY <1>4, <2>1
<1>6. SealedList(s) = <<>>
  BY <1>3, <1>5
<1>7. DOMAIN s = 1..Len(s)
  BY Sequenced
<1>8. ASSUME NEW i \in DOMAIN s PROVE s[i].secret = Nothing
  <2>1. s[i] \in ItemsOf(s)
    BY <1>7 DEF ItemsOf
  <2> QED  BY <2>1 DEF Plain, RightItem
<1> QED
  BY <1>6, <1>8 DEF Opaque

\* What is said of two parts of a conversation is said of the whole.
SaysSame(held, known) ==
  /\ IsSeq(held) /\ IsSeq(known) /\ Spoken(held) = BareAll(Spoken(known))

\* What two pairs say joined is the same, if each says the same.
LEMMA SaysJoined ==
  ASSUME NEW a, NEW b, NEW c, NEW d, SaysSame(a, b), SaysSame(c, d)
  PROVE  Spoken(a \o c) = BareAll(Spoken(b \o d))
<1>1. IsSeq(a) /\ IsSeq(b) /\ IsSeq(c) /\ IsSeq(d)
  BY DEF SaysSame
<1>2. Spoken(a \o c) = Spoken(a) \o Spoken(c) /\ Spoken(b \o d) = Spoken(b) \o Spoken(d)
  BY <1>1, SpokenJoined
<1> DEFINE u == Spoken(b)
           w == Spoken(d)
<1>3. IsSeq(u) /\ IsSeq(w)
  BY <1>1, SpokenItems
<1>4. Spoken(a) = BareAll(u) /\ Spoken(c) = BareAll(w)
  BY DEF SaysSame
<1> HIDE DEF u, w
<1>5. BareAll(u \o w) = BareAll(u) \o BareAll(w)
  BY <1>3, BareJoined
<1> QED
  BY <1>2, <1>4, <1>5 DEF u, w

\* A stored conversation and what the client adds to it.
LEMMA CarriedSaid ==
  ASSUME NEW n \in Nat, NEW old, Sound(old, n), NEW messages, NEW artifacts, Carried(messages, artifacts, old, n),
         NEW new, IsSeq(new), Plain(ItemsOf(new)), NEW more, MessagesSeq(more), Contents(more) = new
  PROVE  Carried(messages \o DecodeResponses(new).messages, artifacts \o DecodeResponses(new).fidelity.artifacts,
                 old \o more, n)
<1> DEFINE decoded == DecodeResponses(new).messages
           added == DecodeResponses(new).fidelity.artifacts
           known == Contents(old)
           held == Contents(messages)
           bare == BareAll(new)
<1>1. \A e \in ItemsOf(new) : RightItem(e)
  BY DEF Plain
<1>2. UnmixedAll(decoded) /\ Contents(decoded) = bare /\ added = SealedList(new)
  BY <1>1, DecodedItems
<1>3. added = <<>>
  BY <1>2, PlainSealed
<1>4. \A e \in ItemsOf(bare) : RightItem(e)
  BY <1>1, BareItems
<1>5. IsSeq(bare)
  BY BareListed
<1>6. Spoken(bare) = BareAll(Spoken(new))
  BY <1>1, SpokenBare
<1> HIDE DEF decoded, added, bare
<1>7. /\ UnmixedAll(messages \o decoded) /\ Contents(messages \o decoded) = held \o bare
      /\ ItemsOf(Contents(messages \o decoded)) = ItemsOf(held) \cup ItemsOf(bare) /\ IsSeq(held)
  <2>1. UnmixedAll(messages)
    BY DEF Carried
  <2>2. /\ UnmixedAll(messages \o decoded) /\ Contents(messages \o decoded) = Contents(messages) \o Contents(decoded)
        /\ ItemsOf(Contents(messages \o decoded)) = ItemsOf(Contents(messages)) \cup ItemsOf(Contents(decoded))
        /\ IsSeq(Contents(messages))
    BY <1>2, <2>1, UnmixedJoined
  <2> QED  BY <1>2, <2>2
<1>8. /\ Contents(old \o more) = known \o new /\ IsSeq(known)
      /\ ItemsOf(Contents(old \o more)) = ItemsOf(known) \cup ItemsOf(new)
  <2>1. MessagesSeq(old)
    BY DEF Sound
  <2>2. /\ Contents(old \o more) = Contents(old) \o Contents(more)
        /\ ItemsOf(Contents(old \o more)) = ItemsOf(Contents(old)) \cup ItemsOf(Contents(more))
        /\ IsSeq(Contents(old))
    BY <2>1, MessagesJoined
  <2> QED  BY <2>2
<1>9. Spoken(held) = BareAll(Spoken(known)) /\ Values(artifacts, ItemsOf(known)) /\ ArtifactsBy(artifacts, n)
      /\ \A e \in ItemsOf(held) : RightItem(e)
  BY DEF Carried
<1> HIDE DEF held, known
<1>10. Spoken(held \o bare) = BareAll(Spoken(known \o new))
  <2>1. SaysSame(held, known) /\ SaysSame(bare, new)
    BY <1>5, <1>6, <1>7, <1>8, <1>9 DEF SaysSame
  <2> QED  BY <2>1, SaysJoined
<1>11. artifacts \o added = artifacts
  BY <1>3, <1>9, JoinedLast DEF ArtifactsBy
<1>12. Values(artifacts, ItemsOf(known) \cup ItemsOf(new))
  BY <1>9 DEF Values, Plain, Tagged
<1>13. \A e \in ItemsOf(Contents(messages \o decoded)) : RightItem(e)
  BY <1>4, <1>7, <1>9
<1>14. Carried(messages \o decoded, artifacts, old \o more, n)
  BY <1>7, <1>8, <1>9, <1>10, <1>12, <1>13 DEF Carried
<1> QED
  BY <1>11, <1>14 DEF decoded, added

\* An answer as the client and the store hold it: items by their indices.
Answered(output, n) ==
  /\ DOMAIN output \in SUBSET Nat /\ IsFiniteSet(DOMAIN output)
  /\ AddedBy({output[index] : index \in DOMAIN output}, n)

\* The items of an answer, in their order, are a sequence of what was added.
LEMMA AnsweredItems ==
  ASSUME NEW n, NEW output, Answered(output, n)
  PROVE  IsSeq(InOrder(output)) /\ AddedBy(ItemsOf(InOrder(output)), n)
<1> DEFINE D == DOMAIN output
           items == InOrder(output)
<1>1. D \in SUBSET Nat /\ IsFiniteSet(D)
  BY DEF Answered
<1>2. IsSeq(items) /\ Len(items) = Cardinality(D) /\ \A k \in 1..Cardinality(D) : items[k] = output[IndexAt(D, k)]
  BY <1>1, OrderOf
<1>3. \A k \in 1..Cardinality(D) : IndexAt(D, k) \in D
  <2> HIDE DEF D
  <2> QED  BY <1>1, Ranked
<1> HIDE DEF items
<1>4. ItemsOf(items) \subseteq {output[index] : index \in DOMAIN output}
  BY <1>2, <1>3 DEF ItemsOf
<1>5. AddedBy(ItemsOf(items), n)
  <2> DEFINE all == {output[index] : index \in DOMAIN output}
             some == ItemsOf(items)
  <2>1. AddedBy(all, n) /\ some \subseteq all
    BY <1>4 DEF Answered
  <2> HIDE DEF all, some
  <2>2. AddedBy(some, n)
    BY <2>1 DEF AddedBy, OneValue
  <2> QED  BY <2>2 DEF some
<1> QED
  BY <1>2, <1>5 DEF items

\* What is stored of an answer.
LEMMA OutputMessages ==
  ASSUME NEW n, NEW output, Answered(output, n)
  PROVE  LET items == InOrder(output)
             messages == MessagesFromOutput(output)
         IN /\ UnmixedAll(messages) /\ Contents(messages) = BareAll(Spoken(items))
            /\ SaysSame(Contents(messages), items)
            /\ \A e \in ItemsOf(Contents(messages)) : RightItem(e)
<1> DEFINE items == InOrder(output)
           messages == MessagesFromOutput(output)
           said == Spoken(items)
           bare == BareAll(said)
<1>1. IsSeq(items) /\ \A e \in ItemsOf(items) : RightItem(e)
  BY AnsweredItems DEF AddedBy
<1>2. messages = [i \in DOMAIN said |-> Message("assistant", <<Bare(said[i])>>)]
  BY DEF MessagesFromOutput, Spoken
<1> HIDE DEF items, messages
<1>3. IsSeq(said) /\ \A e : e \in ItemsOf(said) <=> e \in ItemsOf(items) /\ Loud(e)
  BY <1>1, SpokenItems
<1>4. Spoken(said) = said
  BY <1>1, SpokenTwice
<1> HIDE DEF said
<1>5. IsSeq(bare) /\ DOMAIN bare = DOMAIN said /\ \A i \in DOMAIN said : bare[i] = Bare(said[i])
  BY <1>3, BareListed, Sequenced
<1>6. \A e \in ItemsOf(said) : RightItem(e)
  BY <1>1, <1>3
<1>7. Spoken(bare) = BareAll(Spoken(said)) /\ \A e \in ItemsOf(bare) : RightItem(e)
  BY <1>3, <1>6, SpokenBare, BareItems
<1> HIDE DEF bare
<1>8. UnmixedAll(messages) /\ Contents(messages) = bare
  <2>1. /\ DOMAIN messages = DOMAIN bare /\ messages = [i \in DOMAIN bare |-> messages[i]]
        /\ \A i \in DOMAIN bare : messages[i] = Message("assistant", <<bare[i]>>)
    BY <1>2, <1>5
  <2>2. \A i \in DOMAIN bare : \E role : messages[i] = Message(role, <<bare[i]>>)
    BY <2>1
  <2> QED  BY <1>5, <2>1, <2>2, EachMessage
<1>9. SaysSame(bare, items)
  BY <1>1, <1>4, <1>5, <1>7 DEF SaysSame, bare, said
<1> QED
  BY <1>7, <1>8, <1>9 DEF items, messages, said, bare

\* A stored record has the artifacts of its request, and those of its answer (FidelityForStorage).
LEMMA OutputArtifacts ==
  ASSUME NEW n \in Nat \ {0}, NEW output, Answered(output, n), NEW fidelity, IsSeq(fidelity.artifacts)
  PROVE  FidelityForStorage(fidelity, output).artifacts = fidelity.artifacts \o SealedList(InOrder(output))
<1> DEFINE items == InOrder(output)
           secret == Sealed(items)
           list == SealedList(items)
<1>1. IsSeq(items) /\ AddedBy(ItemsOf(items), n)
  BY AnsweredItems
<1>2. list = [i \in DOMAIN secret |-> Artifact("encrypted", secret[i].id, secret[i].secret)]
  <2>1. list = [i \in DOMAIN secret |-> Artifact("encrypted", PlaceOf(secret[i].id), secret[i].secret)]
    BY DEF SealedList
  <2>2. IsSeq(secret) /\ \A e \in ItemsOf(secret) : e \in ItemsOf(items) /\ e.kind = "reasoning"
    BY <1>1, SealedItems
  <2> HIDE DEF secret, items, list
  <2>3. ASSUME NEW i \in DOMAIN secret PROVE PlaceOf(secret[i].id) = secret[i].id
    <3>1. secret[i] \in ItemsOf(secret)
      BY <2>2, Sequenced DEF ItemsOf
    <3>2. secret[i].id = Local(1000) \/ secret[i].id.of = n
      BY <1>1, <2>2, <3>1 DEF AddedBy
    <3>3. Unnamed.of = 0 /\ Local(1000) # Unnamed /\ n # 0
      BY DEF Unnamed, Local
    <3> QED  BY <3>2, <3>3 DEF PlaceOf
  <2> QED  BY <2>1, <2>3
<1>3. FidelityForStorage(fidelity, output)
        = IF secret = <<>> THEN fidelity ELSE MergeFidelity(fidelity, [artifacts |-> list, required |-> {}])
  <2> HIDE DEF list
  <2> QED  BY <1>2 DEF FidelityForStorage
<1> HIDE DEF secret
<1>4. CASE secret = <<>>
  <2>1. list = <<>>
    BY <1>2, <1>4
  <2> HIDE DEF list, items
  <2>2. fidelity.artifacts \o list = fidelity.artifacts
    BY <2>1, JoinedLast
  <2> QED  BY <1>3, <1>4, <2>2 DEF list, items
<1>5. CASE secret # <<>>
  <2> HIDE DEF list, items
  <2>1. FidelityForStorage(fidelity, output).artifacts = fidelity.artifacts \o list
    BY <1>3, <1>5 DEF MergeFidelity
  <2> QED  BY <2>1 DEF list, items
<1> QED
  BY <1>4, <1>5

\* The stored conversation and its opaque values.
LEMMA StoredCarried ==
  ASSUME NEW n \in Nat \ {0}, NEW old, Sound(old, n - 1),
         NEW messages, NEW fidelity, Carried(messages, fidelity.artifacts, old, n - 1),
         NEW output, Answered(output, n), NEW more, MessagesSeq(more), Contents(more) = InOrder(output)
  PROVE  Carried(messages \o MessagesFromOutput(output), FidelityForStorage(fidelity, output).artifacts, old \o more, n)
<1> DEFINE items == InOrder(output)
           added == MessagesFromOutput(output)
           artifacts == fidelity.artifacts
           known == Contents(old)
           held == Contents(messages)
           told == Contents(added)
<1>1. IsSeq(items) /\ AddedBy(ItemsOf(items), n)
  BY AnsweredItems
<1>2. UnmixedAll(added) /\ SaysSame(told, items) /\ \A e \in ItemsOf(told) : RightItem(e)
  BY OutputMessages
<1>3. /\ UnmixedAll(messages \o added) /\ Contents(messages \o added) = held \o told
      /\ ItemsOf(Contents(messages \o added)) = ItemsOf(held) \cup ItemsOf(told) /\ IsSeq(held)
  <2> HIDE DEF added
  <2>1. UnmixedAll(messages)
    BY DEF Carried
  <2> QED  BY <1>2, <2>1, UnmixedJoined
<1>4. /\ Contents(old \o more) = known \o items /\ IsSeq(known)
      /\ ItemsOf(Contents(old \o more)) = ItemsOf(known) \cup ItemsOf(items)
  <2>1. MessagesSeq(old)
    BY DEF Sound
  <2>2. /\ Contents(old \o more) = Contents(old) \o Contents(more)
        /\ ItemsOf(Contents(old \o more)) = ItemsOf(Contents(old)) \cup ItemsOf(Contents(more))
        /\ IsSeq(Contents(old))
    BY <2>1, MessagesJoined
  <2> QED  BY <2>2
<1>5. Spoken(held) = BareAll(Spoken(known)) /\ Values(artifacts, ItemsOf(known)) /\ ArtifactsBy(artifacts, n - 1)
      /\ \A e \in ItemsOf(held) : RightItem(e)
  BY DEF Carried
<1>6. KnownBy(ItemsOf(known), n - 1)
  BY DEF Sound
<1>7. FidelityForStorage(fidelity, output).artifacts = artifacts \o SealedList(items)
  <2>1. IsSeq(fidelity.artifacts)
    BY <1>5 DEF ArtifactsBy
  <2> QED  BY <2>1, OutputArtifacts
<1> HIDE DEF items, added, artifacts, known, held, told
<1>8. /\ ArtifactsBy(artifacts \o SealedList(items), n)
      /\ Values(artifacts \o SealedList(items), ItemsOf(known) \cup ItemsOf(items))
  BY <1>1, <1>5, <1>6, AddedValues
<1>9. Spoken(held \o told) = BareAll(Spoken(known \o items))
  <2>1. SaysSame(held, known)
    BY <1>3, <1>4, <1>5 DEF SaysSame
  <2> QED  BY <1>2, <2>1, SaysJoined
<1>10. \A e \in ItemsOf(Contents(messages \o added)) : RightItem(e)
  BY <1>2, <1>3, <1>5
<1>11. Carried(messages \o added, artifacts \o SealedList(items), old \o more, n)
  BY <1>3, <1>4, <1>8, <1>9, <1>10 DEF Carried
<1> QED
  BY <1>7, <1>11 DEF added, items

\* What the client remembers of an exchange, and the store.
PastOf(entry, store, n) ==
  /\ Sound(entry.memory, n) /\ IsSeq(entry.calls) /\ entry.id \in 1..n
  /\ entry.protocol = "responses" =>
       /\ UnmixedAll(entry.memory)
       /\ store[entry.id].some => Carried(store[entry.id].messages, store[entry.id].fidelity.artifacts, entry.memory, n)

KeptInv ==
  /\ {"phase", "protocol", "native", "stream", "keep", "memory", "wire", "messages", "fidelity", "sent",
      "id", "number", "commitment"} \subseteq DOMAIN exchange
  /\ exchange.number \in 0..MaxTurns
  /\ IsSeq(past)
  /\ \A i \in 1..Len(past) : /\ PastOf(past[i], stored, exchange.number)
                             /\ exchange.phase # "over" => past[i].id # exchange.number
  /\ exchange.phase # "over" =>
       /\ exchange.number # 0 /\ Sound(exchange.memory, exchange.number - 1)
       /\ exchange.protocol = "responses" =>
            /\ UnmixedAll(exchange.memory)
            /\ Carried(exchange.messages, exchange.fidelity.artifacts, exchange.memory, exchange.number - 1)

\* What is remembered stays so.
LEMMA PastLater ==
  ASSUME NEW n \in Nat, NEW entry, NEW store, PastOf(entry, store, n)
  PROVE  PastOf(entry, store, n + 1)
<1>1. Sound(entry.memory, n + 1) /\ entry.id \in 1..(n + 1)
  BY SoundLater DEF PastOf
<1>2. \A messages, artifacts : Carried(messages, artifacts, entry.memory, n) => Carried(messages, artifacts, entry.memory, n + 1)
  BY CarriedLater
<1> QED
  BY <1>1, <1>2 DEF PastOf

\* A response stored under another id leaves it.
LEMMA PastApart ==
  ASSUME NEW n \in 0..MaxTurns, NEW entry, NEW store, DOMAIN store = 0..MaxTurns, PastOf(entry, store, n),
         NEW id, id # entry.id, NEW record
  PROVE  PastOf(entry, [store EXCEPT ![id] = record], n)
<1>1. entry.id \in DOMAIN store
  BY ConversationAssumption DEF PastOf
<1>2. [store EXCEPT ![id] = record][entry.id] = store[entry.id]
  BY <1>1
<1> QED
  BY <1>2 DEF PastOf

-----------------------------------------------------------------------------
(* What is posted. *)

\* A request that says its conversation is posted whole.
Posts(memory, n, protocol, messages, fidelity, native, wire) ==
  /\ Sound(memory, n) /\ MessagesSeq(messages)
  /\ SaidAll(Spoken(Contents(Payload(native, [messages |-> messages, fidelity |-> fidelity]))))
       = SaidAll(Spoken(ToBeTold(memory, native)))
  /\ protocol = "responses" => UnmixedAll(memory) /\ Carried(messages, fidelity.artifacts, memory, n)
  /\ \/ Opaque(IF native THEN Restorable(wire) ELSE wire) = {}
     \/ native /\ wire = Contents(memory)

\* What is posted so is the whole conversation, with its opaque values (ConversationKept).
LEMMA PostedKept ==
  ASSUME NEW memory, NEW n \in Nat, NEW protocol, NEW messages, NEW fidelity, NEW native \in BOOLEAN, NEW wire,
         Posts(memory, n, protocol, messages, fidelity, native, wire),
         exchange'.memory = memory, exchange'.wire = wire, exchange'.native = native,
         exchange'.sent = Payload(native, [messages |-> messages, fidelity |-> fidelity])
  PROVE  ConversationKept'
<1> DEFINE known == Contents(memory)
           sent == Payload(native, [messages |-> messages, fidelity |-> fidelity])
<1>1. SaidAll(Spoken(Contents(sent))) = SaidAll(Spoken(ToBeTold(memory, native)))
  BY DEF Posts
<1>2. native => IsSeq(Contents(sent))
  <2> SUFFICES ASSUME native PROVE IsSeq(Contents(sent))
    OBVIOUS
  <2>1. sent = ResponsesInput(messages, fidelity)
    BY DEF Payload
  <2>2. MessagesSeq(messages)
    BY DEF Posts
  <2> HIDE DEF sent
  <2> QED  BY <2>1, <2>2, RailSent, ContentsSeq
<1>3. exchange'.sent = sent /\ exchange'.memory = memory /\ exchange'.native = native /\ exchange'.wire = wire
  OBVIOUS
<1> HIDE DEF sent
<1>4. SentItems' = Contents(sent)
  BY <1>3 DEF SentItems, Contents
<1>5. HistoryReplayed'
  BY <1>1, <1>3, <1>4 DEF HistoryReplayed, Heard, Spoken, ToBeTold
<1>6. Opaque(IF native THEN Restorable(wire) ELSE wire) \subseteq Opaque(Contents(sent))
  <2>1. CASE Opaque(IF native THEN Restorable(wire) ELSE wire) = {}
    BY <2>1
  <2>2. CASE native /\ wire = known
    <3> DEFINE told == Contents(sent)
               tellable == Restorable(known)
    <3>1. IsSeq(known) /\ \A e \in ItemsOf(known) : RightItem(e)
      BY ContentsSeq DEF Posts, Sound, KnownBy
    <3>2. IsSeq(told) /\ SaidAll(Spoken(told)) = SaidAll(Spoken(tellable))
      BY <1>1, <1>2, <2>2 DEF ToBeTold
    <3> HIDE DEF known, told
    <3>3. IsSeq(tellable) /\ \A e \in ItemsOf(tellable) : RightItem(e)
      BY <3>1, RestorableItems, RestorableListed
    <3> HIDE DEF tellable
    <3>4. Opaque(tellable) \subseteq Opaque(told)
      BY <3>2, <3>3, SaidOpaque
    <3> QED  BY <2>2, <3>4 DEF told, tellable
  <2> QED  BY <2>1, <2>2 DEF Posts
<1>7. RequiredNeverDropped'
  BY <1>3, <1>4, <1>6 DEF RequiredNeverDropped
<1> QED
  BY <1>5, <1>7 DEF ConversationKept

-----------------------------------------------------------------------------
(* What a client that drops the ids of its reasoning resends. *)

Unlabelled(e) == IF e.kind = "reasoning" THEN [e EXCEPT !.id = Unnamed] ELSE e
UnlabelledAll(content) == [i \in DOMAIN content |-> Unlabelled(content[i])]

\* Only the ids of reasoning go.
LEMMA UnlabelledIs ==
  ASSUME NEW e, RightItem(e)
  PROVE  /\ RightItem(Unlabelled(e)) /\ Unlabelled(e).kind = e.kind
         /\ e.kind = "reasoning" => Unlabelled(e).id = Unnamed
<1> DEFINE item == [e EXCEPT !.id = Unnamed]
<1>1. item = Item(e.kind, Unnamed, e.parts, e.secret)
  BY DEF RightItem, Item
<1>2. /\ item.kind = e.kind /\ item.id = Unnamed /\ item.parts = e.parts /\ item.secret = e.secret
  <2> HIDE DEF item
  <2> QED  BY <1>1, ItemIs
<1> HIDE DEF item
<1>3. RightItem(item)
  BY <1>1, <1>2 DEF RightItem
<1> QED
  BY <1>2, <1>3 DEF Unlabelled, item

\* A conversation resent without ids is as sound, and mixes no more.
LEMMA ResentSound ==
  ASSUME NEW n \in Nat, NEW memory, Sound(memory, n)
  PROVE  Sound(Resent(memory), n) /\ (UnmixedAll(memory) => UnmixedAll(Resent(memory)))
<1> DEFINE resent == Resent(memory)
           known == Contents(memory)
           told == Contents(resent)
<1>1. /\ MessagesSeq(memory) /\ IsSeq(memory) /\ \A m \in 1..Len(memory) : "content" \in DOMAIN memory[m]
      /\ KnownBy(ItemsOf(known), n)
  BY DEF Sound, MessagesSeq
<1>2. Len(memory) \in Nat /\ DOMAIN memory = 1..Len(memory)
  BY <1>1, Sequenced
<1>3. /\ resent = [m \in 1..Len(memory) |-> resent[m]]
      /\ \A m \in 1..Len(memory) : /\ resent[m].content = UnlabelledAll(memory[m].content)
                                   /\ "content" \in DOMAIN resent[m]
  <2>1. resent = [m \in 1..Len(memory) |-> [memory[m] EXCEPT !.content = UnlabelledAll(@)]]
    BY <1>2 DEF Resent, UnlabelledAll, Unlabelled
  <2> HIDE DEF resent
  <2> QED  BY <1>1, <2>1
<1> HIDE DEF resent
<1>4. IsSeq(resent) /\ Len(resent) = Len(memory)
  BY <1>2, <1>3, ListedSeq
<1>5. ASSUME NEW m \in 1..Len(memory)
      PROVE  /\ IsSeq(resent[m].content) /\ Len(resent[m].content) = Len(memory[m].content)
             /\ \A b \in 1..Len(memory[m].content) : resent[m].content[b] = Unlabelled(memory[m].content[b])
  <2> DEFINE content == memory[m].content
             all == UnlabelledAll(content)
  <2>1. IsSeq(content) /\ resent[m].content = all
    BY <1>1, <1>3 DEF MessagesSeq
  <2> HIDE DEF content
  <2>2. Len(content) \in Nat /\ DOMAIN content = 1..Len(content)
    BY <2>1, Sequenced
  <2>3. all = [b \in 1..Len(content) |-> all[b]] /\ \A b \in 1..Len(content) : all[b] = Unlabelled(content[b])
    BY <2>2 DEF UnlabelledAll
  <2> HIDE DEF all
  <2>4. IsSeq(all) /\ Len(all) = Len(content)
    BY <2>2, <2>3, ListedSeq
  <2> QED  BY <2>1, <2>3, <2>4 DEF content
<1>6. MessagesSeq(resent)
  BY <1>4, <1>5 DEF MessagesSeq
<1>7. ASSUME NEW m \in 1..Len(memory), NEW b \in 1..Len(memory[m].content)
      PROVE  memory[m].content[b] \in ItemsOf(known)
  <2>1. PICK i \in 1..Len(Contents(memory)) : Contents(memory)[i] = memory[m].content[b]
    BY <1>1, ContentsHas
  <2> QED  BY <2>1 DEF ItemsOf, known
<1>8. \A e \in ItemsOf(told) : \E f \in ItemsOf(known) : e = Unlabelled(f)
  <2> SUFFICES ASSUME NEW e \in ItemsOf(told) PROVE \E f \in ItemsOf(known) : e = Unlabelled(f)
    OBVIOUS
  <2>1. PICK i \in 1..Len(Contents(resent)) : e = Contents(resent)[i]
    BY DEF ItemsOf, told
  <2>2. PICK m \in 1..Len(resent) : \E b \in 1..Len(resent[m].content) : e = resent[m].content[b]
    BY <1>6, <2>1, ContentsHas
  <2>3. PICK b \in 1..Len(resent[m].content) : e = resent[m].content[b]
    BY <2>2
  <2>4. m \in 1..Len(memory)
    BY <1>4
  <2>5. b \in 1..Len(memory[m].content) /\ e = Unlabelled(memory[m].content[b])
    BY <1>5, <2>3, <2>4
  <2> QED  BY <1>7, <2>4, <2>5
<1>9. ASSUME NEW e \in ItemsOf(told)
      PROVE  RightItem(e) /\ (e.kind = "reasoning" => e.id = Unnamed)
  <2>1. PICK f \in ItemsOf(known) : e = Unlabelled(f)
    BY <1>8
  <2>2. RightItem(f)
    BY <1>1 DEF KnownBy
  <2> QED  BY <2>1, <2>2, UnlabelledIs
<1>10. Unnamed.of = 0 /\ Unnamed # ReasoningItem /\ Unnamed # Local(1000) /\ 0 \in 0..n
  BY DEF Unnamed, ReasoningItem, Local
<1>11. KnownBy(ItemsOf(told), n) /\ OneValue(ItemsOf(told))
  BY <1>9, <1>10 DEF KnownBy, OneValue, Tagged
<1>12. Sound(resent, n)
  BY <1>3, <1>4, <1>6, <1>11 DEF Sound
<1>13. ASSUME UnmixedAll(memory), NEW m \in 1..Len(resent)
       PROVE  Unmixed(resent[m].content)
  <2> DEFINE content == memory[m].content
             all == resent[m].content
  <2>1. m \in 1..Len(memory) /\ Unmixed(content)
    BY <1>4, <1>13 DEF UnmixedAll
  <2>2. Len(all) = Len(content) /\ \A b \in 1..Len(content) : all[b] = Unlabelled(content[b]) /\ RightItem(content[b])
    BY <1>1, <1>5, <1>7, <2>1 DEF KnownBy
  <2> HIDE DEF content, all
  <2>3. \A b \in 1..Len(content) : all[b].kind = content[b].kind
    BY <2>2, UnlabelledIs
  <2>4. Unmixed(all)
    BY <2>1, <2>2, <2>3 DEF Unmixed
  <2> QED  BY <2>4 DEF all
<1>14. UnmixedAll(memory) => UnmixedAll(resent)
  BY <1>6, <1>13 DEF UnmixedAll
<1> QED
  BY <1>12, <1>14 DEF resent

-----------------------------------------------------------------------------
(* What a client asks. *)

Known(from, foreign) ==
  CASE from > 0 -> past[from].memory
    [] foreign -> Foreign
    [] OTHER -> <<>>
Before(from, foreign, nameless) ==
  IF nameless THEN Resent(Known(from, foreign)) ELSE Known(from, foreign)
New(from, mixed) == Says(IF from > 0 THEN past[from].calls ELSE <<>>, mixed)
Adds(protocol, new) ==
  IF protocol = "anthropic" THEN <<Message("user", new)>>
  ELSE [i \in DOMAIN new |-> Message("user", <<new[i]>>)]

\* What a client adds are messages of those items; one of several items may mix them.
LEMMA AddsMessages ==
  ASSUME NEW protocol, NEW new, IsSeq(new)
  PROVE  /\ MessagesSeq(Adds(protocol, new)) /\ HasContent(Adds(protocol, new)) /\ Contents(Adds(protocol, new)) = new
         /\ protocol # "anthropic" => UnmixedAll(Adds(protocol, new))
<1> DEFINE more == Adds(protocol, new)
<1>1. CASE protocol = "anthropic"
  <2>1. more = <<Message("user", new)>>
    BY <1>1 DEF Adds
  <2> HIDE DEF more
  <2> QED  BY <1>1, <2>1, OneMessage DEF more
<1>2. CASE protocol # "anthropic"
  <2>1. DOMAIN more = DOMAIN new /\ more = [i \in DOMAIN new |-> more[i]]
        /\ \A i \in DOMAIN new : more[i] = Message("user", <<new[i]>>)
    BY <1>2 DEF Adds
  <2> HIDE DEF more
  <2>2. \A i \in DOMAIN new : \E role : more[i] = Message(role, <<new[i]>>)
    BY <2>1
  <2>3. UnmixedAll(more) /\ Contents(more) = new /\ \A m \in 1..Len(more) : "content" \in DOMAIN more[m]
    BY <2>1, <2>2, EachMessage
  <2> QED  BY <2>3 DEF HasContent, UnmixedAll, more
<1> QED
  BY <1>1, <1>2

\* The client's memory is sound, and so is what it adds to it.
LEMMA AsksSound ==
  ASSUME KeptInv, NEW from \in 0..Len(past), NEW foreign, foreign => from = 0, NEW nameless, NEW mixed \in BOOLEAN,
         NEW protocol, from > 0 => past[from].protocol = protocol
  PROVE  /\ exchange.number \in Nat
         /\ IsSeq(New(from, mixed)) /\ Plain(ItemsOf(New(from, mixed)))
         /\ Sound(Before(from, foreign, nameless), exchange.number)
         /\ Sound(Before(from, foreign, nameless) \o Adds(protocol, New(from, mixed)), exchange.number)
         /\ protocol = "responses" =>
              /\ UnmixedAll(Before(from, foreign, nameless))
              /\ UnmixedAll(Before(from, foreign, nameless) \o Adds(protocol, New(from, mixed)))
<1> DEFINE n == exchange.number
           new == New(from, mixed)
           known == Known(from, foreign)
           old == Before(from, foreign, nameless)
           more == Adds(protocol, new)
<1>1. n \in Nat
  BY ConversationAssumption DEF KeptInv
<1>2. Len(past) \in Nat
  BY Sequenced DEF KeptInv
<1>3. from > 0 => from \in 1..Len(past) /\ PastOf(past[from], stored, n)
  BY <1>2 DEF KeptInv
<1>4. IsSeq(new) /\ Plain(ItemsOf(new))
  <2> DEFINE calls == IF from > 0 THEN past[from].calls ELSE <<>>
  <2>1. IsSeq(calls)
    BY <1>3, LeadsNowhere DEF PastOf
  <2>2. new = Says(calls, mixed)
    BY DEF New
  <2> HIDE DEF calls, new
  <2> QED  BY <2>1, <2>2, SaysPlain
<1>5. Sound(known, n) /\ (protocol = "responses" => UnmixedAll(known))
  <2> HIDE DEF n
  <2>1. /\ Sound(<<>>, n) /\ UnmixedAll(<<>>) /\ Sound(Foreign, n) /\ UnmixedAll(Foreign)
    BY <1>1, NothingSound, ForeignSound
  <2>2. CASE from > 0
    <3>0. from > 0 /\ ~foreign
      BY <2>2
    <3>1. known = past[from].memory
      BY <3>0, Zenon DEF Known
    <3> HIDE DEF known
    <3> QED  BY <1>3, <2>2, <3>1 DEF PastOf
  <2>3. CASE ~(from > 0)
    <3>1. known = Foreign \/ known = <<>>
      BY <2>3, Zenon DEF Known
    <3> HIDE DEF known
    <3> QED  BY <2>1, <3>1
  <2> QED  BY <2>2, <2>3
<1> HIDE DEF new, n, known
<1>6. Sound(old, n) /\ (protocol = "responses" => UnmixedAll(old))
  <2>1. old = IF nameless THEN Resent(known) ELSE known
    BY DEF Before, known
  <2> HIDE DEF old
  <2> QED  BY <1>1, <1>5, <2>1, ResentSound
<1> HIDE DEF old
<1>7. /\ MessagesSeq(more) /\ HasContent(more) /\ Contents(more) = new
      /\ protocol # "anthropic" => UnmixedAll(more)
  BY <1>4, AddsMessages
<1> HIDE DEF more
<1>8. Sound(old \o more, n)
  BY <1>1, <1>4, <1>6, <1>7, SoundSaid
<1>9. protocol = "responses" => UnmixedAll(old \o more)
  BY <1>6, <1>7, UnmixedJoined
<1> QED
  BY <1>1, <1>4, <1>6, <1>8, <1>9 DEF n, new, old, more

\* Items without opaque values have none.
LEMMA NoSecrets ==
  ASSUME NEW s, IsSeq(s), \A e \in ItemsOf(s) : e.secret = Nothing
  PROVE  Opaque(s) = {}
<1>1. DOMAIN s = 1..Len(s)
  BY Sequenced
<1> QED
  BY <1>1 DEF Opaque, ItemsOf

\* A history that needs no support holds no opaque value.
LEMMA UnsealedHistory ==
  ASSUME NEW s, IsSeq(s), \A e \in ItemsOf(s) : RightItem(e), DecodeResponses(s).fidelity.required = {}
  PROVE  Opaque(s) = {}
<1>1. Sealed(s) = <<>>
  BY DEF DecodeResponses
<1>2. \A e : e \in ItemsOf(<<>>) <=> e \in ItemsOf(s) /\ e.kind = "reasoning" /\ e.secret # Nothing
  BY <1>1, SealedItems
<1>3. ASSUME NEW e \in ItemsOf(s) PROVE e.secret = Nothing
  <2>1. e \notin ItemsOf(<<>>)
    BY ItemsFew
  <2> QED  BY <1>2, <2>1 DEF RightItem
<1> QED
  BY <1>3, NoSecrets

\* A conversation resent in full.
LEMMA ResentPosts ==
  ASSUME NEW memory, NEW n \in Nat, Sound(memory, n), UnmixedAll(memory), NEW native \in BOOLEAN,
         LET decoded == DecodeResponses(Contents(memory))
         IN UnsupportedRequired(decoded.fidelity, Carries(native)) = {}
  PROVE  LET decoded == DecodeResponses(Contents(memory))
         IN Posts(memory, n, "responses", decoded.messages, decoded.fidelity, native, Contents(memory))
<1> DEFINE known == Contents(memory)
           decoded == DecodeResponses(known)
<1>1. Carried(decoded.messages, decoded.fidelity.artifacts, memory, n)
  BY ResentCarried
<1>2. IsSeq(known) /\ \A e \in ItemsOf(known) : RightItem(e)
  BY ContentsSeq DEF Sound, KnownBy
<1>3. ~native => Opaque(known) = {}
  <2> SUFFICES ASSUME ~native PROVE Opaque(known) = {}
    OBVIOUS
  <2>1. decoded.fidelity.required = {}
    <3> HIDE DEF decoded
    <3>1. UnsupportedRequired(decoded.fidelity, Carries(native)) = {}
      BY DEF decoded
    <3> QED  BY <3>1 DEF UnsupportedRequired, Carries
  <2> HIDE DEF known
  <2> QED  BY <1>2, <2>1, UnsealedHistory
<1> DEFINE messages == decoded.messages
           fidelity == decoded.fidelity
<1> HIDE DEF messages, fidelity
<1>4. Carried(messages, fidelity.artifacts, memory, n) /\ MessagesSeq(messages)
  BY <1>1 DEF Carried, UnmixedAll, messages, fidelity
<1> HIDE DEF decoded
<1>5. LET sent == Payload(native, [messages |-> messages, fidelity |-> fidelity])
      IN SaidAll(Spoken(Contents(sent))) = SaidAll(Spoken(ToBeTold(memory, native)))
  BY <1>4, PostedWhole
<1>6. Posts(memory, n, "responses", messages, fidelity, native, known)
  BY <1>3, <1>4, <1>5 DEF Posts
<1> QED
  BY <1>6 DEF decoded, messages, fidelity

\* A conversation sent to a provider of signatures.
LEMMA SignedPosts ==
  ASSUME NEW memory, NEW n \in Nat, Sound(memory, n),
         UnsupportedRequired(DecodeAnthropic(memory).fidelity, Carries(FALSE)) = {}
  PROVE  Posts(memory, n, "anthropic", DecodeAnthropic(memory).messages, DecodeAnthropic(memory).fidelity, FALSE,
               Contents(memory))
<1> DEFINE decoded == DecodeAnthropic(memory)
           messages == decoded.messages
           fidelity == decoded.fidelity
<1>1. decoded.fidelity.required = {}
  <2> HIDE DEF decoded
  <2>1. UnsupportedRequired(decoded.fidelity, Carries(FALSE)) = {}
    BY DEF decoded
  <2> QED  BY <2>1 DEF UnsupportedRequired, Carries
<1>2. /\ \A e \in ItemsOf(Contents(memory)) : e.secret = Nothing
      /\ MessagesSeq(messages)
      /\ Contents(ToChatMessages(messages)) = ToBeTold(memory, FALSE)
  BY <1>1, SignedWhole
<1>3. IsSeq(Contents(memory))
  BY ContentsSeq DEF Sound
<1> HIDE DEF decoded, messages, fidelity
<1>4. Opaque(Contents(memory)) = {}
  BY <1>2, <1>3, NoSecrets
<1>5. Payload(FALSE, [messages |-> messages, fidelity |-> fidelity]) = ToChatMessages(messages)
  BY DEF Payload
<1>6. Posts(memory, n, "anthropic", messages, fidelity, FALSE, Contents(memory))
  BY <1>2, <1>4, <1>5 DEF Posts
<1> QED
  BY <1>6 DEF decoded, messages, fidelity

\* A conversation that goes on from a stored response.
LEMMA StoredPosts ==
  ASSUME NEW n \in Nat, NEW old, Sound(old, n), UnmixedAll(old), NEW record,
         Carried(record.messages, record.fidelity.artifacts, old, n),
         NEW new, IsSeq(new), Plain(ItemsOf(new)), NEW more, UnmixedAll(more), HasContent(more), Contents(more) = new,
         NEW native \in BOOLEAN
  PROVE  LET request == Apply(record, DecodeResponses(new))
         IN Posts(old \o more, n, "responses", request.messages, request.fidelity, native, new)
<1> DEFINE decoded == DecodeResponses(new)
           request == Apply(record, decoded)
<1>1. Sound(old \o more, n) /\ UnmixedAll(old \o more)
  BY SoundSaid, UnmixedJoined DEF UnmixedAll
<1>2. Carried(record.messages \o decoded.messages, record.fidelity.artifacts \o decoded.fidelity.artifacts, old \o more, n)
  <2> DEFINE messages == record.messages
             artifacts == record.fidelity.artifacts
  <2>1. Carried(messages, artifacts, old, n) /\ MessagesSeq(more)
    BY DEF UnmixedAll
  <2> HIDE DEF messages, artifacts
  <2>2. Carried(messages \o DecodeResponses(new).messages, artifacts \o DecodeResponses(new).fidelity.artifacts, old \o more, n)
    BY <2>1, CarriedSaid
  <2> QED  BY <2>2 DEF messages, artifacts
<1> HIDE DEF decoded
<1>3. /\ request.messages = record.messages \o decoded.messages
      /\ request.fidelity.artifacts = record.fidelity.artifacts \o decoded.fidelity.artifacts
  BY DEF Apply, MergeFidelity
<1>4. Opaque(new) = {} /\ Opaque(Restorable(new)) = {}
  <2>1. \A e \in ItemsOf(new) : RightItem(e) /\ e.secret = Nothing
    BY DEF Plain, RightItem
  <2>2. \A i \in 1..Len(new) : new[i].secret = Nothing
    BY <2>1 DEF ItemsOf
  <2> DEFINE all == Restorable(new)
  <2>3. IsSeq(all) /\ Len(all) = Len(new)
    BY RestorableListed
  <2>4. \A i \in 1..Len(new) : all[i].secret = Nothing
    BY <2>1, <2>2, RestorableItems
  <2> HIDE DEF all
  <2>5. \A e \in ItemsOf(all) : e.secret = Nothing
    BY <2>3, <2>4 DEF ItemsOf
  <2>6. Opaque(all) = {}
    BY <2>3, <2>5, NoSecrets
  <2> QED  BY <2>1, <2>6, NoSecrets DEF all
<1> DEFINE messages == request.messages
           fidelity == request.fidelity
           memory == old \o more
<1> HIDE DEF request
<1>5. Sound(memory, n) /\ UnmixedAll(memory) /\ Carried(messages, fidelity.artifacts, memory, n)
  BY <1>1, <1>2, <1>3
<1> HIDE DEF messages, fidelity, memory
<1>6. MessagesSeq(messages)
  BY <1>5 DEF Carried, UnmixedAll
<1>7. LET sent == Payload(native, [messages |-> messages, fidelity |-> fidelity])
      IN SaidAll(Spoken(Contents(sent))) = SaidAll(Spoken(ToBeTold(memory, native)))
  BY <1>5, PostedWhole
<1>8. Posts(memory, n, "responses", messages, fidelity, native, new)
  BY <1>4, <1>5, <1>6, <1>7 DEF Posts
<1> QED
  BY <1>8 DEF request, decoded, messages, fidelity, memory

\* What a client asks, and how it is decoded.
Asked(protocol, native, from, byId, new, memory) ==
  LET wire == IF byId THEN new ELSE Contents(memory)
      decoded == IF protocol = "anthropic" THEN DecodeAnthropic(memory) ELSE DecodeResponses(wire)
      record == IF byId THEN stored[past[from].id] ELSE NoRecord
      request == IF byId THEN Apply(record, decoded) ELSE decoded
      refused == (byId /\ ~record.some) \/ UnsupportedRequired(request.fidelity, Carries(native)) # {}
  IN /\ exchange'.phase = IF refused THEN "over" ELSE "posted"
     /\ exchange'.memory = memory /\ exchange'.wire = wire
     /\ exchange'.messages = request.messages /\ exchange'.fidelity = request.fidelity
     /\ exchange'.sent = IF refused THEN <<>> ELSE Payload(native, request)

ExchangeFields == {"phase", "protocol", "native", "stream", "keep", "memory", "wire", "messages", "fidelity", "sent",
           "id", "number", "commitment"}

\* A request is asked so (Ask).
LEMMA AskIs ==
  ASSUME NEW protocol, NEW native, NEW streamed, NEW keep, NEW from, NEW byId, NEW foreign, NEW mixed, NEW nameless,
         Ask(protocol, native, streamed, keep, from, byId, foreign, mixed, nameless)
  PROVE  /\ exchange.phase = "over" /\ exchange.number < MaxTurns
         /\ past' = past /\ stored' = stored /\ ExchangeFields \subseteq DOMAIN exchange'
         /\ exchange'.number = exchange.number + 1 /\ exchange'.native = native /\ exchange'.protocol = protocol
         /\ Asked(protocol, native, from, byId, New(from, mixed),
                  Before(from, foreign, nameless) \o Adds(protocol, New(from, mixed)))
<1>1. exchange.phase = "over" /\ exchange.number < MaxTurns /\ past' = past /\ stored' = stored
  BY Zenon DEF Ask, BetweenExchanges, Now
<1>2. /\ ExchangeFields \subseteq DOMAIN exchange' /\ exchange'.number = exchange.number + 1
      /\ exchange'.native = native /\ exchange'.protocol = protocol
  BY DEF Ask, Now, ExchangeFields
<1> DEFINE new == New(from, mixed)
           memory == Before(from, foreign, nameless) \o Adds(protocol, new)
           wire == IF byId THEN new ELSE Contents(memory)
           decoded == IF protocol = "anthropic" THEN DecodeAnthropic(memory) ELSE DecodeResponses(wire)
           record == IF byId THEN stored[past[from].id] ELSE NoRecord
           request == IF byId THEN Apply(record, decoded) ELSE decoded
           refused == (byId /\ ~record.some) \/ UnsupportedRequired(request.fidelity, Carries(native)) # {}
<1>3. exchange' = [phase |-> IF refused THEN "over" ELSE "posted",
                   protocol |-> protocol, native |-> native, stream |-> streamed, keep |-> keep,
                   memory |-> memory, wire |-> wire,
                   messages |-> request.messages, fidelity |-> request.fidelity,
                   sent |-> IF refused THEN <<>> ELSE Payload(native, request),
                   id |-> Now + 1, number |-> Now + 1,
                   commitment |-> "none"]
  BY Zenon DEF Ask, New, Known, Before, Adds
<1>4. Asked(protocol, native, from, byId, new, memory)
  <2>1. /\ exchange'.phase = IF refused THEN "over" ELSE "posted"
        /\ exchange'.memory = memory /\ exchange'.wire = wire
        /\ exchange'.messages = request.messages /\ exchange'.fidelity = request.fidelity
        /\ exchange'.sent = IF refused THEN <<>> ELSE Payload(native, request)
    <3> HIDE DEF refused, request, memory, wire
    <3> QED  BY <1>3
  <2> HIDE DEF new, memory
  <2> QED  BY <2>1, Zenon DEF Asked
<1> QED
  BY <1>1, <1>2, <1>4

MayAsk(protocol, native, from, byId, foreign, mixed, nameless, new, memory) ==
  /\ protocol \in {"anthropic", "responses"} /\ native \in BOOLEAN /\ byId \in BOOLEAN /\ from \in 0..Len(past)
  /\ mixed \in BOOLEAN
  /\ from > 0 => past[from].protocol = protocol
  /\ protocol = "anthropic" => ~native /\ ~byId
  /\ byId => from > 0 /\ ~nameless
  /\ foreign => from = 0
  /\ new = New(from, mixed) /\ memory = Before(from, foreign, nameless) \o Adds(protocol, new)
  /\ Asked(protocol, native, from, byId, new, memory)

\* What the client goes on from.
LEMMA BeforeIs ==
  ASSUME NEW from, NEW foreign, NEW nameless, from > 0, ~foreign, ~nameless
  PROVE  Before(from, foreign, nameless) = past[from].memory
BY Zenon DEF Before, Known

\* A request is refused, or posted whole.
LEMMA AskedPosts ==
  ASSUME KeptInv, NEW protocol, NEW native, NEW byId, NEW from, NEW foreign, NEW mixed, NEW nameless, NEW new, NEW memory,
         MayAsk(protocol, native, from, byId, foreign, mixed, nameless, new, memory)
  PROVE  /\ exchange'.phase \in {"over", "posted"} /\ exchange'.memory = memory
         /\ exchange'.phase = "over" => exchange'.sent = <<>>
         /\ exchange'.phase # "over" =>
              /\ Posts(memory, exchange.number, protocol, exchange'.messages, exchange'.fidelity, native, exchange'.wire)
              /\ exchange'.sent = Payload(native, [messages |-> exchange'.messages, fidelity |-> exchange'.fidelity])
<1> DEFINE n == exchange.number
           wire == IF byId THEN new ELSE Contents(memory)
           decoded == IF protocol = "anthropic" THEN DecodeAnthropic(memory) ELSE DecodeResponses(wire)
           record == IF byId THEN stored[past[from].id] ELSE NoRecord
           request == IF byId THEN Apply(record, decoded) ELSE decoded
           refused == (byId /\ ~record.some) \/ UnsupportedRequired(request.fidelity, Carries(native)) # {}
           old == Before(from, foreign, nameless)
           more == Adds(protocol, new)
<1>0. /\ protocol \in {"anthropic", "responses"} /\ native \in BOOLEAN /\ byId \in BOOLEAN /\ from \in 0..Len(past)
      /\ mixed \in BOOLEAN
      /\ from > 0 => past[from].protocol = protocol
      /\ protocol = "anthropic" => ~native /\ ~byId
      /\ byId => from > 0 /\ ~nameless
      /\ foreign => from = 0
      /\ new = New(from, mixed) /\ memory = Before(from, foreign, nameless) \o Adds(protocol, new)
      /\ Asked(protocol, native, from, byId, new, memory)
  BY Zenon DEF MayAsk
<1>1. /\ exchange'.phase = IF refused THEN "over" ELSE "posted"
      /\ exchange'.memory = memory /\ exchange'.wire = wire
      /\ exchange'.messages = request.messages /\ exchange'.fidelity = request.fidelity
      /\ exchange'.sent = IF refused THEN <<>> ELSE Payload(native, request)
  BY <1>0, Zenon DEF Asked
<1>2. /\ n \in Nat /\ IsSeq(new) /\ Plain(ItemsOf(new)) /\ Sound(old, n) /\ Sound(memory, n)
      /\ protocol = "responses" => UnmixedAll(old) /\ UnmixedAll(memory)
  BY <1>0, AsksSound
<1>3. request = [messages |-> request.messages, fidelity |-> request.fidelity]
  <2>1. CASE byId
    <3>1. request = Apply(record, decoded)
      BY <2>1
    <3> HIDE DEF request, record, decoded
    <3> QED  BY <3>1 DEF Apply
  <2>2. CASE ~byId
    <3>1. request = DecodeAnthropic(memory) \/ request = DecodeResponses(wire)
      BY <2>2
    <3> HIDE DEF request, wire
    <3>2. CASE request = DecodeAnthropic(memory)
      BY <3>2 DEF DecodeAnthropic
    <3>3. CASE request = DecodeResponses(wire)
      BY <3>3 DEF DecodeResponses
    <3> QED  BY <3>1, <3>2, <3>3
  <2> QED  BY <1>0, <2>1, <2>2
<1>4. ASSUME ~refused
      PROVE  Posts(memory, n, protocol, request.messages, request.fidelity, native, wire)
  <2>1. CASE protocol = "anthropic"
    <3>1. wire = Contents(memory) /\ request = DecodeAnthropic(memory) /\ native = FALSE
      BY <1>0, <2>1
    <3>2. UnsupportedRequired(DecodeAnthropic(memory).fidelity, Carries(FALSE)) = {}
      <4> HIDE DEF request
      <4> QED  BY <1>4, <3>1
    <3> HIDE DEF n, wire, request
    <3> QED  BY <1>2, <2>1, <3>1, <3>2, SignedPosts
  <2>2. CASE protocol = "responses" /\ ~byId
    <3>1. wire = Contents(memory) /\ request = DecodeResponses(Contents(memory))
      BY <2>2
    <3>2. UnsupportedRequired(DecodeResponses(Contents(memory)).fidelity, Carries(native)) = {}
      <4> HIDE DEF request
      <4> QED  BY <1>4, <3>1
    <3> HIDE DEF n, wire, request
    <3> QED  BY <1>0, <1>2, <2>2, <3>1, <3>2, ResentPosts
  <2>3. CASE protocol = "responses" /\ byId
    <3>1. wire = new /\ request = Apply(record, DecodeResponses(new)) /\ memory = old \o more
      BY <1>0, <2>3
    <3>2. record.some /\ record = stored[past[from].id]
      BY <1>4, <2>3
    <3>3. from \in 1..Len(past)
      <4>1. Len(past) \in Nat
        BY Sequenced DEF KeptInv
      <4> QED  BY <1>0, <2>3, <4>1
    <3>4. PastOf(past[from], stored, n) /\ past[from].protocol = "responses" /\ old = past[from].memory
      <4>1. PastOf(past[from], stored, exchange.number) /\ from > 0 /\ ~foreign /\ ~nameless
        BY <1>0, <2>3, <3>3 DEF KeptInv
      <4>2. old = past[from].memory
        BY <4>1, BeforeIs
      <4> HIDE DEF n, record, request, wire, old
      <4> QED  BY <1>0, <2>3, <4>1, <4>2 DEF n
    <3> HIDE DEF record, n
    <3>5. Carried(record.messages, record.fidelity.artifacts, old, n)
      BY <3>2, <3>4 DEF PastOf
    <3>6. UnmixedAll(more) /\ HasContent(more) /\ Contents(more) = new
      BY <1>2, <2>3, AddsMessages
    <3> HIDE DEF old, more, wire, request
    <3>7. LET asked == Apply(record, DecodeResponses(new))
          IN Posts(old \o more, n, "responses", asked.messages, asked.fidelity, native, new)
      BY <1>0, <1>2, <2>3, <3>5, <3>6, StoredPosts
    <3> QED  BY <2>3, <3>1, <3>7
  <2> QED  BY <1>0, <2>1, <2>2, <2>3
<1> HIDE DEF refused, request, wire
<1> QED
  BY <1>1, <1>3, <1>4 DEF n

\* A new exchange is posted whole, and what is remembered stays so.
LEMMA AsksKept ==
  ASSUME KeptInv, Asks
  PROVE  KeptInv' /\ ConversationKept'
<1>0. PICK protocol \in {"anthropic", "responses"}, native, streamed, keep, byId, foreign, mixed, nameless \in BOOLEAN,
           from \in 0..Len(past) :
        /\ from > 0 => past[from].protocol = protocol
        /\ protocol = "anthropic" => ~native /\ ~keep /\ ~byId /\ ~nameless
        /\ byId => from > 0 /\ ~nameless
        /\ foreign => from = 0
        /\ mixed => from > 0 /\ past[from].calls # <<>>
        /\ Ask(protocol, native, streamed, keep, from, byId, foreign, mixed, nameless)
  BY DEF Asks
<1> DEFINE n == exchange.number
           fresh == New(from, mixed)
           told == Before(from, foreign, nameless) \o Adds(protocol, fresh)
<1>2. /\ exchange.phase = "over" /\ n < MaxTurns
      /\ past' = past /\ stored' = stored /\ ExchangeFields \subseteq DOMAIN exchange'
      /\ exchange'.number = n + 1 /\ exchange'.native = native /\ exchange'.protocol = protocol
      /\ Asked(protocol, native, from, byId, fresh, told)
  BY <1>0, AskIs
<1>3. n \in Nat /\ n + 1 \in 0..MaxTurns /\ n + 1 # 0 /\ (n + 1) - 1 = n
  <2>1. n \in 0..MaxTurns /\ n < MaxTurns
    BY <1>2 DEF KeptInv
  <2> HIDE DEF n
  <2> QED  BY <2>1, ConversationAssumption
<1> HIDE DEF fresh, told
<1>4. /\ exchange'.phase \in {"over", "posted"} /\ exchange'.memory = told
      /\ exchange'.phase = "over" => exchange'.sent = <<>>
      /\ exchange'.phase # "over" =>
           /\ Posts(told, n, protocol, exchange'.messages, exchange'.fidelity, native, exchange'.wire)
           /\ exchange'.sent = Payload(native, [messages |-> exchange'.messages, fidelity |-> exchange'.fidelity])
  <2>1. fresh = New(from, mixed) /\ told = Before(from, foreign, nameless) \o Adds(protocol, fresh)
    BY DEF fresh, told
  <2>2. MayAsk(protocol, native, from, byId, foreign, mixed, nameless, fresh, told)
    <3> HIDE DEF n
    <3> QED  BY <1>0, <1>2, <2>1 DEF MayAsk
  <2> QED  BY <2>2, AskedPosts
<1>5. \A i \in 1..Len(past) : PastOf(past[i], stored, n + 1) /\ past[i].id # n + 1
  <2> SUFFICES ASSUME NEW i \in 1..Len(past)
               PROVE  PastOf(past[i], stored, n + 1) /\ past[i].id # n + 1
    OBVIOUS
  <2> DEFINE entry == past[i]
  <2>1. PastOf(entry, stored, n)
    BY DEF KeptInv
  <2> HIDE DEF entry, n
  <2>2. PastOf(entry, stored, n + 1)
    BY <1>3, <2>1, PastLater
  <2>3. entry.id # n + 1
    BY <1>3, <2>1 DEF PastOf
  <2> QED  BY <2>2, <2>3 DEF entry
<1> DEFINE messages == exchange'.messages
           fidelity == exchange'.fidelity
           wire == exchange'.wire
<1>6. KeptInv'
  <2>1. exchange'.phase # "over" =>
          /\ Sound(told, n)
          /\ protocol = "responses" =>
               UnmixedAll(told) /\ Carried(exchange'.messages, exchange'.fidelity.artifacts, told, n)
    BY <1>4 DEF Posts
  <2>2. IsSeq(past)
    BY DEF KeptInv
  <2>3. /\ ExchangeFields \subseteq DOMAIN exchange' /\ exchange'.number \in 0..MaxTurns /\ IsSeq(past')
        /\ \A i \in 1..Len(past') : /\ PastOf(past'[i], stored', exchange'.number)
                                    /\ exchange'.phase # "over" => past'[i].id # exchange'.number
        /\ exchange'.phase # "over" =>
             /\ exchange'.number # 0 /\ Sound(exchange'.memory, exchange'.number - 1)
             /\ exchange'.protocol = "responses" =>
                  /\ UnmixedAll(exchange'.memory)
                  /\ Carried(exchange'.messages, exchange'.fidelity.artifacts, exchange'.memory, exchange'.number - 1)
    <3> HIDE DEF n
    <3>1. \A i \in 1..Len(past') : /\ PastOf(past'[i], stored', exchange'.number)
                                   /\ exchange'.phase # "over" => past'[i].id # exchange'.number
      BY <1>2, <1>5
    <3>2. /\ exchange'.memory = told /\ exchange'.number = n + 1 /\ exchange'.number - 1 = n
          /\ exchange'.protocol = protocol
      BY <1>2, <1>3, <1>4
    <3>3. exchange'.phase # "over" =>
             /\ exchange'.number # 0 /\ Sound(exchange'.memory, exchange'.number - 1)
             /\ exchange'.protocol = "responses" =>
                  /\ UnmixedAll(exchange'.memory)
                  /\ Carried(exchange'.messages, exchange'.fidelity.artifacts, exchange'.memory, exchange'.number - 1)
      BY <1>3, <2>1, <3>2
    <3>4. ExchangeFields \subseteq DOMAIN exchange' /\ exchange'.number \in 0..MaxTurns /\ IsSeq(past')
      BY <1>2, <1>3, <2>2
    <3> QED  BY <3>1, <3>3, <3>4
  <2> QED  BY <2>3 DEF KeptInv, ExchangeFields
<1>7. ConversationKept'
  <2>1. CASE exchange'.phase = "over"
    <3>1. exchange'.sent = <<>>
      BY <1>4, <2>1
    <3> QED  BY <3>1 DEF ConversationKept, HistoryReplayed, RequiredNeverDropped, Posted
  <2>2. CASE exchange'.phase # "over"
    <3>1. Posts(told, n, protocol, messages, fidelity, native, wire)
      BY <1>4, <2>2
    <3>2. exchange'.memory = told /\ exchange'.wire = wire /\ exchange'.native = native
          /\ exchange'.sent = Payload(native, [messages |-> messages, fidelity |-> fidelity])
      BY <1>2, <1>4, <2>2
    <3> HIDE DEF n, messages, fidelity, wire
    <3> QED  BY <1>0, <1>3, <3>1, <3>2, PostedKept
  <2> QED  BY <2>1, <2>2
<1> QED
  BY <1>6, <1>7

-----------------------------------------------------------------------------
(* What an answer is made of. *)

GivenKinds == {"text", "reasoning", "call"}
AnswerKinds == \A index \in DOMAIN answer : index \in Nat /\ answer[index].kind \in GivenKinds

\* An answer that grows has items of a provider's kinds.
LEMMA KindsGrow ==
  ASSUME WholeShape, AnswerKinds, NEW index, NEW item, Grows(index, item),
         index \in DOMAIN answer \/ (index \in Nat /\ item.kind \in GivenKinds)
  PROVE  AnswerKinds'
<1>1. CASE index \in DOMAIN answer
  <2>1. answer' = [answer EXCEPT ![index].parts = @ \o item.parts]
    BY <1>1 DEF Grows
  <2>2. answer[index] = Item(answer[index].kind, answer[index].id, answer[index].parts, answer[index].secret)
    BY <1>1 DEF WholeShape
  <2>3. [answer[index] EXCEPT !.parts = @ \o item.parts].kind = answer[index].kind
    BY <2>2 DEF Item
  <2>4. DOMAIN answer' = DOMAIN answer /\ \A i \in DOMAIN answer : answer'[i].kind = answer[i].kind
    BY <2>1, <2>3
  <2> QED  BY <2>4 DEF AnswerKinds
<1>2. CASE index \notin DOMAIN answer
  <2>1. answer' = Put(answer, index, item)
    BY <1>2 DEF Grows
  <2>2. /\ DOMAIN answer' = DOMAIN answer \cup {index} /\ answer'[index] = item
        /\ \A i \in DOMAIN answer : answer'[i] = answer[i]
    BY <1>2, <2>1 DEF Put
  <2> QED  BY <1>2, <2>2 DEF AnswerKinds
<1> QED
  BY <1>1, <1>2

\* Every fragment of a stream is of such an item.
LEMMA StreamKinds ==
  ASSUME WholeInv, AnswerKinds, ChatSaysMore \/ ChatCalls \/ RailAdds \/ RailSaysMore
  PROVE  AnswerKinds'
<1>1. exchange.stream => WholeShape
  BY DEF WholeInv, StreamedInv
<1>2. CASE ChatSaysMore
  <2>1. PICK kind \in {"text", "reasoning"} : Grows(IndexOf(kind), Item(kind, Unnamed, <<Part>>, Nothing))
    BY <1>2 DEF ChatSaysMore
  <2> DEFINE item == Item(kind, Unnamed, <<Part>>, Nothing)
             index == IndexOf(kind)
  <2>2. WholeShape /\ Grows(index, item) /\ item.kind \in GivenKinds /\ index \in Nat
    BY <1>1, <1>2, <2>1 DEF ChatSaysMore, Answering, Item, GivenKinds, IndexOf
  <2> HIDE DEF item, index
  <2> QED  BY <2>2, KindsGrow
<1>3. CASE ChatCalls
  <2>0. PICK slot \in Slots : \E parts : Grows(slot + 1, Item("call", Provided(slot + 1), parts, Nothing))
    BY <1>3 DEF ChatCalls
  <2>1. PICK parts : Grows(slot + 1, Item("call", Provided(slot + 1), parts, Nothing))
    BY <2>0
  <2> DEFINE item == Item("call", Provided(slot + 1), parts, Nothing)
             index == slot + 1
  <2>2. WholeShape /\ Grows(index, item) /\ item.kind \in GivenKinds /\ index \in Nat
    BY <1>1, <1>3, <2>1, TranslationAssumption DEF ChatCalls, Answering, Item, GivenKinds
  <2> HIDE DEF item, index
  <2> QED  BY <2>2, KindsGrow
<1>4. CASE RailAdds
  <2> DEFINE index == Cardinality(DOMAIN answer)
  <2>0. PICK kind \in GivenKinds : \E parts, final : Grows(index, Item(kind, Provided(index), parts, final))
    <3>1. \E kind \in GivenKinds, parts \in {<<>>} \cup (IF More THEN {<<Part>>} ELSE {}) :
            \E final \in {Nothing} \cup (IF kind = "reasoning" THEN {Encrypted(index)} ELSE {}) :
            \E early \in {Nothing, final} \cup (IF Drafts /\ final # Nothing THEN {[final EXCEPT !.draft = TRUE]} ELSE {}) :
              /\ Grows(index, Item(kind, Provided(index), parts, final))
              /\ Receives(RailAdded(adapter, index, Item(kind, Provided(index), parts, early)))
      BY <1>4, Zenon DEF RailAdds, GivenKinds
    <3> HIDE DEF index
    <3> QED  BY <3>1, Zenon
  <2>1. PICK parts, final : Grows(index, Item(kind, Provided(index), parts, final))
    BY <2>0, Zenon
  <2> DEFINE item == Item(kind, Provided(index), parts, final)
  <2>2. WholeShape /\ exchange.stream /\ exchange.native /\ exchange.phase = "streaming"
    BY <1>1, <1>4 DEF RailAdds, Answering, WholeInv, ExchangeKnown
  <2>3. index \in Nat
    <3>1. RailCopied
      BY <2>2, RailStreams
    <3>2. IsFiniteSet(DOMAIN answer)
      BY <2>2, <3>1 DEF WholeShape, RailCopied
    <3> QED  BY <3>2, FS_CardinalityType
  <2>4. Grows(index, item) /\ item.kind \in GivenKinds
    BY <2>1 DEF Item
  <2> HIDE DEF item, index
  <2> QED  BY <2>2, <2>3, <2>4, KindsGrow
<1>5. CASE RailSaysMore
  <2>1. PICK index \in adapter.open : Grows(index, [answer[index] EXCEPT !.parts = <<Part>>])
    BY <1>5 DEF RailSaysMore
  <2> DEFINE item == [answer[index] EXCEPT !.parts = <<Part>>]
  <2>2. WholeShape /\ exchange.stream /\ exchange.native /\ exchange.phase = "streaming"
    BY <1>1, <1>5 DEF RailSaysMore, Answering, WholeInv, ExchangeKnown
  <2>3. index \in DOMAIN answer /\ Grows(index, item)
    BY <2>1, <2>2, RailStreams DEF RailCopied
  <2> HIDE DEF item
  <2> QED  BY <2>2, <2>3, KindsGrow
<1> QED
  BY <1>2, <1>3, <1>4, <1>5

\* And so is every item of an answer given at once.
LEMMA AtOnceKinds ==
  ASSUME ChatAnswers \/ RailAnswers
  PROVE  AnswerKinds'
<1>1. CASE ChatAnswers
  <2>1. PICK at : at \in SUBSET ChatIndices /\ answer' = ChatItems(at)
    BY <1>1, ChatGives
  <2> DEFINE Kind(index) == CASE index = 0 -> "text" [] index = 1000 -> "reasoning" [] OTHER -> "call"
  <2>2. DOMAIN answer' = at /\ at \in SUBSET Nat
    <3>1. DOMAIN answer' = at
      BY <2>1 DEF ChatItems
    <3> QED  BY <2>1, <3>1, TranslationAssumption DEF ChatIndices
  <2>3. ASSUME NEW index \in at PROVE answer'[index].kind \in GivenKinds
    <3> DEFINE kind == Kind(index)
               parts == <<10 * Now + 1 + (index % 7)>>
    <3>1. answer'[index] = Item(kind, Provided(index), parts, Nothing)
      BY <2>1 DEF ChatItems
    <3>2. kind \in GivenKinds
      BY DEF GivenKinds
    <3> HIDE DEF kind, parts
    <3> QED  BY <3>1, <3>2, ItemIs
  <2>4. \A index \in DOMAIN answer' : index \in Nat /\ answer'[index].kind \in GivenKinds
    <3> SUFFICES ASSUME NEW index \in DOMAIN answer' PROVE index \in Nat /\ answer'[index].kind \in GivenKinds
      OBVIOUS
    <3> HIDE DEF Kind
    <3>1. index \in at
      BY <2>2
    <3>2. answer'[index].kind \in GivenKinds
      BY <2>3, <3>1
    <3>3. index \in Nat
      BY <2>2, <3>1
    <3> QED  BY <3>2, <3>3
  <2> QED  BY <2>4 DEF AnswerKinds
<1>2. CASE RailAnswers
  <2>1. PICK kinds \in {<<"text">>, <<"reasoning", "call">>, <<"reasoning", "text">>}, opaque \in BOOLEAN :
          answer' = [index \in 0..(Len(kinds) - 1) |->
                       Item(kinds[index + 1], Provided(index), <<10 * Now + index + 1>>,
                            IF opaque /\ kinds[index + 1] = "reasoning" THEN Encrypted(index) ELSE Nothing)]
    BY <1>2 DEF RailAnswers
  <2>2. DOMAIN answer' = 0..(Len(kinds) - 1) /\ Len(kinds) \in Nat
    BY <2>1
  <2>3. ASSUME NEW index \in DOMAIN answer' PROVE index \in Nat /\ answer'[index].kind \in GivenKinds
    <3> DEFINE kind == kinds[index + 1]
               parts == <<10 * Now + index + 1>>
               secret == IF opaque /\ kinds[index + 1] = "reasoning" THEN Encrypted(index) ELSE Nothing
    <3>1. answer'[index] = Item(kind, Provided(index), parts, secret)
      BY <2>1
    <3>2. kind \in GivenKinds /\ index \in Nat
      BY <2>2 DEF GivenKinds
    <3> HIDE DEF kind, parts, secret
    <3> QED  BY <3>1, <3>2, ItemIs
  <2> QED  BY <2>3 DEF AnswerKinds
<1> QED
  BY <1>1, <1>2

\* Every step keeps that.
LEMMA KindsNext ==
  ASSUME WholeInv, AnswerKinds, [ConversationNext]_conversationVars
  PROVE  AnswerKinds'
<1>1. CASE Asks
  <2>1. answer' = <<>>
    <3>1. PICK protocol, native, streamed, keep, from, byId, foreign, mixed, nameless :
            Ask(protocol, native, streamed, keep, from, byId, foreign, mixed, nameless)
      BY <1>1 DEF Asks
    <3> QED  BY <3>1, Zenon DEF Ask
  <2> QED  BY <2>1 DEF AnswerKinds
<1>2. CASE (\E failure \in Failures : PostFails(failure)) \/ PostSucceeds \/ ChatFinishes \/ ChatUsageLate \/ ChatEnds
           \/ RailStarts \/ RailFinishesItem \/ RailCompletes \/ RailFails \/ RailEnds \/ UNCHANGED conversationVars
  <2>1. answer' = answer
    BY <1>2, Zenon DEF PostFails, PostSucceeds, ChatFinishes, ChatUsageLate, ChatEnds, RailStarts, RailFinishesItem,
         RailCompletes, RailFails, RailEnds, conversationVars
  <2> QED  BY <2>1 DEF AnswerKinds
<1>3. CASE ChatSaysMore \/ ChatCalls \/ RailAdds \/ RailSaysMore
  BY <1>3, StreamKinds
<1>4. CASE ChatAnswers \/ RailAnswers
  BY <1>4, AtOnceKinds
<1> QED
  BY <1>1, <1>2, <1>3, <1>4 DEF ConversationNext

-----------------------------------------------------------------------------
(* What an answer leaves behind. *)

Coherent(coder, n) ==
  /\ DOMAIN coder.items \in SUBSET Nat /\ IsFiniteSet(DOMAIN coder.items)
  /\ \A index \in DOMAIN coder.items :
       /\ coder.items[index] = Item(coder.items[index].kind, coder.items[index].id, coder.items[index].parts, Nothing)
       /\ coder.items[index].kind \in GivenKinds
       /\ coder.items[index].kind = "reasoning" =>
            \/ coder.items[index].id = Local(1000) /\ coder.artifacts = <<>>
            \/ coder.items[index].id = [of |-> n, n |-> index]

\* Items given by an exchange.
GivenBy(blocks, n) ==
  /\ DOMAIN blocks \in SUBSET Nat /\ IsFiniteSet(DOMAIN blocks)
  /\ \A index \in DOMAIN blocks :
       /\ blocks[index] = Item(blocks[index].kind, blocks[index].id, blocks[index].parts, blocks[index].secret)
       /\ blocks[index].kind \in GivenKinds
       /\ blocks[index].kind # "reasoning" => blocks[index].secret = Nothing
       /\ blocks[index].kind = "reasoning" =>
            \/ blocks[index].id = Local(1000) /\ blocks[index].secret = Nothing
            \/ blocks[index].id = [of |-> n, n |-> index]

\* What an exchange gave is an answer: its reasoning has ids of its own.
LEMMA GivenAnswered ==
  ASSUME NEW n \in Nat \ {0}, NEW blocks, GivenBy(blocks, n)
  PROVE  Answered(blocks, n)
<1> DEFINE items == {blocks[index] : index \in DOMAIN blocks}
<1>1. Local(1000) = [of |-> 0, n |-> 1000] /\ Unnamed = [of |-> 0, n |-> -1]
  BY DEF Local, Unnamed
<1>2. ASSUME NEW index \in DOMAIN blocks
      PROVE  /\ RightItem(blocks[index]) /\ blocks[index].kind # "result"
             /\ blocks[index].kind = "reasoning" => \/ blocks[index].id = Local(1000) /\ blocks[index].secret = Nothing
                                                    \/ blocks[index].id.of = n
  <2>1. index \in Nat
    BY DEF GivenBy
  <2>2. [of |-> n, n |-> index] # Unnamed /\ Local(1000) # Unnamed /\ [of |-> n, n |-> index].of = n
    BY <1>1, <2>1
  <2>3. blocks[index].kind # "result"
    BY DEF GivenBy, GivenKinds
  <2> DEFINE item == blocks[index]
  <2>4. /\ item = Item(item.kind, item.id, item.parts, item.secret)
        /\ item.kind # "reasoning" => item.secret = Nothing
        /\ item.kind = "reasoning" =>
             \/ item.id = Local(1000) /\ item.secret = Nothing
             \/ item.id = [of |-> n, n |-> index]
    BY Zenon DEF GivenBy
  <2> HIDE DEF item
  <2>5. RightItem(item)
    BY <2>2, <2>4 DEF RightItem
  <2>6. item.kind = "reasoning" => \/ item.id = Local(1000) /\ item.secret = Nothing
                                   \/ item.id.of = n
    BY <2>2, <2>4
  <2> QED  BY <2>3, <2>5, <2>6 DEF item
<1>3. ASSUME NEW i \in DOMAIN blocks, NEW j \in DOMAIN blocks,
             blocks[i].kind = "reasoning", blocks[j].kind = "reasoning", blocks[i].id = blocks[j].id
      PROVE  blocks[i].secret = blocks[j].secret
  <2>1. i \in Nat /\ j \in Nat
    BY DEF GivenBy
  <2>2. /\ [of |-> n, n |-> i] # Local(1000) /\ [of |-> n, n |-> j] # Local(1000)
        /\ [of |-> n, n |-> i] = [of |-> n, n |-> j] => i = j
    <3>1. [of |-> n, n |-> i].of = n /\ [of |-> n, n |-> j].of = n /\ Local(1000).of = 0
      BY <1>1
    <3>2. [of |-> n, n |-> i].n = i /\ [of |-> n, n |-> j].n = j
      OBVIOUS
    <3> QED  BY <3>1, <3>2
  <2> QED  BY <1>3, <2>2 DEF GivenBy
<1>4. AddedBy(items, n)
  BY <1>2, <1>3 DEF AddedBy, OneValue, Tagged
<1> QED
  BY <1>4 DEF Answered, GivenBy

\* What is aggregated of it is one, with its opaque values or without.
LEMMA CoherentAnswered ==
  ASSUME NEW n \in Nat \ {0}, NEW coder, Coherent(coder, n)
  PROVE  Answered(coder.items, n) /\ Answered(FinalizeAggregate(coder), n)
<1> DEFINE items == coder.items
           blocks == FinalizeAggregate(coder)
<1>0. /\ DOMAIN items \in SUBSET Nat /\ IsFiniteSet(DOMAIN items)
      /\ \A index \in DOMAIN items :
           /\ items[index] = Item(items[index].kind, items[index].id, items[index].parts, Nothing)
           /\ items[index].kind \in GivenKinds
           /\ items[index].kind = "reasoning" =>
                \/ items[index].id = Local(1000) /\ coder.artifacts = <<>>
                \/ items[index].id = [of |-> n, n |-> index]
  BY DEF Coherent
<1>1. DOMAIN blocks = DOMAIN items
  BY DEF FinalizeAggregate
<1>2. ASSUME NEW index \in DOMAIN items
      PROVE  blocks[index] = IF items[index].kind # "reasoning" THEN items[index]
                             ELSE [items[index] EXCEPT !.secret = ArtifactValue(coder.artifacts, "encrypted", items[index].id)]
  BY DEF FinalizeAggregate
<1>3. coder.artifacts = <<>> => \A at : ArtifactValue(coder.artifacts, "encrypted", at) = Nothing
  BY DEF ArtifactValue
<1> HIDE DEF items, blocks
<1>4. \A index \in DOMAIN items : items[index].secret = Nothing
  <2> SUFFICES ASSUME NEW index \in DOMAIN items PROVE items[index].secret = Nothing
    OBVIOUS
  <2> DEFINE item == items[index]
  <2>1. item = Item(item.kind, item.id, item.parts, Nothing)
    BY <1>0
  <2> HIDE DEF item
  <2>2. item.secret = Nothing
    BY <2>1, ItemIs
  <2> QED  BY <2>2 DEF item
<1>5. GivenBy(items, n)
  BY <1>0, <1>4 DEF GivenBy
<1>6. ASSUME NEW index \in DOMAIN items
      PROVE  LET value == ArtifactValue(coder.artifacts, "encrypted", items[index].id)
             IN /\ blocks[index] = Item(items[index].kind, items[index].id, items[index].parts,
                                        IF items[index].kind # "reasoning" THEN Nothing ELSE value)
                /\ blocks[index].kind = items[index].kind /\ blocks[index].id = items[index].id
                /\ blocks[index].parts = items[index].parts
                /\ blocks[index].secret = IF items[index].kind # "reasoning" THEN Nothing ELSE value
  <2> DEFINE value == ArtifactValue(coder.artifacts, "encrypted", items[index].id)
             item == items[index]
  <2>1. item = Item(item.kind, item.id, item.parts, Nothing)
    BY <1>0
  <2>2. blocks[index] = IF item.kind # "reasoning" THEN item ELSE [item EXCEPT !.secret = value]
    BY <1>2
  <2> HIDE DEF value, item
  <2>3. [item EXCEPT !.secret = value] = Item(item.kind, item.id, item.parts, value)
    BY <2>1 DEF Item
  <2>4. blocks[index] = Item(item.kind, item.id, item.parts, IF item.kind # "reasoning" THEN Nothing ELSE value)
    BY <2>1, <2>2, <2>3
  <2> QED  BY <2>4, ItemIs DEF value, item
<1>7. GivenBy(blocks, n)
  <2>1. ASSUME NEW index \in DOMAIN items
        PROVE  /\ blocks[index] = Item(blocks[index].kind, blocks[index].id, blocks[index].parts, blocks[index].secret)
               /\ blocks[index].kind \in GivenKinds
               /\ blocks[index].kind # "reasoning" => blocks[index].secret = Nothing
               /\ blocks[index].kind = "reasoning" =>
                    \/ blocks[index].id = Local(1000) /\ blocks[index].secret = Nothing
                    \/ blocks[index].id = [of |-> n, n |-> index]
    <3>1. blocks[index] = Item(blocks[index].kind, blocks[index].id, blocks[index].parts, blocks[index].secret)
      BY <1>6
    <3> QED  BY <1>0, <1>3, <1>6, <3>1
  <2> QED  BY <1>0, <1>1, <2>1 DEF GivenBy
<1> QED
  BY <1>5, <1>7, GivenAnswered DEF items, blocks

\* What a stream that completed aggregates, and what the client has of it.
LEMMA StreamedCoherent ==
  ASSUME WholeInv, AnswerKinds, exchange.stream, exchange.phase = "streaming", adapter.completed,
         exchange.number \in Nat \ {0}
  PROVE  /\ Coherent(encoder, exchange.number)
         /\ client.blocks = IF exchange.protocol = "responses" THEN FinalizeAggregate(encoder) ELSE encoder.items
<1>1. /\ ExchangeKnown /\ WholeShape /\ Copied /\ Finished
      /\ IF exchange.native THEN RailCopied ELSE ChatCopied
  <2>1. CASE exchange.native
    BY <2>1, RailStreams
  <2>2. CASE ~exchange.native
    BY <2>2, ChatStreams DEF ExchangeKnown, Going
  <2> QED  BY <2>1, <2>2
<1>2. client.blocks = IF exchange.protocol = "responses" THEN FinalizeAggregate(encoder) ELSE encoder.items
  <2>1. encoder = Coder(encoder.items, {}, encoder.artifacts, <<>>)
    BY <1>1 DEF WholeShape, Finished
  <2>2. client.blocks = OutputOf(exchange.protocol, encoder.items, encoder.artifacts)
    BY <1>1 DEF Finished, Concluded
  <2> QED  BY <2>1, <2>2 DEF OutputOf
<1>3. DOMAIN encoder.items \in SUBSET Nat /\ IsFiniteSet(DOMAIN encoder.items)
  BY <1>1 DEF Copied, AnswerKinds, WholeShape
<1>4. ASSUME NEW index \in DOMAIN encoder.items
      PROVE  /\ encoder.items[index] = Item(encoder.items[index].kind, encoder.items[index].id, encoder.items[index].parts, Nothing)
             /\ encoder.items[index].kind \in GivenKinds
             /\ encoder.items[index].kind = "reasoning" =>
                  \/ encoder.items[index].id = Local(1000) /\ encoder.artifacts = <<>>
                  \/ encoder.items[index].id = [of |-> exchange.number, n |-> index]
  <2> DEFINE item == encoder.items[index]
             given == answer[index]
  <2>1. index \in DOMAIN answer /\ item = Item(given.kind, item.id, given.parts, Nothing) /\ given.kind \in GivenKinds
    BY <1>1 DEF Copied, AnswerKinds
  <2>2. item.kind = "reasoning" =>
          \/ item.id = Local(1000) /\ encoder.artifacts = <<>>
          \/ item.id = [of |-> exchange.number, n |-> index]
    <3>0. item.kind = given.kind
      <4> HIDE DEF item, given
      <4> QED  BY <2>1, ItemIs
    <3>1. CASE exchange.native
      BY <1>1, <2>1, <3>1 DEF RailCopied, Provided, Now
    <3>2. CASE ~exchange.native
      <4>1. ChatCopied
        BY <1>1, <3>2
      <4>2. given.kind = KindAt(index) /\ encoder.artifacts = <<>> /\ Named(encoder.items)
        BY <2>1, <4>1 DEF ChatCopied
      <4>3. given.kind = "reasoning" => index = 1000
        <5> HIDE DEF given
        <5> QED  BY <4>2 DEF KindAt
      <4> QED  BY <3>0, <4>2, <4>3 DEF Named
    <3> QED  BY <3>1, <3>2
  <2> HIDE DEF item, given
  <2>3. item = Item(item.kind, item.id, item.parts, Nothing) /\ item.kind \in GivenKinds
    BY <2>1, ItemIs
  <2> QED  BY <2>2, <2>3 DEF item
<1> QED
  BY <1>2, <1>3, <1>4 DEF Coherent

\* An answer at once.
GivesNamed == exchange.native => \A index \in DOMAIN answer : answer[index].id = Provided(index)

\* What an answer given at once aggregates.
LEMMA AtOnceCoherent ==
  ASSUME GotAtOnce, AnswerKinds, GivesNamed
  PROVE  Coherent(encoder, exchange.number)
<1> DEFINE read == ReadOf(answer)
<1>1. /\ DOMAIN read = {i \in DOMAIN answer : IsRead(answer, i)} /\ DOMAIN encoder.items = DOMAIN read
  BY DEF GotAtOnce, ReadOf
<1>2. DOMAIN encoder.items \in SUBSET Nat /\ IsFiniteSet(DOMAIN encoder.items)
  BY DEF GotAtOnce, GivenAtOnce
<1>3. ASSUME NEW index \in DOMAIN encoder.items
      PROVE  /\ encoder.items[index] = Item(encoder.items[index].kind, encoder.items[index].id, encoder.items[index].parts, Nothing)
             /\ encoder.items[index].kind \in GivenKinds
             /\ encoder.items[index].kind = "reasoning" => encoder.items[index].id = [of |-> exchange.number, n |-> index]
  <2> DEFINE item == encoder.items[index]
             given == answer[index]
  <2>1. /\ index \in DOMAIN answer /\ IsRead(answer, index) /\ item = Item(given.kind, item.id, given.parts, Nothing)
        /\ item.id = StartId(index, given.id) /\ given.kind \in GivenKinds
    BY <1>1 DEF GotAtOnce, AnswerKinds
  <2>2. given.kind = "reasoning" => exchange.native
    BY <2>1 DEF IsRead
  <2>3. exchange.native => item.id = [of |-> exchange.number, n |-> index]
    <3> SUFFICES ASSUME exchange.native PROVE item.id = [of |-> exchange.number, n |-> index]
      OBVIOUS
    <3>1. given.id = [of |-> exchange.number, n |-> index]
      BY <2>1 DEF GivesNamed, Provided, Now
    <3>2. index \in Nat
      BY <1>2
    <3>3. [of |-> exchange.number, n |-> index] # Unnamed
      <4>1. [of |-> exchange.number, n |-> index].n = index /\ Unnamed.n = -1
        BY DEF Unnamed
      <4> QED  BY <3>2, <4>1
    <3> QED  BY <2>1, <3>1, <3>3 DEF StartId
  <2> HIDE DEF item, given
  <2>4. item = Item(item.kind, item.id, item.parts, Nothing) /\ item.kind \in GivenKinds /\ item.kind = given.kind
    BY <2>1, ItemIs
  <2> QED  BY <2>2, <2>3, <2>4 DEF item
<1> QED
  BY <1>2, <1>3 DEF Coherent

\* The same, of the next state.
LEMMA AtOnceNextCoherent == (GotAtOnce /\ AnswerKinds /\ GivesNamed => Coherent(encoder, exchange.number))'
BY AtOnceCoherent, PTL

\* What is said in answer, as the client remembers it.
Replied(protocol, items) ==
  IF protocol = "anthropic" THEN <<Message("assistant", items)>>
  ELSE [i \in DOMAIN items |-> Message("assistant", <<items[i]>>)]

\* The answer's items are those of its messages.
LEMMA RepliedMessages ==
  ASSUME NEW protocol, NEW items, IsSeq(items), Unmixed(items)
  PROVE  /\ UnmixedAll(Replied(protocol, items)) /\ HasContent(Replied(protocol, items))
         /\ Contents(Replied(protocol, items)) = items
<1> DEFINE more == Replied(protocol, items)
<1>1. CASE protocol = "anthropic"
  <2>1. more = <<Message("assistant", items)>>
    BY <1>1 DEF Replied
  <2> HIDE DEF more
  <2> QED  BY <2>1, OneMessage DEF more
<1>2. CASE protocol # "anthropic"
  <2>1. DOMAIN more = DOMAIN items /\ more = [i \in DOMAIN items |-> more[i]]
        /\ \A i \in DOMAIN items : more[i] = Message("assistant", <<items[i]>>)
    BY <1>2 DEF Replied
  <2> HIDE DEF more
  <2>2. \A i \in DOMAIN items : \E role : more[i] = Message(role, <<items[i]>>)
    BY <2>1
  <2>3. UnmixedAll(more) /\ Contents(more) = items /\ \A m \in 1..Len(more) : "content" \in DOMAIN more[m]
    BY <2>1, <2>2, EachMessage
  <2> QED  BY <2>3 DEF HasContent, more
<1> QED
  BY <1>1, <1>2

\* What a finished exchange leaves to the client and to the store.
Leaves(blocks, output) ==
  /\ Answered(blocks, exchange.number)
  /\ exchange.protocol = "responses" => output = blocks
  /\ Remember(output) /\ \E view : view.blocks = blocks /\ Recalls(view)
  /\ exchange' = [exchange EXCEPT !.phase = "over"]

\* When an exchange ends what the client remembers of it is what is stored.
LEMMA Concludes ==
  ASSUME KeptInv, StoredOnce, exchange.phase = "streaming", NEW blocks, NEW output, Leaves(blocks, output)
  PROVE  KeptInv'
<1> DEFINE n == exchange.number
           items == InOrder(blocks)
           more == Replied(exchange.protocol, items)
           memory == exchange.memory \o more
           entry == [protocol |-> exchange.protocol, id |-> exchange.id, calls |-> OfKind(items, {"call"}), memory |-> memory]
           record == [some |-> TRUE, messages |-> exchange.messages \o MessagesFromOutput(output),
                      fidelity |-> FidelityForStorage(exchange.fidelity, output)]
           kept == exchange.protocol = "responses" /\ exchange.keep
<1>1. /\ past' = Append(past, entry) /\ exchange' = [exchange EXCEPT !.phase = "over"]
      /\ stored' = IF kept THEN [stored EXCEPT ![exchange.id] = record] ELSE stored
      /\ Answered(blocks, n) /\ (exchange.protocol = "responses" => output = blocks)
  <2>1. PICK view : view.blocks = blocks /\ Recalls(view)
    BY DEF Leaves
  <2>2. past' = Append(past, entry)
    BY <2>1 DEF Recalls, Replied
  <2>3. stored' = IF kept THEN [stored EXCEPT ![exchange.id] = record] ELSE stored
    BY Zenon DEF Leaves, Remember
  <2> HIDE DEF entry, record, kept
  <2>4. /\ exchange' = [exchange EXCEPT !.phase = "over"]
        /\ Answered(blocks, n) /\ (exchange.protocol = "responses" => output = blocks)
    BY DEF Leaves
  <2> QED  BY <2>2, <2>3, <2>4
<1>2. /\ n \in Nat \ {0} /\ n \in 0..MaxTurns /\ exchange.id = n /\ DOMAIN stored = 0..MaxTurns /\ ~stored[n].some
      /\ Sound(exchange.memory, n - 1)
      /\ exchange.protocol = "responses" =>
           /\ UnmixedAll(exchange.memory)
           /\ Carried(exchange.messages, exchange.fidelity.artifacts, exchange.memory, n - 1)
      /\ IsSeq(past) /\ \A i \in 1..Len(past) : PastOf(past[i], stored, n) /\ past[i].id # n
  BY DEF KeptInv, StoredOnce
<1>3. IsSeq(items) /\ AddedBy(ItemsOf(items), n) /\ Unmixed(items)
  <2> HIDE DEF n
  <2>1. IsSeq(items) /\ AddedBy(ItemsOf(items), n)
    BY <1>1, AnsweredItems
  <2>2. Unmixed(items)
    BY <2>1 DEF AddedBy, ItemsOf, Unmixed
  <2> QED  BY <2>1, <2>2
<1>4. UnmixedAll(more) /\ HasContent(more) /\ Contents(more) = items
  <2> DEFINE protocol == exchange.protocol
             listed == items
  <2> HIDE DEF listed
  <2>1. IsSeq(listed) /\ Unmixed(listed)
    BY <1>3 DEF listed
  <2>2. \A p : UnmixedAll(Replied(p, listed)) /\ HasContent(Replied(p, listed)) /\ Contents(Replied(p, listed)) = listed
    BY <2>1, RepliedMessages
  <2>3. UnmixedAll(Replied(protocol, listed)) /\ HasContent(Replied(protocol, listed)) /\ Contents(Replied(protocol, listed)) = listed
    BY <2>2
  <2> QED  BY <2>3 DEF listed
<1> DEFINE old == exchange.memory
           messages == exchange.messages
           fidelity == exchange.fidelity
<1>5. Sound(old \o more, n)
  <2>1. Sound(old, n - 1)
    BY <1>2
  <2>2. MessagesSeq(more)
    BY <1>4 DEF UnmixedAll
  <2> HIDE DEF old, n, items, more
  <2> QED  BY <1>2, <1>3, <1>4, <2>1, <2>2, SoundAdded
<1>6. exchange.protocol = "responses" =>
        UnmixedAll(old \o more) /\ Carried(record.messages, record.fidelity.artifacts, old \o more, n)
  <2> SUFFICES ASSUME exchange.protocol = "responses"
               PROVE  UnmixedAll(old \o more) /\ Carried(record.messages, record.fidelity.artifacts, old \o more, n)
    OBVIOUS
  <2>0. UnmixedAll(old) /\ UnmixedAll(more) /\ MessagesSeq(more)
    BY <1>2, <1>4 DEF UnmixedAll
  <2>1. /\ Sound(old, n - 1) /\ Carried(messages, fidelity.artifacts, old, n - 1) /\ output = blocks
        /\ Contents(more) = InOrder(output) /\ Answered(output, n)
    BY <1>1, <1>2, <1>4
  <2>2. /\ record.messages = messages \o MessagesFromOutput(output)
        /\ record.fidelity.artifacts = FidelityForStorage(fidelity, output).artifacts
    OBVIOUS
  <2> HIDE DEF old, n, items, more, messages, fidelity, record
  <2>3. Carried(messages \o MessagesFromOutput(output), FidelityForStorage(fidelity, output).artifacts, old \o more, n)
    BY <1>2, <1>4, <2>0, <2>1, StoredCarried
  <2>4. UnmixedAll(old \o more)
    BY <2>0, UnmixedJoined
  <2> QED  BY <2>2, <2>3, <2>4
<1>7. IsSeq(entry.calls) /\ entry.id = n /\ entry.memory = old \o more /\ entry.protocol = exchange.protocol
  <2> HIDE DEF items
  <2>1. IsSeq(OfKind(items, {"call"}))
    BY <1>3, KindItems
  <2> QED  BY <1>2, <2>1
<1>8. PastOf(entry, stored', n)
  <2>1. entry.protocol = "responses" /\ stored'[n].some => stored'[n] = record
    <3> HIDE DEF record, n
    <3> QED  BY <1>1, <1>2
  <2> HIDE DEF entry, record, n, old, more
  <2>2. n \in 1..n
    BY <1>2
  <2> QED  BY <1>5, <1>6, <1>7, <2>1, <2>2 DEF PastOf
<1>9. \A i \in 1..Len(past) : PastOf(past[i], stored', n)
  <2> SUFFICES ASSUME NEW i \in 1..Len(past) PROVE PastOf(past[i], stored', n)
    OBVIOUS
  <2> HIDE DEF record, n
  <2>1. PastOf(past[i], stored, n) /\ n # past[i].id
    BY <1>2
  <2>2. CASE kept
    <3>1. stored' = [stored EXCEPT ![n] = record]
      BY <1>1, <1>2, <2>2
    <3> DEFINE earlier == past[i]
    <3>2. PastOf(earlier, stored, n) /\ n # earlier.id
      BY <2>1
    <3> HIDE DEF earlier
    <3>3. PastOf(earlier, [stored EXCEPT ![n] = record], n)
      BY <1>2, <3>2, PastApart
    <3> QED  BY <3>1, <3>3 DEF earlier
  <2>3. CASE ~kept
    <3>1. stored' = stored
      BY <1>1, <2>3
    <3> QED  BY <2>1, <3>1
  <2> QED  BY <2>2, <2>3
<1> HIDE DEF entry
<1>10. IsSeq(past') /\ \A i \in 1..Len(past') : PastOf(past'[i], stored', n)
  <2>1. past' = past \o <<entry>> /\ IsSeq(past')
    <3>1. PICK S : past \in Seq(S)
      BY <1>2 DEF IsSeq
    <3>2. past \in Seq(S \cup {entry})
      BY <3>1
    <3>3. Append(past, entry) \in Seq(S \cup {entry}) /\ Append(past, entry) = past \o <<entry>>
      BY <3>2
    <3> QED  BY <1>1, <3>3 DEF IsSeq
  <2>2. /\ Len(past') = Len(past) + 1 /\ Len(past) \in Nat
        /\ \A i \in 1..Len(past) : past'[i] = past[i]
        /\ past'[Len(past) + 1] = entry
    <3>1. PICK S : past \in Seq(S)
      BY <1>2 DEF IsSeq
    <3>2. past \in Seq(S \cup {entry})
      BY <3>1
    <3> QED  BY <1>1, <3>2
  <2>3. ASSUME NEW i \in 1..Len(past') PROVE PastOf(past'[i], stored', n)
    <3>1. i \in 1..Len(past) \/ i = Len(past) + 1
      BY <2>2
    <3> HIDE DEF n
    <3> QED  BY <1>8, <1>9, <2>2, <3>1
  <2> QED  BY <2>1, <2>3
<1>11. /\ exchange'.phase = "over" /\ exchange'.number = n /\ DOMAIN exchange' = DOMAIN exchange
  BY <1>1 DEF KeptInv
<1> HIDE DEF n
<1> QED
  BY <1>2, <1>10, <1>11 DEF KeptInv, n

-----------------------------------------------------------------------------
(* Every step. *)

\* An exchange that goes on or ends stays the same exchange.
SameExchange ==
  /\ DOMAIN exchange' = DOMAIN exchange
  /\ exchange'.memory = exchange.memory /\ exchange'.wire = exchange.wire /\ exchange'.native = exchange.native
  /\ exchange'.messages = exchange.messages /\ exchange'.fidelity = exchange.fidelity
  /\ exchange'.sent = exchange.sent /\ exchange'.number = exchange.number /\ exchange'.protocol = exchange.protocol
  /\ exchange'.phase # "over" => exchange.phase # "over"

Proceeds(phase, commitment, id) ==
  \/ exchange' = exchange
  \/ exchange' = [exchange EXCEPT !.phase = phase]
  \/ exchange' = [exchange EXCEPT !.phase = phase, !.commitment = commitment]
  \/ exchange' = [exchange EXCEPT !.phase = phase, !.id = id]

\* The steps of an exchange change nothing else of it.
LEMMA SameFields ==
  ASSUME KeptInv, exchange.phase # "over", NEW phase, NEW commitment, NEW id, Proceeds(phase, commitment, id)
  PROVE  SameExchange
BY DEF Proceeds, KeptInv, SameExchange

\* What was posted stays so.
LEMMA SameKept ==
  ASSUME SameExchange
  PROVE  ConversationKept => ConversationKept'
<1>1. SentItems' = SentItems /\ Posted' = Posted
  BY DEF SameExchange, SentItems, Posted
<1>2. HistoryReplayed => HistoryReplayed'
  BY <1>1 DEF SameExchange, HistoryReplayed
<1>3. RequiredNeverDropped => RequiredNeverDropped'
  BY <1>1 DEF SameExchange, RequiredNeverDropped
<1> QED
  BY <1>2, <1>3 DEF ConversationKept

\* So does what is remembered, until an exchange ends.
LEMMA QuietKept ==
  ASSUME KeptInv, SameExchange, past' = past, stored' = stored
  PROVE  KeptInv'
BY DEF KeptInv, SameExchange

\* What passes through.
LEMMA PassesKept ==
  ASSUME KeptInv, exchange.phase = "streaming", NEW step, Passes(step), past' = past, stored' = stored
  PROVE  KeptInv' /\ SameExchange
<1>1. exchange' = exchange \/ exchange' = [exchange EXCEPT !.phase = "over", !.commitment = step.state.commitment]
  BY Zenon DEF Passes
<1>2. Proceeds("over", step.state.commitment, 0)
  BY <1>1, Zenon DEF Proceeds
<1>3. SameExchange
  BY <1>2, SameFields
<1> QED
  BY <1>3, QuietKept

\* The end of a body.
LEMMA BodyEndsKept ==
  ASSUME WholeInv, AnswerKinds, KeptInv, StoredOnce, exchange.stream, exchange.phase = "streaming",
         NEW step, step.throws \/ adapter.completed, BodyEnds(step)
  PROVE  KeptInv' /\ SameExchange
<1>1. CASE step.throws \/ ~Finish(encoder)
  <2> DEFINE thrown == [step EXCEPT !.throws = TRUE]
  <2>1. Passes(thrown) /\ past' = past /\ stored' = stored
    BY <1>1 DEF BodyEnds
  <2> HIDE DEF thrown
  <2> QED  BY <2>1, PassesKept
<1>2. CASE ~(step.throws \/ ~Finish(encoder))
  <2> DEFINE output == FinalizeAggregate(encoder)
             blocks == client.blocks
  <2>1. /\ exchange' = [exchange EXCEPT !.phase = "over"] /\ Remember(output) /\ Recalls(client)
    BY <1>2 DEF BodyEnds
  <2>2. exchange.number \in Nat \ {0}
    BY DEF KeptInv, StoredOnce
  <2>3. /\ Coherent(encoder, exchange.number)
        /\ blocks = IF exchange.protocol = "responses" THEN output ELSE encoder.items
    BY <1>2, <2>2, StreamedCoherent
  <2>4. Answered(encoder.items, exchange.number) /\ Answered(output, exchange.number)
    BY <2>2, <2>3, CoherentAnswered
  <2>5. Leaves(blocks, output)
    <3>1. \E view : view.blocks = blocks /\ Recalls(view)
      BY <2>1
    <3> HIDE DEF blocks, output
    <3>2. Answered(blocks, exchange.number) /\ (exchange.protocol = "responses" => output = blocks)
      BY <2>3, <2>4
    <3> QED  BY <2>1, <3>1, <3>2 DEF Leaves
  <2>6. KeptInv'
    <3> HIDE DEF blocks, output
    <3> QED  BY <2>5, Concludes
  <2>7. Proceeds("over", "none", 0)
    BY <2>1, Zenon DEF Proceeds
  <2>8. SameExchange
    BY <2>7, SameFields
  <2> QED  BY <2>6, <2>8
<1> QED
  BY <1>1, <1>2

\* An answer given at once.
LEMMA AnswersKept ==
  ASSUME KeptInv, StoredOnce, exchange.phase = "streaming", NEW step, Answers(step),
         client = NoOne, GotAtOnce', AnswerKinds', GivesNamed'
  PROVE  KeptInv' /\ SameExchange
<1> DEFINE coded == EncodeAll(exchange.protocol, encoder, step.events)
           output == FinalizeAggregate(coded)
           view == [client EXCEPT !.blocks = output, !.ended = "end"]
           blocks == client'.blocks
<1>1. /\ exchange' = [exchange EXCEPT !.phase = "over"] /\ Remember(output) /\ Recalls(client')
      /\ client' = view /\ encoder' = [coded EXCEPT !.frames = <<>>]
  BY DEF Answers
<1>2. exchange.number \in Nat \ {0} /\ exchange'.number = exchange.number
  BY <1>1 DEF KeptInv, StoredOnce
<1>3. Coherent(encoder', exchange.number) /\ blocks = FinalizeAggregate(encoder')
  <2>1. Coherent(encoder', exchange'.number)
    BY AtOnceNextCoherent
  <2>2. blocks = FinalizeAggregate(encoder')
    BY DEF GotAtOnce
  <2> QED  BY <1>2, <2>1, <2>2
<1>4. output = blocks
  <2> HIDE DEF output
  <2> QED  BY <1>1 DEF NoOne
<1>5. Answered(blocks, exchange.number) /\ output = blocks
  <2> DEFINE held == encoder'
  <2>1. Coherent(held, exchange.number)
    BY <1>3
  <2> HIDE DEF held
  <2>2. Answered(FinalizeAggregate(held), exchange.number)
    BY <1>2, <2>1, CoherentAnswered
  <2> HIDE DEF output
  <2> QED  BY <1>3, <1>4, <2>2 DEF held
<1>6. Leaves(blocks, output)
  <2>1. \E v : v.blocks = blocks /\ Recalls(v)
    BY <1>1
  <2> HIDE DEF blocks, output
  <2> QED  BY <1>1, <1>5, <2>1 DEF Leaves
<1>7. KeptInv'
  <2> HIDE DEF blocks, output
  <2> QED  BY <1>6, Concludes
<1>8. Proceeds("over", "none", 0)
  BY <1>1, Zenon DEF Proceeds
<1>9. SameExchange
  BY <1>8, SameFields
<1> QED
  BY <1>7, <1>9

\* Every step of a stream keeps what is remembered and what was posted.
LEMMA StreamsKept ==
  ASSUME WholeInv, AnswerKinds, KeptInv, StoredOnce,
         ChatSaysMore \/ ChatCalls \/ ChatFinishes \/ ChatUsageLate \/ ChatEnds \/ RailStarts \/ RailAdds
           \/ RailSaysMore \/ RailFinishesItem \/ RailCompletes \/ RailFails \/ RailEnds
  PROVE  KeptInv' /\ SameExchange
<1>1. CASE ChatEnds
  <2> DEFINE step == ChatEnd(adapter)
  <2>1. exchange.phase = "streaming" /\ exchange.stream /\ BodyEnds(step)
    BY <1>1 DEF ChatEnds, Answering
  <2>2. step.throws \/ adapter.completed
    BY DEF ChatEnd, Throws
  <2> HIDE DEF step
  <2> QED  BY <2>1, <2>2, BodyEndsKept
<1>2. CASE RailEnds
  <2> DEFINE step == RailEnd(adapter)
  <2>1. exchange.phase = "streaming" /\ exchange.stream /\ BodyEnds(step)
    BY <1>2 DEF RailEnds, Answering
  <2>2. step.throws \/ adapter.completed
    BY DEF RailEnd, Throws
  <2> HIDE DEF step
  <2> QED  BY <2>1, <2>2, BodyEndsKept
<1>3. CASE ChatSaysMore \/ ChatCalls \/ ChatFinishes \/ ChatUsageLate \/ RailStarts \/ RailAdds
           \/ RailSaysMore \/ RailFinishesItem \/ RailCompletes \/ RailFails
  <2>1. exchange.phase = "streaming" /\ past' = past /\ stored' = stored /\ \E step : Passes(step)
    <3>1. CASE ChatSaysMore
      BY <3>1 DEF ChatSaysMore, Answering, Receives
    <3>2. CASE ChatCalls
      BY <3>2 DEF ChatCalls, Answering, Receives
    <3>3. CASE ChatFinishes \/ ChatUsageLate
      BY <3>3 DEF ChatFinishes, ChatUsageLate, Answering, Receives
    <3>4. CASE RailStarts \/ RailCompletes \/ RailFails
      BY <3>4 DEF RailStarts, RailCompletes, RailFails, Answering, Receives
    <3>5. CASE RailAdds
      <4>1. exchange.phase = "streaming"
        BY <3>5 DEF RailAdds, Answering
      <4>2. \E index, item : Receives(RailAdded(adapter, index, item))
        BY <3>5, Zenon DEF RailAdds
      <4> QED  BY <4>1, <4>2 DEF Receives
    <3>6. CASE RailSaysMore \/ RailFinishesItem
      BY <3>6 DEF RailSaysMore, RailFinishesItem, Answering, Receives
    <3> QED  BY <1>3, <3>1, <3>2, <3>3, <3>4, <3>5, <3>6
  <2> QED  BY <2>1, PassesKept
<1> QED
  BY <1>1, <1>2, <1>3

\* So does what becomes of the post.
LEMMA PostsKept ==
  ASSUME KeptInv, PostSucceeds \/ \E failure \in Failures : PostFails(failure)
  PROVE  KeptInv' /\ SameExchange
<1>1. CASE PostSucceeds
  <2>1. PICK id : exchange' = [exchange EXCEPT !.phase = "streaming", !.id = id]
    BY <1>1, Zenon DEF PostSucceeds
  <2>2. exchange.phase = "posted" /\ past' = past /\ stored' = stored
    BY <1>1, Zenon DEF PostSucceeds
  <2>3. Proceeds("streaming", "none", id)
    BY <2>1, Zenon DEF Proceeds
  <2>4. SameExchange
    BY <2>2, <2>3, SameFields
  <2> QED  BY <2>2, <2>4, QuietKept
<1>2. ASSUME NEW failure \in Failures, PostFails(failure)
      PROVE  KeptInv' /\ SameExchange
  <2>1. exchange' = [exchange EXCEPT !.phase = "over", !.commitment = FailureCommitment(failure)]
    BY <1>2, Zenon DEF PostFails
  <2>2. exchange.phase = "posted" /\ past' = past /\ stored' = stored
    BY <1>2, Zenon DEF PostFails
  <2>3. Proceeds("over", FailureCommitment(failure), 0)
    BY <2>1, Zenon DEF Proceeds
  <2>4. SameExchange
    BY <2>2, <2>3, SameFields
  <2> QED  BY <2>2, <2>4, QuietKept
<1> QED
  BY <1>1, <1>2

\* And so does an answer given at once.
LEMMA AllAtOnceKept ==
  ASSUME WholeInv, AtOnceInv, AnswerKinds, KeptInv, StoredOnce, ChatAnswers \/ RailAnswers
  PROVE  KeptInv' /\ SameExchange
<1>1. exchange.phase = "streaming" /\ ~exchange.stream /\ client = NoOne
  BY ChatGives DEF RailAnswers, AtOnceInv
<1>2. AnswerKinds'
  BY AtOnceKinds
<1>3. \E step : Answers(step)
  <2>1. CASE ChatAnswers
    BY <2>1, ChatGives
  <2>2. CASE RailAnswers
    BY <2>2, Zenon DEF RailAnswers
  <2> QED  BY <2>1, <2>2
<1>4. exchange' = [exchange EXCEPT !.phase = "over"]
  BY <1>3 DEF Answers
<1>5. exchange'.native = exchange.native /\ exchange'.number = exchange.number
  BY <1>4 DEF WholeInv, ExchangeKnown
<1>6. GotAtOnce' /\ GivesNamed'
  <2>1. CASE ChatAnswers
    <3>1. ~exchange.native
      BY <2>1, ChatGives
    <3> QED  BY <1>5, <2>1, <3>1, ChatAnswersAtOnce DEF WholeInv, GivesNamed
  <2>2. CASE RailAnswers
    <3>1. GotAtOnce' /\ \A index \in DOMAIN answer' : answer'[index].id = Provided(index)
      BY <2>2, RailAnswersAtOnce DEF WholeInv
    <3>2. \A index : Provided(index)' = Provided(index)
      BY <1>5 DEF Provided, Now
    <3> QED  BY <3>1, <3>2 DEF GivesNamed
  <2> QED  BY <2>1, <2>2
<1> QED
  BY <1>1, <1>2, <1>3, <1>6, AnswersKept

\* Every step keeps what is said of the conversation.
LEMMA KeptNext ==
  ASSUME WholeInv, AtOnceInv, AnswerKinds, StoredOnce, KeptInv, ConversationKept,
         [ConversationNext]_conversationVars
  PROVE  KeptInv' /\ ConversationKept'
<1>1. CASE Asks
  BY <1>1, AsksKept
<1>2. ASSUME KeptInv' /\ SameExchange
      PROVE  KeptInv' /\ ConversationKept'
  BY <1>2, SameKept
<1>3. CASE PostSucceeds \/ \E failure \in Failures : PostFails(failure)
  BY <1>2, <1>3, PostsKept
<1>4. CASE ChatSaysMore \/ ChatCalls \/ ChatFinishes \/ ChatUsageLate \/ ChatEnds \/ RailStarts \/ RailAdds
           \/ RailSaysMore \/ RailFinishesItem \/ RailCompletes \/ RailFails \/ RailEnds
  BY <1>2, <1>4, StreamsKept
<1>5. CASE ChatAnswers \/ RailAnswers
  BY <1>2, <1>5, AllAtOnceKept
<1>6. CASE UNCHANGED conversationVars
  <2>1. past' = past /\ stored' = stored /\ exchange' = exchange
    BY <1>6 DEF conversationVars
  <2>2. SameExchange
    BY <2>1 DEF SameExchange
  <2> QED  BY <1>2, <2>1, <2>2, QuietKept
<1> QED
  BY <1>1, <1>3, <1>4, <1>5, <1>6 DEF ConversationNext

\* The provider is sent the whole conversation as the client knows it, each item
\* once, in order and with its own opaque value, whether the client resends it or
\* names a stored response, whether it leaves the ids out of its reasoning or says
\* something beside its results, over any number of exchanges, either protocol and
\* either rail (the decoders, Apply, FidelityForStorage and the payloads), but for
\* what its protocol cannot be told: reasoning, and what is said beside a result,
\* of a chat provider; the opaque value of reasoning without an id, on the rail.
\* And any other opaque value the client sent reaches the provider, or the request
\* fails.  An item is announced with its final opaque value, every provider names
\* its responses, and no call has the index of the reasoning.
THEOREM HistoryIsKept ==
  ASSUME ~Drafts, ~Anonymous, SlotsApart
  PROVE  ConversationSpec => []ConversationKept
<1> DEFINE Inv == CommitmentTold /\ StoredOnce /\ WholeInv /\ AtOnceInv /\ AnswerKinds /\ KeptInv /\ ConversationKept
<1>1. ConversationInit => Inv
  <2> SUFFICES ASSUME ConversationInit
               PROVE  Inv
    OBVIOUS
  <2>1. CommitmentTold /\ StoredOnce /\ WholeInv
    BY CommitmentKept, StoredOnceKept, WholeInit
  <2>2. AtOnceInv
    BY DEF ConversationInit, NoExchange, AtOnceInv
  <2>3. AnswerKinds
    BY DEF ConversationInit, AnswerKinds
  <2>4. KeptInv
    <3>1. IsSeq(<<>>) /\ 1..Len(<<>>) = {}
      BY LeadsNowhere
    <3> QED  BY <3>1, ConversationAssumption DEF ConversationInit, NoExchange, KeptInv
  <2>5. ConversationKept
    <3>1. exchange.sent = <<>>
      BY DEF ConversationInit, NoExchange
    <3> QED  BY <3>1 DEF ConversationKept, HistoryReplayed, RequiredNeverDropped, Posted
  <2> QED  BY <2>1, <2>2, <2>3, <2>4, <2>5
<1>2. Inv /\ [ConversationNext]_conversationVars => Inv'
  <2> SUFFICES ASSUME Inv, [ConversationNext]_conversationVars
               PROVE  Inv'
    OBVIOUS
  <2>1. CommitmentTold' /\ StoredOnce'
    BY CommitmentKept, StoredOnceKept
  <2>2. WholeInv' /\ AtOnceInv' /\ AnswerKinds'
    BY WholeNext, AtOnceNext, KindsNext
  <2>3. KeptInv' /\ ConversationKept'
    BY KeptNext
  <2> QED  BY <2>1, <2>2, <2>3
<1>3. Inv => ConversationKept
  OBVIOUS
<1> HIDE DEF Inv
<1> QED
  BY <1>1, <1>2, <1>3, PTL DEF ConversationSpec

=============================================================================
