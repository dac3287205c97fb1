---------------------------- MODULE RequestStream ----------------------------
(***************************************************************************)
(* A streamed request: the pool's generator of PoolRouting, the pump that  *)
(* turns its events into frames (src/routes/stream-pump.ts), and the       *)
(* stream's timers and client signal (src/routes/stream-lifecycle.ts).     *)
(*                                                                         *)
(* The pump asks the generator for an event, writes the event's frame, and *)
(* asks again only once the client took the frame: the event under way     *)
(* stays at the head of out[r], which suspends the generator.              *)
(***************************************************************************)
EXTENDS PoolRouting

CONSTANT Persists   \* does the route store the finished response (/v1/responses)?

ASSUME StreamAssumption == Persists \in BOOLEAN

VARIABLES
  pump,   \* the pump and the lifecycle of each stream
  seen    \* observation: the events each pump took

stream == <<pump, seen>>
allVars == <<vars, stream>>
untouched == <<pool, accounts, selector, attempts>>

Frame == {"started", "output", "completed", "failed", "error", "timeout"}
Pump == [stage : {"none", "waiting", "writing", "persisting", "closed"},
         terminal : {"none", "completed", "error", "cancelled", "timeout"},
         timer : {"none", "setup", "idle"},
         frames : Seq(Frame),
         stored : BOOLEAN]

\* Types, and what a closed stream has released: its timers and its upstream.
StreamTypeOK ==
  /\ TypeOK
  /\ \A r \in Requests :
       /\ pump[r] \in Pump
       /\ seen[r] \in Seq(Event)
       /\ pump[r].stage = "closed" =>
            /\ pump[r].terminal # "none" /\ pump[r].timer = "none"
            /\ req[r].signal # "open"

StreamInit ==
  /\ Init
  /\ pump = [r \in Requests |-> [stage |-> "none", terminal |-> "none", timer |-> "none",
                                 frames |-> <<>>, stored |-> FALSE]]
  /\ seen = [r \in Requests |-> <<>>]

In(r, stage) == pump[r].stage = stage
Terminated(r) == pump[r].terminal # "none"

\* The generator returned or threw, or the pump waits for it to go on: the
\* event loop serves no timer and no socket before the pump went on itself.
AwaitsUpstream(r) == In(r, "waiting") /\ out[r] = <<>> /\ ~Over(r)
Open(r) == AwaitsUpstream(r) \/ In(r, "writing") \/ In(r, "persisting")

-----------------------------------------------------------------------------
(* The lifecycle. *)

\* The setup timer runs from the creation of the stream to its first event.
Begin(r) ==
  /\ Prepare(r)
  /\ pump' = [pump EXCEPT ![r].stage = "waiting", ![r].timer = "setup"]
  /\ UNCHANGED seen

Terminate(r, kind, why) ==
  /\ ~Terminated(r)
  /\ pump' = [pump EXCEPT ![r].terminal = kind, ![r].timer = "none"]
  /\ Signal(r, why)
  /\ UNCHANGED <<untouched, out, seen>>

TimerFires(r) ==
  /\ Open(r) /\ pump[r].timer # "none"
  /\ Terminate(r, "timeout", "timeout")

ClientLeaves(r) ==
  /\ Open(r)
  /\ Terminate(r, "cancelled", "client")

\* finish: a clean end is not undone by the close of the response.
Outcomes(terminal, cleanEnd) ==
  CASE terminal = "none" -> IF cleanEnd THEN "completed" ELSE "error"
    [] terminal = "cancelled" /\ cleanEnd -> "completed"
    [] OTHER -> terminal

\* The loop's exit returns the generator, wherever it is suspended.
Close(r, cleanEnd, frames, stored) ==
  /\ pump' = [pump EXCEPT ![r].stage = "closed", ![r].timer = "none",
                          ![r].terminal = Outcomes(@, cleanEnd),
                          ![r].frames = @ \o frames, ![r].stored = stored]
  /\ out' = [out EXCEPT ![r] = <<>>]
  /\ req' = [req EXCEPT ![r] = [Ended(IF Over(r) THEN @.stage ELSE "discarded")
                                EXCEPT !.signal = "finished"]]
  /\ UNCHANGED <<untouched, seen>>

BugLastWords(terminal) == IF terminal = "timeout" THEN <<"timeout">> ELSE <<>>

\* The catch block: what the client is told depends on how the stream ended.
LastWords(terminal) ==
  CASE terminal = "cancelled" -> <<>>
    [] terminal = "timeout" -> <<"timeout">>
    [] OTHER -> <<"error">>

Catch(r) == Close(r, FALSE, LastWords(pump[r].terminal), FALSE)

-----------------------------------------------------------------------------
(* The pump. *)

\* noteEvent disarms the timers while the frame is written.
Write(r) ==
  /\ In(r, "waiting") /\ out[r] # <<>> /\ ~Terminated(r)
  /\ pump' = [pump EXCEPT ![r].stage = "writing", ![r].timer = "none",
                          ![r].frames = Append(@, Head(out[r]).kind)]
  /\ seen' = [seen EXCEPT ![r] = Append(@, Head(out[r]))]
  /\ UNCHANGED <<untouched, req, out>>

\* The encoder refuses an event that does not fit its protocol state.
EncoderThrows(r) ==
  /\ In(r, "waiting") /\ out[r] # <<>> /\ ~Terminated(r)
  /\ Catch(r)

\* An event that arrives after the stream was terminated ends the loop.
Break(r) ==
  /\ In(r, "waiting") /\ out[r] # <<>> /\ Terminated(r)
  /\ Close(r, FALSE, <<>>, FALSE)

BugResume(r) ==
  /\ In(r, "writing")
  /\ pump' = [pump EXCEPT ![r].stage = "waiting"]
  /\ out' = [out EXCEPT ![r] = Tail(@)]
  /\ UNCHANGED <<untouched, req, seen>>

\* The client took the frame: the idle timer is armed and the generator resumed.
Resume(r) ==
  /\ In(r, "writing")
  /\ pump' = [pump EXCEPT ![r].stage = "waiting",
                          ![r].timer = IF Terminated(r) THEN "none" ELSE "idle"]
  /\ out' = [out EXCEPT ![r] = Tail(@)]
  /\ UNCHANGED <<untouched, req, seen>>

\* The response closed with the pump suspended at a frame.
Destroyed(r) ==
  /\ In(r, "writing") /\ Terminated(r)
  /\ Close(r, FALSE, <<>>, FALSE)

\* The source ended: the encoder accepts the end, and the response is stored.
SourceReturned(r) ==
  /\ In(r, "waiting") /\ Over(r) /\ req[r].stage = "returned"
  /\ IF Terminated(r) THEN Close(r, FALSE, <<>>, FALSE)
     ELSE /\ pump' = [pump EXCEPT ![r].stage = "persisting"]
          /\ UNCHANGED <<vars, seen>>

FinishThrows(r) ==
  /\ In(r, "waiting") /\ Over(r) /\ req[r].stage = "returned" /\ ~Terminated(r)
  /\ Catch(r)

SourceThrew(r) ==
  /\ In(r, "waiting") /\ Over(r) /\ req[r].stage = "thrown"
  /\ Catch(r)

Persisted(r) ==
  /\ In(r, "persisting")
  /\ Close(r, TRUE, <<>>, Persists)

PersistFails(r) ==
  /\ In(r, "persisting") /\ Persists
  /\ Catch(r)

-----------------------------------------------------------------------------
Pumping(r) ==
  \/ Write(r)
  \/ EncoderThrows(r)
  \/ Break(r)
  \/ Destroyed(r)
  \/ SourceReturned(r)
  \/ FinishThrows(r)
  \/ SourceThrew(r)
  \/ Persisted(r)
  \/ PersistFails(r)

StreamNext ==
  \/ Outside /\ UNCHANGED stream
  \/ \E r \in Requests :
       \/ Begin(r)
       \/ Gateway(r) /\ UNCHANGED stream
       \/ Provider(r) /\ UNCHANGED stream
       \/ Pumping(r)
       \/ Resume(r)
       \/ TimerFires(r)
       \/ ClientLeaves(r)

StreamSpec == StreamInit /\ [][StreamNext]_allVars

\* The gateway's own steps are taken, an armed timer fires, and a client that
\* stops reading goes away; the provider need not do anything.
StreamFairness ==
  \A r \in Requests :
    /\ WF_allVars(Gateway(r) /\ UNCHANGED stream)
    /\ WF_allVars(Pumping(r))
    /\ WF_allVars(TimerFires(r))
    /\ WF_allVars(Resume(r) \/ (In(r, "writing") /\ ClientLeaves(r)))

FairStreamSpec == StreamSpec /\ StreamFairness

-----------------------------------------------------------------------------
(* Properties. *)

Speaks(r) == pump[r].frames # <<>>
LastFrame(r) == pump[r].frames[Len(pump[r].frames)]

\* The consumer sees the events of one attempt, in order and without gap or
\* repetition, all of them up to the terminal one if the stream returned.
OneAttemptVisible ==
  \A r \in Requests :
    /\ \A i \in DOMAIN seen[r] : seen[r][i].n = i /\ seen[r][i].attempt = Number(r)
    /\ At(r, "returned") /\ In(r, "persisting") => seen[r][Len(seen[r])].kind = "completed"

\* A stream reported completed, or stored for continuation, is the whole of one
\* attempt that recorded success, every event of it framed.
CompletedIsWhole ==
  \A r \in Requests :
    pump[r].terminal = "completed" \/ pump[r].stored =>
      /\ req[r].stage = "returned"
      /\ Current(r).outcomes = <<"success">>
      /\ Len(pump[r].frames) = Len(seen[r])
      /\ LastFrame(r) = "completed"

\* What is shown, and what is reported complete, is one whole attempt.
WholeAttemptShown == OneAttemptVisible /\ CompletedIsWhole

\* A client that stays and whose stream did not time out is told how it ended,
\* once and last.
EndIsTold ==
  \A r \in Requests :
    /\ \A i \in 1..(Len(pump[r].frames) - 1) : pump[r].frames[i] \notin {"error", "timeout"}
    /\ In(r, "closed") /\ pump[r].terminal \in {"completed", "error"} =>
         Speaks(r) /\ LastFrame(r) \in {"completed", "error"}

\* Nothing is written to a client once its disconnect was noticed.
SilentAfterCancel ==
  [][\A r \in Requests :
       pump[r].terminal = "cancelled" => pump'[r].frames = pump[r].frames]_allVars

\* Every stream that began closes, a silent provider or client notwithstanding.
StreamCloses == \A r \in Requests : In(r, "waiting") ~> In(r, "closed")

\* A stream always ends, and a client that left hears nothing of it.
EveryStreamEnds == StreamCloses /\ SilentAfterCancel

\* A timeout emits one in-band error frame while the client is connected.
TimeoutAnswered ==
  \A r \in Requests :
    In(r, "closed") /\ pump[r].terminal = "timeout" =>
      Speaks(r) /\ LastFrame(r) = "timeout"
==============================================================================
