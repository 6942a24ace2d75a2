--------------------------- MODULE PlaygroundChat ---------------------------
(***************************************************************************)
(* One chat of the playground: the request and its generation counter      *)
(* (web/src/features/playground/hooks/use-chat-handler.ts), the stream     *)
(* controller under it (use-stream-request.ts) and the message list they   *)
(* update (use-playground-state.ts).                                       *)
(*                                                                         *)
(* JavaScript handlers are atomic.  What they hand to setMessages is not:  *)
(* React runs an updater at once when the component has no update waiting, *)
(* or else when it next renders, after whatever handlers run in between.   *)
(*                                                                         *)
(* A request is known by its generation.  The controller's own counter     *)
(* moves whenever that of the chat does, so ctl is the generation of its   *)
(* last send, 0 after a cancel.  A stream delivers deltas, texts of a few  *)
(* letters; a letter remembers its place in its stream.  The reasoning has *)
(* a buffer of its own, which the code treats as it does the content.      *)
(***************************************************************************)
EXTENDS Naturals, Sequences

CONSTANTS
  MaxGen,     \* bound on requestGenerationRef
  MaxText,    \* bound on the letters of a stream
  Char,       \* the letters
  Delta       \* what one event of a stream may carry

ASSUME PlaygroundChatAssumption ==
  /\ MaxGen \in Nat \ {0} /\ MaxText \in Nat
  /\ Delta \subseteq Seq(Char) \ {<<>>}

VARIABLES
  gen,           \* requestGenerationRef
  pending,       \* pendingStreamChunksRef
  timer,         \* streamFlushTimerRef: the generation it flushes, or 0
  ctl,           \* the send the controller is working for, or 0
  source,        \* the event source of the controller: its request, or 0
  request,       \* what became of each request, the text it delivered,
                 \* and whether the user stopped it
  isRequesting, isStreaming,
  queue,         \* updaters React has not run
  dirty,         \* the component has updates to render
  message,       \* the last assistant message
  generating,    \* isGenerating as rendered
  mounted

vars == <<gen, pending, timer, ctl, source, request, isRequesting, isStreaming,
          queue, dirty, message, generating, mounted>>

Gen == 1..MaxGen
Letter == [of : Gen, n : Nat, ch : Char]

(* silent: a 200 response that ended without [DONE].                       *)
RequestPc == {"none", "headers", "open", "xhr", "done", "failed", "silent"}
Status == {"none", "loading", "streaming", "complete", "error"}
Updater == [kind : {"replace", "flush", "complete", "finish", "answer", "error"},
            gen : Gen, text : Seq(Letter)]

(* The state space.  A timer flushes the generation of now, and the        *)
(* controller's source belongs to its last send: else a later chunk would  *)
(* never be scheduled, or a closed source would count as current.          *)
TypeOK ==
  /\ gen \in 0..MaxGen /\ ctl \in 0..MaxGen
  /\ timer \in {0, gen}
  /\ source \in {0, ctl}
  /\ pending \in [gen : 0..MaxGen, text : Seq(Letter)]
  /\ request \in [Gen -> [pc : RequestPc, text : Seq(Char), stopped : BOOLEAN]]
  /\ queue \in Seq(Updater)
  /\ message \in [owner : 0..MaxGen, text : Seq(Letter), status : Status]
  /\ isRequesting \in BOOLEAN /\ isStreaming \in BOOLEAN /\ dirty \in BOOLEAN
  /\ generating \in BOOLEAN /\ mounted \in BOOLEAN

Init ==
  /\ gen = 0 /\ ctl = 0 /\ source = 0 /\ timer = 0
  /\ pending = [gen |-> 0, text |-> <<>>]
  /\ request = [g \in Gen |-> [pc |-> "none", text |-> <<>>, stopped |-> FALSE]]
  /\ isRequesting = FALSE /\ isStreaming = FALSE
  /\ queue = <<>> /\ dirty = FALSE
  /\ message = [owner |-> 0, text |-> <<>>, status |-> "none"]
  /\ generating = FALSE /\ mounted = TRUE

-----------------------------------------------------------------------------
(* updateMessages.                                                         *)

Up(kind, g, text) == [kind |-> kind, gen |-> g, text |-> text]

isFinal(m) == m.status \in {"complete", "error"}
isPending(m) == m.status \in {"loading", "streaming"}

StartsWith(next, current) ==
  /\ Len(current) =< Len(next)
  /\ \A i \in 1..Len(current) : next[i].ch = current[i].ch

(* mergePendingStreamChunk.  A next text that starts with the current one  *)
(* is taken to be cumulative and replaces it.  applyStreamingChunk comes   *)
(* to the same: getAppendableChunk cuts off the part the message has.      *)
Merge(current, next) ==
  IF current # <<>> /\ StartsWith(next, current) THEN next ELSE current \o next

(* What an updater makes of message m when it runs in generation g.        *)
Run(u, m, g) ==
  CASE u.kind = "replace" -> [owner |-> u.gen, text |-> <<>>, status |-> "loading"]
    [] u.kind # "replace" /\ u.gen # g -> m
    [] u.kind = "flush" /\ u.gen = g ->
         IF m.status = "error" THEN m
         ELSE [m EXCEPT !.text = Merge(@, u.text), !.status = "streaming"]
    [] u.kind = "complete" /\ u.gen = g ->
         IF isFinal(m) THEN m ELSE [m EXCEPT !.status = "complete"]
    [] u.kind = "finish" /\ u.gen = g ->
         IF isPending(m) THEN [m EXCEPT !.status = "complete"] ELSE m
    [] u.kind = "answer" /\ u.gen = g -> [m EXCEPT !.status = "complete"]
    [] u.kind = "error"  /\ u.gen = g -> [m EXCEPT !.status = "error"]

(* RunAll[q][m]: the updaters of q in order.                               *)
RunAll(q, m, g) ==
  LET after[i \in 0..Len(q)] == IF i = 0 THEN m ELSE Run(q[i], after[i - 1], g)
  IN  after[Len(q)]

(* The handler passes updaters us to onMessageUpdate, one after another.   *)
(* The first may run at once if nothing waits to be rendered.              *)
Update(us) ==
  /\ dirty' = TRUE
  /\ \/ message' = message /\ queue' = queue \o us
     \/ /\ ~dirty /\ us # <<>> /\ us[1].kind \in {"flush", "answer"}
        /\ message' = Run(us[1], message, gen)
        /\ queue' = Tail(us)

Render ==
  /\ mounted /\ dirty
  /\ message' = RunAll(queue, message, gen)
  /\ queue' = <<>> /\ dirty' = FALSE
  /\ generating' = (isRequesting \/ isStreaming)
  /\ UNCHANGED <<gen, pending, timer, ctl, source, request, isRequesting,
                 isStreaming, mounted>>

-----------------------------------------------------------------------------
(* The text that waits for the flush timer.                               *)

\* Seeded fault: the text of the last request stays.
discardPendingStreamUpdates_Kept(g) ==
  /\ timer' = 0
  /\ pending' = [pending EXCEPT !.gen = g]

\* Seeded fault: the timer of the last request runs on.
discardPendingStreamUpdates_TimerRuns(g) ==
  /\ timer' = timer
  /\ pending' = [gen |-> g, text |-> <<>>]

discardPendingStreamUpdates(g) ==
  /\ timer' = 0
  /\ pending' = [gen |-> g, text |-> <<>>]

\* Seeded fault: what is pending is not taken.
Flush_Nothing == <<>>

(* The updater flushStreamUpdates passes on, if any.                       *)
Flush == IF pending.gen = gen /\ pending.text # <<>>
         THEN <<Up("flush", gen, pending.text)>> ELSE <<>>

Flushed ==
  /\ timer' = 0
  /\ pending' = IF pending.gen = gen THEN [pending EXCEPT !.text = <<>>] ELSE pending

FlushTimer ==
  /\ mounted /\ timer # 0
  /\ Flushed
  /\ IF Flush = <<>> THEN UNCHANGED <<queue, dirty, message>> ELSE Update(Flush)
  /\ UNCHANGED <<gen, ctl, source, request, isRequesting, isStreaming, generating,
                 mounted>>

-----------------------------------------------------------------------------
(* Sending.  React renders a click before the next one, so a request is    *)
(* never started twice.                                                    *)

Sendable == mounted /\ ~generating /\ ~isRequesting /\ gen < MaxGen

sendStreamingChat ==
  /\ Sendable
  /\ gen' = gen + 1
  /\ discardPendingStreamUpdates(gen')
  /\ ctl' = gen' /\ source' = 0
  /\ request' = [request EXCEPT ![gen'].pc = "headers"]
  /\ isRequesting' = TRUE /\ isStreaming' = FALSE
  /\ Update(<<Up("replace", gen', <<>>)>>)
  /\ UNCHANGED <<generating, mounted>>

sendNonStreamingChat ==
  /\ Sendable
  /\ gen' = gen + 1
  /\ discardPendingStreamUpdates(gen')
  /\ ctl' = 0 /\ source' = 0
  /\ request' = [request EXCEPT ![gen'].pc = "xhr"]
  /\ isRequesting' = TRUE /\ isStreaming' = FALSE
  /\ Update(<<Up("replace", gen', <<>>)>>)
  /\ UNCHANGED <<generating, mounted>>

\* Seeded fault: the request is still under way after an error.
handleStreamError_Requesting(g) ==
  IF g = gen
  THEN /\ Flushed
       /\ UNCHANGED isRequesting
       /\ Update(Flush \o <<Up("error", g, <<>>)>>)
  ELSE UNCHANGED <<timer, pending, isRequesting, queue, dirty, message>>

handleStreamError(g) ==
  IF g = gen
  THEN /\ Flushed
       /\ isRequesting' = FALSE
       /\ Update(Flush \o <<Up("error", g, <<>>)>>)
  ELSE UNCHANGED <<timer, pending, isRequesting, queue, dirty, message>>

handleStreamComplete(g) ==
  IF g = gen
  THEN /\ Flushed
       /\ isRequesting' = FALSE
       /\ Update(Flush \o <<Up("complete", g, <<>>)>>)
  ELSE UNCHANGED <<timer, pending, isRequesting, queue, dirty, message>>

(* stopGeneration: flush, then move the generation, then finish the        *)
(* message.                                                                *)
stopGeneration ==
  /\ mounted /\ generating /\ gen < MaxGen
  /\ gen' = gen + 1
  /\ discardPendingStreamUpdates(gen')
  /\ ctl' = 0 /\ source' = 0
  /\ request' = [request EXCEPT ![gen].stopped = TRUE]
  /\ isRequesting' = FALSE /\ isStreaming' = FALSE
  /\ Update(Flush \o <<Up("finish", gen', <<>>)>>)
  /\ UNCHANGED <<generating, mounted>>

(* The effects' clean-up: the list is not updated any more.                *)
Unmount ==
  /\ mounted /\ gen < MaxGen
  /\ mounted' = FALSE /\ generating' = FALSE
  /\ gen' = gen + 1
  /\ timer' = 0 /\ ctl' = 0 /\ source' = 0
  /\ queue' = <<>> /\ dirty' = FALSE
  /\ UNCHANGED <<pending, request, isRequesting, isStreaming, message>>

-----------------------------------------------------------------------------
(* The stream.                                                             *)

isCurrent(g) == ctl = g /\ source = g

(* The headers arrive.                                                     *)
HeadersReady(g) ==
  /\ request[g].pc = "headers"
  /\ IF ctl = g
     THEN /\ request' = [request EXCEPT ![g].pc = "open"]
          /\ source' = g /\ isStreaming' = TRUE /\ dirty' = TRUE
     ELSE /\ request' = [request EXCEPT ![g].pc = "none"]
          /\ UNCHANGED <<source, isStreaming, dirty>>
  /\ UNCHANGED <<gen, pending, timer, ctl, isRequesting, queue, message, generating,
                 mounted>>

HeadersFail(g) ==
  /\ request[g].pc = "headers"
  /\ request' = [request EXCEPT ![g].pc = "failed"]
  /\ IF ctl = g THEN handleStreamError(g)
     ELSE UNCHANGED <<timer, pending, isRequesting, queue, dirty, message>>
  /\ UNCHANGED <<gen, ctl, source, isStreaming, generating, mounted>>

(* Delta d at its place in the stream of request g.                        *)
Placed(d, g) ==
  [i \in 1..Len(d) |-> [of |-> g, n |-> Len(request[g].text) + i, ch |-> d[i]]]

(* A delta arrives, maybe from a source that was closed meanwhile.         *)
handleStreamUpdate(g, d) ==
  /\ request[g].pc = "open" /\ Len(request[g].text) + Len(d) =< MaxText
  /\ request' = [request EXCEPT ![g].text = @ \o d]
  /\ IF isCurrent(g) /\ gen = g /\ pending.gen = g
     THEN /\ pending' = [pending EXCEPT !.text = Merge(@, Placed(d, g))]
          /\ timer' = g
     ELSE UNCHANGED <<pending, timer>>
  /\ UNCHANGED <<gen, ctl, source, isRequesting, isStreaming, queue, dirty, message,
                 generating, mounted>>

(* closeActiveSource.                                                      *)
SourceClosed == source' = 0 /\ isStreaming' = FALSE

NoEffect == UNCHANGED <<pending, timer, source, isRequesting, isStreaming, queue,
                        dirty, message>>

StreamDone(g) ==
  /\ request[g].pc = "open"
  /\ request' = [request EXCEPT ![g].pc = "done"]
  /\ IF isCurrent(g) THEN SourceClosed /\ handleStreamComplete(g) ELSE NoEffect
  /\ UNCHANGED <<gen, ctl, generating, mounted>>

StreamFails(g) ==
  /\ request[g].pc = "open"
  /\ request' = [request EXCEPT ![g].pc = "failed"]
  /\ IF isCurrent(g) THEN SourceClosed /\ handleStreamError(g) ELSE NoEffect
  /\ UNCHANGED <<gen, ctl, generating, mounted>>

(* The connection closes with status 200 and without [DONE]: no listener   *)
(* takes that for an end.                                                  *)
StreamEndsSilently(g) ==
  /\ request[g].pc = "open"
  /\ request' = [request EXCEPT ![g].pc = "silent"]
  /\ NoEffect
  /\ UNCHANGED <<gen, ctl, generating, mounted>>

-----------------------------------------------------------------------------
(* The answer of a request without a stream, with or without a choice.     *)
ChatAnswered(g) ==
  /\ request[g].pc = "xhr"
  /\ \E ok \in BOOLEAN :
       /\ request' = [request EXCEPT ![g].pc = IF ok THEN "done" ELSE "failed"]
       /\ IF gen = g
          THEN IF ok
               THEN /\ Update(<<Up("answer", g, <<>>)>>)
                    /\ isRequesting' = FALSE
                    /\ UNCHANGED <<pending, timer>>
               ELSE handleStreamError(g)
          ELSE UNCHANGED <<timer, pending, isRequesting, queue, dirty, message>>
  /\ UNCHANGED <<gen, ctl, source, isStreaming, generating, mounted>>

-----------------------------------------------------------------------------
RequestEnds(g) ==
  \/ StreamDone(g) \/ StreamFails(g) \/ StreamEndsSilently(g) \/ ChatAnswered(g)

Next ==
  \/ sendStreamingChat \/ sendNonStreamingChat \/ stopGeneration \/ Unmount
  \/ Render \/ FlushTimer
  \/ \E g \in Gen :
        \/ HeadersReady(g) \/ HeadersFail(g) \/ RequestEnds(g)
        \/ \E d \in Delta : handleStreamUpdate(g, d)

Spec == Init /\ [][Next]_vars

(* React renders, timers fire, and every request comes to some end.  The   *)
(* user need not do anything.                                              *)
FairSpec ==
  /\ Spec
  /\ WF_vars(Render) /\ WF_vars(FlushTimer)
  /\ \A g \in Gen : WF_vars(HeadersReady(g) \/ HeadersFail(g)) /\ WF_vars(RequestEnds(g))

-----------------------------------------------------------------------------
(* A message holds text of its own request only, each letter once and in   *)
(* the order of the stream, whatever the streams before it still deliver   *)
(* and however merges, flushes, stops and renders interleave.              *)
OwnTextInOrder ==
  \A i \in 1..Len(message.text) :
     /\ message.text[i].of = message.owner
     /\ \A j \in 1..(i - 1) : message.text[j].n < message.text[i].n

(* Somewhere a text t says the same thing twice in a row.                  *)
Repeats(t) ==
  \E i \in 1..Len(t) : \E k \in 1..Len(t) :
     /\ i + 2 * k - 1 =< Len(t)
     /\ \A j \in i..(i + k - 1) : t[j] = t[j + k]

(* A message that was completed by the end of its stream, and not by the   *)
(* user, shows everything the stream delivered: nothing stays behind in    *)
(* the flush buffer or in an updater that ran too late, and a merge drops  *)
(* nothing, unless the stream said something twice in a row, which the     *)
(* merges take for a cumulative update.                                    *)
CompletedIsWhole ==
  \A g \in Gen :
     message.owner = g /\ message.status = "complete"
     /\ request[g].pc = "done" /\ ~request[g].stopped
       => Len(message.text) = Len(request[g].text) \/ Repeats(request[g].text)

(* The playground does not stay busy: unless a stream breaks off with      *)
(* status 200 and without [DONE], the page leaves the generating state.    *)
GenerationEnds ==
  generating ~> ~generating \/ \E g \in Gen : g = gen /\ request[g].pc = "silent"
=============================================================================
