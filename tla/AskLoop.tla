------------------------------- MODULE AskLoop -------------------------------
(***************************************************************************)
(* One call of ask(): the tool-calling loop of src/llm/client.ts, its      *)
(* bounded retries, the forcing pass without tools, the caller's           *)
(* cooperative interruption and the recovery from the provider's filter.   *)
(*                                                                         *)
(* The turns of different channels share the gate on the requests, which   *)
(* is Semaphore; a request here is from entering that gate to the answer.  *)
(* The provider answers anything its protocol allows, at every request.    *)
(***************************************************************************)
EXTENDS Integers, Sequences, FiniteSets, SequencesExt

CONSTANTS
  MaxIterations, \* MAX_TOOL_ITERATIONS
  MaxEmpty,      \* MAX_EMPTY_RESPONSE_RETRIES
  MaxCalls,      \* bound: tool calls in one message of the model
  Calls,         \* the tool calls: a name with its arguments
  Uncached,      \* the calls of tools declared with cacheable: false
  Inputs         \* the inputs ask() is called with, members of Input

\* A call without an id or a name, and one whose arguments are not JSON.
BadCalls == {"malformed", "unparsable"}

\* What of AskInput the loop's control depends on: an effort other than low, an
\* explicit search request, and the classifier's retryNoChoicesOnce.
Input == [think: BOOLEAN, search: BOOLEAN, retryNoChoices: BOOLEAN]

ASSUME AskAssumption ==
  /\ MaxIterations \in Nat \ {0} /\ MaxEmpty \in Nat /\ MaxCalls \in Nat \ {0}
  /\ Uncached \subseteq Calls
  /\ Calls \cap BadCalls = {}
  /\ Inputs \subseteq Input

VARIABLES
  pc,        \* where the loop is
  input,     \* what the caller asked
  attempt,   \* 1, or 2 after the provider's filter refused the first
  i,         \* requests with tools this attempt sent, the loop's counter
  convo,     \* what follows the caller's messages in the conversation
  loop,      \* the loop's local flags
  pending,   \* the calls of the last message still to be run
  executed,  \* trace.toolCalls.length
  cache,     \* toolCache: the calls with a successful result of this attempt
  abort,     \* what shouldAbort() answers
  answer,    \* how ask() settled
  ran,       \* how often each call's handler succeeded, over the whole ask()
  requests   \* the requests sent, over the whole ask()

outer == <<attempt, executed, answer>>
askVars == <<pc, input, attempt, i, convo, loop, pending, executed, cache, abort,
          answer, ran, requests>>

Finishes == {"none", "stop", "length", "tool_calls"}
Answers == {"none", "text", "empty", "filter", "aborted", "error"}

\* finish is lastFinishReason; thinking is what the next request asks for.
FreshLoop == [empty |-> 0, degenerate |-> FALSE, noChoices |-> FALSE,
              thinking |-> input.think, finish |-> "none", forced |-> 0]

AskInit ==
  /\ input \in Inputs
  /\ pc = "top" /\ attempt = 1 /\ i = 0 /\ convo = <<>> /\ loop = FreshLoop
  /\ pending = <<>> /\ executed = 0 /\ cache = {} /\ abort = FALSE
  /\ answer = "none" /\ ran = [c \in Calls |-> 0] /\ requests = 0

-----------------------------------------------------------------------------
(* Requests.                                                               *)

\* What one ask() may cost: two attempts, a repeated request of the classifier
\* in each, and two requests of a forcing pass.
RequestBound ==
  2 * (MaxIterations + IF input.retryNoChoices THEN 1 ELSE 0) + 2

\* The count of requests, which stops past its bound.
Sent == IF requests > RequestBound THEN requests ELSE requests + 1

User == [role |-> "user", calls |-> 0, reasoned |-> FALSE]
Tool == [role |-> "tool", calls |-> 0, reasoned |-> FALSE]
Assistant(n, r) == [role |-> "assistant", calls |-> n, reasoned |-> r]

\* The first request of an explicit search cannot think: it names its tool.
NamesTool == input.search /\ i = 1

Returns(a) == pc' = "done" /\ answer' = a

\* The caller is told a newer message came: true from then on.
Interrupt ==
  /\ pc # "done" /\ ~abort
  /\ abort' = TRUE
  /\ UNCHANGED <<pc, input, i, convo, loop, pending, cache, requests, outer,
                 ran>>

\* The head of the loop.
SendRequest ==
  /\ pc = "top" /\ i < MaxIterations /\ ~abort
  /\ pc' = "asked" /\ i' = i + 1 /\ requests' = Sent
  /\ UNCHANGED <<input, convo, loop, pending, cache, abort, outer, ran>>

Stop ==
  /\ pc = "top" /\ i < MaxIterations /\ abort
  /\ Returns("aborted")
  /\ UNCHANGED <<input, attempt, i, convo, loop, pending, executed, cache,
                 abort, requests, ran>>

RunOut ==
  /\ pc = "top" /\ i = MaxIterations
  /\ pc' = "after"
  /\ UNCHANGED <<input, i, convo, loop, pending, cache, abort, requests,
                 outer, ran>>

ApiFails ==
  /\ pc = "asked"
  /\ Returns("error")
  /\ UNCHANGED <<input, attempt, i, convo, loop, pending, executed, cache,
                 abort, requests, ran>>

\* A refusal, as an HTTP error or as finish_reason content_filter: the error
\* carries how many calls were executed.
RequestRefused ==
  /\ pc = "asked"
  /\ pc' = "refused"
  /\ UNCHANGED <<input, i, convo, loop, pending, cache, abort, requests,
                 outer, ran>>

\* No choices: the classifier's one retry, only before any tool ran.
MayRetryNoChoices ==
  input.retryNoChoices /\ ~loop.noChoices /\ executed = 0

NoChoices ==
  /\ pc = "asked"
  /\ IF MayRetryNoChoices
       THEN /\ loop' = [loop EXCEPT !.noChoices = TRUE]
            /\ IF abort THEN Returns("aborted") /\ UNCHANGED requests
                        ELSE /\ requests' = Sent
                             /\ UNCHANGED <<pc, answer>>
       ELSE pc' = "after" /\ UNCHANGED <<loop, requests, answer>>
  /\ UNCHANGED <<input, attempt, i, convo, pending, executed, cache, abort,
                 ran>>

\* A choice without a message leaves the loop with its finish reason.
NoMessage ==
  /\ pc = "asked"
  /\ \E f \in Finishes : loop' = [loop EXCEPT !.finish = f]
  /\ pc' = "after"
  /\ UNCHANGED <<input, i, convo, pending, cache, abort, requests, outer,
                 ran>>

\* The model's message as it is pushed.  A message of a thinking request
\* carries its reasoning; the one of a request that named its tool gets an
\* empty field when the next request thinks.
Echo(n) ==
  Assistant(n, (loop.thinking /\ ~NamesTool) \/ (NamesTool /\ input.think))

CallTools ==
  /\ pc = "asked"
  /\ \E cs \in BoundedSeq(Calls \cup BadCalls, MaxCalls) \ {<<>>} :
       /\ pending' = cs
       /\ convo' = Append(convo, Echo(Len(cs)))
  /\ loop' = [loop EXCEPT !.finish = "tool_calls"]
  /\ pc' = "tools"
  /\ UNCHANGED <<input, i, cache, abort, requests, outer, ran>>

Say ==
  /\ pc = "asked"
  /\ \E f \in Finishes : loop' = [loop EXCEPT !.finish = f]
  /\ convo' = Append(convo, Echo(0))
  /\ Returns("text")
  /\ UNCHANGED <<input, attempt, i, pending, executed, cache, abort, requests,
                 ran>>

\* Altered: the empty echo stays in the conversation.
SayNothingKept ==
  /\ pc = "asked"
  /\ \E f \in Finishes :
       LET more == loop.empty + 1 <= MaxEmpty
       IN  /\ loop' = [loop EXCEPT !.finish = f, !.empty = @ + 1]
           /\ pc' = IF more THEN "top" ELSE "after"
  /\ convo' = Append(convo, Echo(0))
  /\ UNCHANGED <<input, i, pending, cache, abort, requests, outer, ran>>

\* Altered: an empty answer uses neither an iteration nor a retry.
SayNothingFree ==
  /\ pc = "asked"
  /\ pc' = "top" /\ i' = i - 1
  /\ UNCHANGED <<input, convo, loop, pending, cache, abort, requests, outer,
                 ran>>

\* No usable text: the echo is dropped and the same conversation is sent again,
\* without thinking if the thinking used the whole output.
SayNothing ==
  /\ pc = "asked"
  /\ \E f \in Finishes, d \in BOOLEAN :
       LET more == loop.empty + 1 <= MaxEmpty
       IN  /\ loop' = [loop EXCEPT
                !.finish = f, !.empty = @ + 1, !.degenerate = @ \/ d,
                !.thinking = IF more /\ f = "length" THEN FALSE ELSE @]
           /\ pc' = IF more THEN "top" ELSE "after"
  /\ UNCHANGED <<input, i, convo, pending, cache, abort, requests, outer,
                 ran>>

-----------------------------------------------------------------------------
(* Tools.                                                                  *)

Cacheable(c) == c \notin Uncached

Cached(c) == Cacheable(c) /\ c \in cache

\* Every call of the message gets one tool message, in order.
CallAnswered == pending' = Tail(pending) /\ convo' = Append(convo, Tool)

Running == pc = "tools" /\ pending # <<>> /\ ~abort

\* A call that cannot be run; only the second kind is counted in the trace.
RejectCall ==
  /\ Running /\ Head(pending) \in BadCalls
  /\ CallAnswered
  /\ executed' = executed + (IF Head(pending) = "unparsable" THEN 1 ELSE 0)
  /\ UNCHANGED <<pc, input, attempt, i, loop, cache, abort, answer, requests,
                 ran>>

AnswerFromCache ==
  /\ Running
  /\ Head(pending) \in Calls /\ Cached(Head(pending))
  /\ CallAnswered
  /\ executed' = executed + 1
  /\ UNCHANGED <<pc, input, attempt, i, loop, cache, abort, answer, ran,
                 requests>>

RunTool ==
  /\ Running
  /\ LET c == Head(pending) IN
       /\ c \in Calls /\ ~Cached(c)
       /\ ran' = [ran EXCEPT ![c] = @ + 1]
       /\ cache' = IF Cacheable(c) THEN cache \cup {c} ELSE cache
  /\ CallAnswered
  /\ executed' = executed + 1
  /\ UNCHANGED <<pc, input, attempt, i, loop, abort, answer, requests>>

\* The handler answers an error; nothing is cached, the model may try again.
ToolFails ==
  /\ Running
  /\ Head(pending) \in Calls /\ ~Cached(Head(pending))
  /\ CallAnswered
  /\ executed' = executed + 1
  /\ UNCHANGED <<pc, input, attempt, i, loop, cache, abort, answer, ran,
                 requests>>

\* A handler that throws ends the turn.
ToolThrows ==
  /\ Running /\ Head(pending) \in Calls /\ ~Cached(Head(pending))
  /\ Returns("error")
  /\ UNCHANGED <<input, attempt, i, convo, loop, pending, executed, cache,
                 abort, requests, ran>>

StopTools ==
  /\ pc = "tools" /\ pending # <<>> /\ abort
  /\ Returns("aborted")
  /\ UNCHANGED <<input, attempt, i, convo, loop, pending, executed, cache,
                 abort, requests, ran>>

ToolsDone ==
  /\ pc = "tools" /\ pending = <<>>
  /\ pc' = "top"
  /\ UNCHANGED <<input, i, convo, loop, pending, cache, abort, requests,
                 outer, ran>>

-----------------------------------------------------------------------------
(* The forcing pass and the end.                                           *)

MustForce == loop.finish \in {"tool_calls", "length"} \/ loop.degenerate

StartForcing ==
  /\ pc = "after" /\ MustForce
  /\ convo' = Append(convo, User)
  /\ loop' = [loop EXCEPT !.forced = 1,
                          !.thinking = @ /\ loop.finish # "length"]
  /\ requests' = Sent
  /\ pc' = "forcing"
  /\ UNCHANGED <<input, i, pending, cache, abort, outer, ran>>

GiveUp ==
  /\ pc = "after" /\ ~MustForce
  /\ Returns("empty")
  /\ UNCHANGED <<input, attempt, i, convo, loop, pending, executed, cache,
                 abort, requests, ran>>

ForcedText ==
  /\ pc = "forcing"
  /\ Returns("text")
  /\ UNCHANGED <<input, attempt, i, convo, loop, pending, executed, cache,
                 abort, requests, ran>>

\* Nothing usable, a filtered answer included: one more try, then the fallback.
ForcedNothing ==
  /\ pc = "forcing"
  /\ IF loop.forced < 2
       THEN /\ convo' = Append(convo, User)
            /\ loop' = [loop EXCEPT !.forced = @ + 1]
            /\ requests' = Sent
            /\ UNCHANGED <<pc, answer>>
       ELSE Returns("empty") /\ UNCHANGED <<convo, loop, requests>>
  /\ UNCHANGED <<input, attempt, i, pending, executed, cache, abort, ran>>

\* The catch of the forcing pass.  A refusal is to be thrown on, but nothing
\* labels it one there (observedCompletion), so it ends like any other error.
ForcedRefused ==
  /\ pc = "forcing"
  /\ Returns("empty")
  /\ UNCHANGED <<input, attempt, i, convo, loop, pending, executed, cache,
                 abort, requests, ran>>

ForcedFails ==
  /\ pc = "forcing"
  /\ Returns("empty")
  /\ UNCHANGED <<input, attempt, i, convo, loop, pending, executed, cache,
                 abort, requests, ran>>

\* Altered: the retry does not look at what ran.
MayRestartBlind == attempt = 1

\* recoverFromContentFilter: a second attempt from scratch, if no call ran.
MayRestart == executed = 0 /\ attempt = 1

Recover ==
  /\ pc = "refused"
  /\ IF MayRestart
       THEN /\ attempt' = 2 /\ pc' = "top" /\ i' = 0 /\ convo' = <<>>
            /\ loop' = FreshLoop /\ pending' = <<>> /\ executed' = 0
            /\ cache' = {}
            /\ UNCHANGED answer
       ELSE /\ Returns("filter")
            /\ UNCHANGED <<attempt, i, convo, loop, pending, executed, cache>>
  /\ UNCHANGED <<input, abort, requests, ran>>

AskSettled == pc = "done" /\ UNCHANGED askVars

AskStep ==
  \/ SendRequest \/ Stop \/ RunOut \/ ApiFails \/ RequestRefused
  \/ NoChoices \/ NoMessage \/ CallTools \/ Say \/ SayNothing
  \/ RejectCall \/ AnswerFromCache \/ RunTool \/ ToolFails \/ ToolThrows
  \/ StopTools \/ ToolsDone \/ StartForcing \/ GiveUp \/ ForcedText \/ ForcedNothing
  \/ ForcedRefused \/ ForcedFails \/ Recover

AskNext == AskStep \/ Interrupt \/ AskSettled

AskSpec == AskInit /\ [][AskNext]_askVars

-----------------------------------------------------------------------------
(* Properties.                                                             *)

AskTypeOK ==
  /\ pc \in {"top", "asked", "tools", "after", "forcing", "refused", "done"}
  /\ input \in Inputs
  /\ attempt \in {1, 2} /\ i \in 0..MaxIterations
  /\ convo \in Seq([role: {"user", "assistant", "tool"}, calls: 0..MaxCalls,
                    reasoned: BOOLEAN])
  /\ loop \in [empty: 0..(MaxEmpty + 1), degenerate: BOOLEAN,
               noChoices: BOOLEAN, thinking: BOOLEAN, finish: Finishes,
               forced: 0..2]
  /\ pending \in Seq(Calls \cup BadCalls)
  /\ executed \in 0..(MaxIterations * MaxCalls)
  /\ cache \subseteq Calls
  /\ abort \in BOOLEAN
  /\ answer \in Answers /\ (pc = "done" <=> answer # "none")
  /\ ran \in [Calls -> Nat]
  /\ requests \in Nat

\* The messages that follow position k are the answers to its calls.
Follows(k) ==
  /\ k + convo[k].calls <= Len(convo)
  /\ \A t \in (k + 1)..(k + convo[k].calls) : convo[t].role = "tool"

\* Every conversation that is sent is one the protocol accepts: each call of
\* each message of the model is answered by one tool message right after it,
\* no tool message answers nothing, and no empty message of the model is left.
ConversationWellFormed ==
  pc \in {"asked", "forcing"} =>
    \A k \in DOMAIN convo :
      /\ convo[k].role = "assistant" => convo[k].calls > 0 /\ Follows(k)
      /\ convo[k].role = "tool" =>
           \E j \in 1..(k - 1) : convo[j].role = "assistant"
                                /\ k <= j + convo[j].calls

\* A request that thinks carries the reasoning of every message of the model
\* in its conversation, also after a request that named its tool and after an
\* answer whose thinking used all its output; without it the API answers 400.
ReasoningEchoed ==
  pc = "asked" /\ loop.thinking /\ ~NamesTool =>
    \A k \in DOMAIN convo : convo[k].role = "assistant" => convo[k].reasoned

\* Whatever was retried, dropped or forced before, the conversation is one the
\* provider takes: every call is answered in its place, and a thinking request
\* carries the reasoning it needs (an error 400 ends the whole turn).
ConversationAccepted == ConversationWellFormed /\ ReasoningEchoed

\* However the turn was retried, a call of a cached tool succeeded at most
\* once: a filter's refusal never creates the same event a second time.
NoCallRunsTwice == \A c \in Calls \ Uncached : ran[c] <= 1

\* One ask() never costs more requests than its bound, however empty answers, a
\* response without choices, the forcing pass and the restart after a refusal
\* come together: each has its own counter, and the restart resets most of them.
RequestsBounded == requests <= RequestBound

=============================================================================
