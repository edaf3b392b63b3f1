------------------------------ MODULE Forward ------------------------------
(***************************************************************************)
(* The streaming proxy of the native plugin, native/main.go: Forward takes   *)
(* one HTTP request from the host in frames, has a goroutine carry it out,   *)
(* feeds its body through an io.Pipe and sends the response back in frames.  *)
(* All calls share the transports, one per proxy address.                    *)
(*                                                                         *)
(* The host may break off at any time (ctx), the upstream may answer before  *)
(* it has seen the whole body, or never.  When Forward returns, gRPC cancels *)
(* the context of the call, and net/http gives up on what still runs.        *)
(***************************************************************************)
EXTENDS Naturals, Sequences

CONSTANTS Calls,
          Uploads,          \* those whose request has a body
          Proxies,          \* proxy addresses
          MaxChunks,        \* bound on the chunks of a request body
          MaxReply,         \* bound on the chunks of a response body
          None              \* no transport

ASSUME ForwardAssumption ==
  Uploads \subseteq Calls /\ MaxChunks \in Nat /\ MaxReply \in Nat /\ None \notin Calls

VARIABLES transports,       \* per proxy, the call that created the transport
          call,             \* the handler of each call
          goroutine,        \* the request of each call, as net/http and the upstream have it
          ctx,              \* "live", "cancelled" by the host, or "returned"
          sent              \* the frames sent to the host

vars == <<transports, call, goroutine, ctx, sent>>

Terminal == {"end", "error", "error_not_sent"}

Handlers == [at : {"first", "look", "create", "body", "write", "wait", "start", "reply", "done"},
             proxy : Proxies, transport : Calls \union {None}, chunks : 0..MaxChunks,
             bodyEnded : BOOLEAN, pipe : {"open", "closed", "broken"}]

Requests == [at : {"none", "sending", "answered", "failed"},
             result : BOOLEAN,              \* it is in resultCh
             got : 0..MaxChunks,            \* chunks the upstream has seen
             body : {"open", "whole", "broken", "given_up"},
             left : 0..MaxReply,            \* chunks of the response still to be read
             reply : {"whole", "broken"}]   \* how the response will end

\* The frame reaches the host, unless it has broken off.
Send(c, frame) ==
  sent' = IF ctx[c] = "live" THEN [sent EXCEPT ![c] = Append(@, frame)] ELSE sent

Return(c) == ctx' = [ctx EXCEPT ![c] = IF @ = "live" THEN "returned" ELSE @]

\* sendForwardError and return.
Fail(c, frame) == Send(c, frame) /\ Return(c)

-----------------------------------------------------------------------------
(* The handler *)

\* The first frame: a request whose URL can be parsed, or anything else.
Begin(c) ==
  /\ call[c].at = "first"
  /\ \/ \E proxy \in Proxies : call' = [call EXCEPT ![c].at = "look", ![c].proxy = proxy]
        /\ ctx[c] = "live" /\ UNCHANGED <<ctx, sent>>
     \/ call' = [call EXCEPT ![c].at = "done"] /\ Fail(c, "error_not_sent")
  /\ UNCHANGED <<transports, goroutine>>

\* The goroutine is started, unless the request can not be built.
Launch(c, transport) ==
  \/ /\ call' = [call EXCEPT ![c].at = "body", ![c].transport = transport]
     /\ goroutine' = [goroutine EXCEPT ![c].at = "sending",
                                       ![c].body = IF c \in Uploads THEN "open" ELSE "whole"]
     /\ UNCHANGED <<ctx, sent>>
  \/ /\ call' = [call EXCEPT ![c].at = "done"] /\ Fail(c, "error_not_sent")
     /\ UNCHANGED goroutine

\* transportFor under the read lock.
Look(c) ==
  /\ call[c].at = "look"
  /\ IF transports[call[c].proxy] # None
     THEN Launch(c, transports[call[c].proxy])
     ELSE /\ call' = [call EXCEPT ![c].at = "create"]
          /\ UNCHANGED <<goroutine, ctx, sent>>
  /\ UNCHANGED transports

\* Mutant of Create: the map is not looked at again under the lock.
CreateAlways(c) ==
  /\ call[c].at = "create"
  /\ transports' = [transports EXCEPT ![call[c].proxy] = c]
  /\ Launch(c, c)

\* transportFor under the lock: another call may have been first.  Or the proxy
\* address is not valid.
Create(c) ==
  /\ call[c].at = "create"
  /\ \/ LET existing == transports[call[c].proxy]
            chosen == IF existing # None THEN existing ELSE c
        IN /\ transports' = [transports EXCEPT ![call[c].proxy] = chosen]
           /\ Launch(c, chosen)
     \/ /\ transports[call[c].proxy] = None
        /\ call' = [call EXCEPT ![c].at = "done"] /\ Fail(c, "error_not_sent")
        /\ UNCHANGED <<transports, goroutine>>

\* A chunk of the body is received, and has to go through the pipe.
Receive(c) ==
  /\ call[c].at = "body" /\ ctx[c] = "live" /\ c \in Uploads /\ call[c].chunks < MaxChunks
  /\ call' = [call EXCEPT ![c].at = "write", ![c].chunks = @ + 1]
  /\ UNCHANGED <<transports, goroutine, ctx, sent>>

\* BodyEnd closes the pipe.
ReceiveEnd(c) ==
  /\ call[c].at = "body" /\ ctx[c] = "live"
  /\ call' = [call EXCEPT ![c].at = "wait", ![c].bodyEnded = TRUE, ![c].pipe = "closed"]
  /\ UNCHANGED <<transports, goroutine, ctx, sent>>

\* Mutant of ReceiveFails: the pipe is closed as at the end of the body.
ReceiveFailsAsEnd(c) ==
  /\ call[c].at = "body"
  /\ call' = [call EXCEPT ![c].at = "done", ![c].pipe = "closed"]
  /\ Fail(c, "error")
  /\ UNCHANGED <<transports, goroutine>>

\* Mutant of ReceiveFails: the loop goes on after the error.
ReceiveFailsGoesOn(c) ==
  /\ call[c].at = "body"
  /\ call' = [call EXCEPT ![c].pipe = "broken"]
  /\ Send(c, "error")
  /\ UNCHANGED <<transports, goroutine, ctx>>

\* The stream ends early, or a frame is out of order.
ReceiveFails(c) ==
  /\ call[c].at = "body"
  /\ call' = [call EXCEPT ![c].at = "done", ![c].pipe = "broken"]
  /\ Fail(c, "error")
  /\ UNCHANGED <<transports, goroutine>>

\* pipeWriter.Write fails once the reader is closed.
WriteFails(c) ==
  /\ call[c].at = "write" /\ goroutine[c].body = "given_up"
  /\ call' = [call EXCEPT ![c].at = "done"]
  /\ Fail(c, "error")
  /\ UNCHANGED <<transports, goroutine>>

\* The select: the result, or the host has broken off.
Wait(c) ==
  /\ call[c].at = "wait"
  /\ \/ /\ goroutine[c].result
        /\ IF goroutine[c].at = "failed"
           THEN call' = [call EXCEPT ![c].at = "done"] /\ Fail(c, "error")
           ELSE call' = [call EXCEPT ![c].at = "start"] /\ UNCHANGED <<ctx, sent>>
     \/ /\ ctx[c] # "live"
        /\ call' = [call EXCEPT ![c].at = "done"] /\ UNCHANGED <<ctx, sent>>
  /\ UNCHANGED <<transports, goroutine>>

SendStart(c) ==
  /\ call[c].at = "start"
  /\ call' = [call EXCEPT ![c].at = IF ctx[c] = "live" THEN "reply" ELSE "done"]
  /\ Send(c, "start")
  /\ UNCHANGED <<transports, goroutine, ctx>>

PassChunk(c) ==
  /\ call[c].at = "reply" /\ goroutine[c].left > 0
  /\ goroutine' = [goroutine EXCEPT ![c].left = @ - 1]
  /\ call' = [call EXCEPT ![c].at = IF ctx[c] = "live" THEN "reply" ELSE "done"]
  /\ Send(c, "chunk")
  /\ UNCHANGED <<transports, ctx>>

\* The response has ended, or breaks off, of itself or with the context.
Finish(c) ==
  /\ call[c].at = "reply"
  /\ goroutine[c].left = 0 \/ ctx[c] # "live"
  /\ call' = [call EXCEPT ![c].at = "done"]
  /\ Fail(c, IF goroutine[c].reply = "whole" /\ goroutine[c].left = 0 THEN "end" ELSE "error")
  /\ UNCHANGED <<transports, goroutine>>

-----------------------------------------------------------------------------
(* net/http, the upstream and the host *)

Reads(c) == goroutine[c].at \in {"sending", "answered"} /\ goroutine[c].body = "open"

\* The chunk that is being written is read from the pipe.
TakeChunk(c) ==
  /\ Reads(c) /\ call[c].at = "write"
  /\ call' = [call EXCEPT ![c].at = "body"]
  /\ goroutine' = [goroutine EXCEPT ![c].got = @ + 1]
  /\ UNCHANGED <<transports, ctx, sent>>

\* The end of the body, or the error it was closed with, which fails the request.
TakeEnd(c) ==
  /\ Reads(c) /\ call[c].pipe # "open"
  /\ goroutine' = [goroutine EXCEPT
       ![c].body = IF call[c].pipe = "closed" THEN "whole" ELSE "broken",
       ![c].at = IF call[c].pipe = "broken" /\ @ = "sending" THEN "failed" ELSE @]
  /\ UNCHANGED <<transports, call, ctx, sent>>

\* The upstream answers, perhaps without waiting for the body.
Answer(c) ==
  /\ goroutine[c].at = "sending"
  /\ \E n \in 0..MaxReply, reply \in {"whole", "broken"} :
       goroutine' = [goroutine EXCEPT ![c].at = "answered", ![c].left = n, ![c].reply = reply]
  /\ UNCHANGED <<transports, call, ctx, sent>>

\* The request fails, or the context ends; net/http closes the body.
RequestFails(c) ==
  /\ goroutine[c].at = "sending"
  /\ goroutine' = [goroutine EXCEPT ![c].at = "failed",
                                    ![c].body = IF @ = "open" THEN "given_up" ELSE @]
  /\ UNCHANGED <<transports, call, ctx, sent>>

\* With the answer there, or the result taken, the rest of the body is not wanted.
GiveUpBody(c) ==
  /\ goroutine[c].at = "answered" /\ goroutine[c].body = "open"
  /\ goroutine' = [goroutine EXCEPT ![c].body = "given_up"]
  /\ UNCHANGED <<transports, call, ctx, sent>>

\* Mutant of Deliver: resultCh has no buffer.
DeliverUnbuffered(c) ==
  /\ goroutine[c].at \in {"answered", "failed"} /\ ~goroutine[c].result
  /\ call[c].at = "wait"
  /\ goroutine' = [goroutine EXCEPT ![c].result = TRUE]
  /\ UNCHANGED <<transports, call, ctx, sent>>

\* The goroutine leaves its result in resultCh and ends.
Deliver(c) ==
  /\ goroutine[c].at \in {"answered", "failed"} /\ ~goroutine[c].result
  /\ goroutine' = [goroutine EXCEPT ![c].result = TRUE]
  /\ UNCHANGED <<transports, call, ctx, sent>>

Cancel(c) ==
  /\ ctx[c] = "live" /\ ctx' = [ctx EXCEPT ![c] = "cancelled"]
  /\ UNCHANGED <<transports, call, goroutine, sent>>

-----------------------------------------------------------------------------

Init ==
  /\ transports = [p \in Proxies |-> None]
  /\ call \in [Calls -> {h \in Handlers : /\ h.at = "first" /\ h.transport = None
                                          /\ h.chunks = 0 /\ ~h.bodyEnded /\ h.pipe = "open"}]
  /\ goroutine = [c \in Calls |-> [at |-> "none", result |-> FALSE, got |-> 0, body |-> "open",
                                   left |-> 0, reply |-> "whole"]]
  /\ ctx = [c \in Calls |-> "live"]
  /\ sent = [c \in Calls |-> <<>>]

\* What Forward does without a frame from the host.
Handle(c) ==
  Look(c) \/ Create(c) \/ WriteFails(c) \/ Wait(c) \/ SendStart(c) \/ PassChunk(c) \/ Finish(c)

\* What net/http owes: it reads the body or gives it up, and obeys the context.
Carry(c) ==
  TakeChunk(c) \/ TakeEnd(c) \/ GiveUpBody(c) \/ (ctx[c] # "live" /\ RequestFails(c)) \/ Deliver(c)

Host(c) == Begin(c) \/ Receive(c) \/ ReceiveEnd(c) \/ ReceiveFails(c) \/ Cancel(c)

Next == \E c \in Calls : Handle(c) \/ Carry(c) \/ Host(c) \/ Answer(c) \/ RequestFails(c)

Spec == Init /\ [][Next]_vars

\* net/http carries on with what it has, and once the context has ended every
\* blocking operation of the handler returns.  Nothing makes the upstream answer or
\* the host send its frames.
FairSpec ==
  /\ Spec
  /\ \A c \in Calls : /\ WF_vars(Carry(c))
                      /\ WF_vars(ctx[c] # "live" /\ (Begin(c) \/ Handle(c) \/ ReceiveFails(c)))

-----------------------------------------------------------------------------

Sent(c) == {sent[c][i] : i \in DOMAIN sent[c]}

TypeOK ==
  /\ transports \in [Proxies -> Calls \union {None}]
  /\ call \in [Calls -> Handlers] /\ goroutine \in [Calls -> Requests]
  /\ ctx \in [Calls -> {"live", "cancelled", "returned"}]
  /\ sent \in [Calls -> Seq(Terminal \union {"start", "chunk"})]
  /\ \A c \in Calls : \A i \in DOMAIN sent[c] :
       /\ sent[c][i] \in Terminal => i = Len(sent[c])
       /\ sent[c][i] \in {"chunk", "end"} => sent[c][1] = "start"

\* A call that the host has not broken off is answered: the last frame is an end or
\* an error, whatever failed.
EveryCallAnswered ==
  \A c \in Calls :
    ctx[c] = "returned" => sent[c] # <<>> /\ sent[c][Len(sent[c])] \in Terminal

\* RequestSent is what the host decides a retry by: an error that says the request
\* was not sent means that nothing was started for it.
NotSentIsTrue ==
  \A c \in Calls : "error_not_sent" \in Sent(c) => goroutine[c].at = "none"

\* A body the host did not finish, because it broke off, failed or sent a wrong
\* frame, never reaches the upstream as a whole one.
TruncatedIsNotWhole ==
  \A c \in Calls :
    goroutine[c].body = "whole" /\ c \in Uploads =>
      call[c].bodyEnded /\ goroutine[c].got = call[c].chunks

\* The same of the response: a response that broke off is never ended with End.
EndMeansComplete ==
  \A c \in Calls :
    "end" \in Sent(c) => goroutine[c].reply = "whole" /\ goroutine[c].left = 0

\* Calls that go through the same proxy share its transport, whoever created it.
OneTransport ==
  \A c \in Calls :
    call[c].transport # None => transports[call[c].proxy] = call[c].transport

\* A call that the host breaks off ends, wherever it is blocked: on a frame, in the
\* pipe, on the result or on the response.
CancelledCallEnds ==
  \A c \in Calls : ctx[c] = "cancelled" ~> call[c].at = "done"

\* A goroutine does not outlive its call, however early Forward returned.
GoroutineEnds ==
  \A c \in Calls : goroutine[c].at # "none" /\ call[c].at = "done" ~> goroutine[c].result
=============================================================================
