--------------------------- MODULE ForwardProofs ---------------------------
(***************************************************************************)
(* Proofs about Forward, for any calls, proxies and numbers of chunks.  The  *)
(* calls meet only in the map of transports; everything else is said of one  *)
(* call: its handler h, its request q, its context x and the frames m.       *)
(***************************************************************************)
EXTENDS Forward, SequenceTheorems, TLAPS

Frames == Terminal \union {"start", "chunk"}

\* m has frame f.
Has(m, f) == \E i \in DOMAIN m : m[i] = f

\* Nothing follows an end or an error, and nothing of a response precedes its start.
Ordered(m) ==
  \A i \in DOMAIN m : /\ m[i] \in Terminal => i = Len(m)
                      /\ m[i] \in {"chunk", "end"} => m[1] = "start"

Unfinished(m) == \A i \in DOMAIN m : m[i] \notin Terminal

Finished(m) == m # <<>> /\ m[Len(m)] \in Terminal

Typed(h, q, x, m) ==
  h \in Handlers /\ q \in Requests /\ x \in {"live", "cancelled", "returned"} /\ m \in Seq(Frames)

\* Before the goroutine is started.
Early == {"first", "look", "create"}

\* The handler and its frames.
Answering(h, x, m) ==
  /\ Ordered(m)
  /\ h.at # "done" => Unfinished(m) /\ x # "returned"
  /\ h.at \in Early \union {"body", "write", "wait", "start"} => m = <<>>
  /\ h.at = "reply" => m # <<>> /\ m[1] = "start"
  /\ x = "returned" => Finished(m)

\* The body on its way through the pipe.
Uploading(c, h, q) ==
  /\ h.at \in Early \union {"body"} \/ h.bodyEnded => q.got = h.chunks
  /\ h.at = "write" => h.chunks = q.got + 1
  /\ h.bodyEnded => h.at \notin Early \union {"body", "write"}
  /\ h.pipe = "closed" => h.bodyEnded
  /\ q.body = "whole" /\ c \in Uploads => h.bodyEnded

\* The request and what was told of it.
Told(h, q, m) ==
  /\ h.at \in Early => q.at = "none" /\ h.transport = None
  /\ q.result => q.at \in {"answered", "failed"}
  /\ h.at \in {"start", "reply"} => q.at = "answered"
  /\ Has(m, "error_not_sent") => q.at = "none"
  /\ Has(m, "end") => q.at = "answered" /\ q.reply = "whole" /\ q.left = 0

CallInv(c, h, q, x, m) ==
  Typed(h, q, x, m) /\ Answering(h, x, m) /\ Uploading(c, h, q) /\ Told(h, q, m)

IInv ==
  /\ transports \in [Proxies -> Calls \union {None}]
  /\ call \in [Calls -> Handlers] /\ goroutine \in [Calls -> Requests]
  /\ ctx \in [Calls -> {"live", "cancelled", "returned"}] /\ sent \in [Calls -> Seq(Frames)]
  /\ \A c \in Calls : CallInv(c, call[c], goroutine[c], ctx[c], sent[c])
  /\ OneTransport

-----------------------------------------------------------------------------
(* Sequences of frames *)

\* Adding a frame to those of a call that is not answered yet.
LEMMA Adding ==
  ASSUME NEW m \in Seq(Frames), NEW f \in Frames, Ordered(m), Unfinished(m),
         f \in {"chunk", "end"} => m # <<>> /\ m[1] = "start"
  PROVE  LET n == Append(m, f) IN
         /\ n \in Seq(Frames) /\ n # <<>> /\ Ordered(n)
         /\ f \in Terminal => Finished(n)
         /\ f \notin Terminal => Unfinished(n)
         /\ m = <<>> => n[1] = f
         /\ m # <<>> => n[1] = m[1]
         /\ \A g \in Frames : Has(n, g) => g = f \/ Has(m, g)
<1> DEFINE n == Append(m, f)
<1>1. /\ n \in Seq(Frames) /\ Len(n) = Len(m) + 1 /\ Len(m) \in Nat
      /\ DOMAIN n = 1..(Len(m) + 1) /\ DOMAIN m = 1..Len(m)
      /\ \A i \in 1..Len(m) : n[i] = m[i]
      /\ n[Len(m) + 1] = f
      /\ m = <<>> => Len(m) = 0
      /\ m # <<>> => Len(m) # 0
  BY AppendProperties, LenProperties, EmptySeq
<1> HIDE DEF n
<1>2. ASSUME NEW i \in DOMAIN n
      PROVE  (i \in DOMAIN m /\ n[i] = m[i]) \/ (i = Len(n) /\ n[i] = f)
  BY <1>1
<1>3. (m = <<>> => n[1] = f) /\ (m # <<>> => n[1] = m[1]) /\ n # <<>>
  BY <1>1, EmptySeq
<1>4. Ordered(n)
  BY <1>2, <1>3 DEF Ordered, Unfinished, Terminal
<1>5. f \in Terminal => Finished(n)
  BY <1>1, <1>3 DEF Finished
<1>6. f \notin Terminal => Unfinished(n)
  BY <1>2 DEF Unfinished
<1>7. \A g \in Frames : Has(n, g) => g = f \/ Has(m, g)
  BY <1>2 DEF Has
<1> QED
  BY <1>1, <1>3, <1>4, <1>5, <1>6, <1>7 DEF n

-----------------------------------------------------------------------------
(* Steps of one call *)

\* Nothing of another call changes.
OthersKeep(c) ==
  /\ call' \in [Calls -> Handlers] /\ goroutine' \in [Calls -> Requests]
  /\ ctx' \in [Calls -> {"live", "cancelled", "returned"}] /\ sent' \in [Calls -> Seq(Frames)]
  /\ \A d \in Calls \ {c} : /\ call'[d] = call[d] /\ goroutine'[d] = goroutine[d]
                            /\ ctx'[d] = ctx[d] /\ sent'[d] = sent[d]

\* The invariant of the call that takes a step.
After(c) == CallInv(c, call'[c], goroutine'[c], ctx'[c], sent'[c])

LEMMA OneCall ==
  ASSUME IInv, NEW c \in Calls, OthersKeep(c), After(c), UNCHANGED transports,
         call'[c].transport # None => transports[call'[c].proxy] = call'[c].transport
  PROVE  IInv'
<1>1. \A d \in Calls : CallInv(d, call[d], goroutine[d], ctx[d], sent[d])'
  BY DEF OthersKeep, After, IInv
<1>2. OneTransport'
  BY DEF OthersKeep, IInv, OneTransport
<1> QED
  BY <1>1, <1>2 DEF OthersKeep, IInv

\* What the invariant says of one call.
LEMMA Of ==
  ASSUME IInv, NEW c \in Calls
  PROVE  /\ Typed(call[c], goroutine[c], ctx[c], sent[c])
         /\ Answering(call[c], ctx[c], sent[c])
         /\ Uploading(c, call[c], goroutine[c])
         /\ Told(call[c], goroutine[c], sent[c])
         /\ call[c].transport # None => transports[call[c].proxy] = call[c].transport
BY DEF IInv, CallInv, OneTransport

\* What sending a frame does to the frames of the call, whether or not the host is
\* still there.
LEMMA Sending ==
  ASSUME IInv, NEW c \in Calls, NEW f \in Frames, Send(c, f), call[c].at # "done",
         f \in {"chunk", "end"} => sent[c] # <<>> /\ sent[c][1] = "start"
  PROVE  /\ sent' \in [Calls -> Seq(Frames)] /\ \A d \in Calls \ {c} : sent'[d] = sent[d]
         /\ Ordered(sent'[c])
         /\ ctx[c] = "live" => /\ sent'[c] # <<>>
                               /\ sent[c] = <<>> => sent'[c][1] = f
                               /\ sent[c] # <<>> => sent'[c][1] = sent[c][1]
                               /\ f \in Terminal => Finished(sent'[c])
         /\ f \notin Terminal => Unfinished(sent'[c])
         /\ \A g \in Frames : Has(sent'[c], g) => g = f \/ Has(sent[c], g)
<1>1. sent[c] \in Seq(Frames) /\ Ordered(sent[c]) /\ Unfinished(sent[c])
      /\ sent \in [Calls -> Seq(Frames)]
  BY Of DEF Typed, Answering, IInv
<1>2. CASE ctx[c] = "live"
  <2>1. sent' = [sent EXCEPT ![c] = Append(sent[c], f)]
    BY <1>2 DEF Send
  <2>2. Append(sent[c], f) \in Seq(Frames)
    BY <1>1, Adding
  <2>3. sent' \in [Calls -> Seq(Frames)] /\ sent'[c] = Append(sent[c], f)
        /\ \A d \in Calls \ {c} : sent'[d] = sent[d]
    BY <1>1, <2>1, <2>2
  <2> QED
    BY <1>1, <1>2, <2>3, Adding
<1>3. CASE ctx[c] # "live"
  BY <1>1, <1>3 DEF Send
<1> QED
  BY <1>2, <1>3

\* A handler that returns with an end or an error has answered, and what it has
\* told is what it told before and that frame.
LEMMA Failing ==
  ASSUME IInv, NEW c \in Calls, NEW f \in Terminal, Fail(c, f), call[c].at # "done",
         f = "end" => sent[c] # <<>> /\ sent[c][1] = "start"
  PROVE  /\ sent' \in [Calls -> Seq(Frames)] /\ \A d \in Calls \ {c} : sent'[d] = sent[d]
         /\ ctx' \in [Calls -> {"live", "cancelled", "returned"}]
         /\ \A d \in Calls \ {c} : ctx'[d] = ctx[d]
         /\ \A h : h.at = "done" => Answering(h, ctx'[c], sent'[c])
         /\ \A g \in Terminal : Has(sent'[c], g) => g = f
<1>1. Send(c, f) /\ Return(c) /\ f \in Frames
  BY DEF Fail, Frames
<1>2. ctx \in [Calls -> {"live", "cancelled", "returned"}] /\ ctx[c] # "returned"
      /\ Unfinished(sent[c])
  BY Of DEF IInv, Answering
<1>3. /\ ctx' \in [Calls -> {"live", "cancelled", "returned"}]
      /\ \A d \in Calls \ {c} : ctx'[d] = ctx[d]
      /\ ctx'[c] = "returned" => ctx[c] = "live"
  BY <1>1, <1>2 DEF Return
<1>4. f \in {"chunk", "end"} => f = "end"
  BY DEF Terminal
<1>5. \A g \in Terminal : ~Has(sent[c], g)
  BY <1>2 DEF Unfinished, Has
<1>6. ASSUME NEW h, h.at = "done"
      PROVE  Answering(h, ctx'[c], sent'[c])
  BY <1>1, <1>3, <1>4, <1>6, Sending DEF Answering, Early
<1>7. \A g \in Terminal : Has(sent'[c], g) => g = f
  BY <1>1, <1>4, <1>5, Sending DEF Frames
<1> QED
  BY <1>1, <1>3, <1>4, <1>6, <1>7, Sending

\* A call that fails before its goroutine is started tells that nothing was sent.
LEMMA FailingEarly ==
  ASSUME IInv, NEW c \in Calls, call[c].at \in Early, Fail(c, "error_not_sent"),
         call' = [call EXCEPT ![c].at = "done"], UNCHANGED goroutine
  PROVE  OthersKeep(c) /\ After(c) /\ call'[c].transport = None
<1>1. /\ sent' \in [Calls -> Seq(Frames)] /\ \A d \in Calls \ {c} : sent'[d] = sent[d]
      /\ ctx' \in [Calls -> {"live", "cancelled", "returned"}]
      /\ \A d \in Calls \ {c} : ctx'[d] = ctx[d]
      /\ \A h : h.at = "done" => Answering(h, ctx'[c], sent'[c])
      /\ \A g \in Terminal : Has(sent'[c], g) => g = "error_not_sent"
  BY Failing DEF Terminal, Early
<1>2. /\ call' \in [Calls -> Handlers] /\ \A d \in Calls \ {c} : call'[d] = call[d]
      /\ call'[c] = [call[c] EXCEPT !.at = "done"] /\ call'[c].at = "done"
  BY DEF IInv, Handlers
<1>3. OthersKeep(c)
  BY <1>1, <1>2 DEF OthersKeep, IInv
<1>4. Answering(call'[c], ctx'[c], sent'[c])
  BY <1>1, <1>2
<1>5. Uploading(c, call'[c], goroutine'[c])
  BY <1>2, Of DEF Uploading, Early, Typed, Handlers
<1>6. Told(call'[c], goroutine'[c], sent'[c])
  BY <1>1, <1>2, Of DEF Told, Early, Terminal
<1>7. Typed(call'[c], goroutine'[c], ctx'[c], sent'[c])
  BY <1>3 DEF OthersKeep, Typed
<1>8. call'[c].transport = None
  BY <1>2, Of DEF Told, Typed, Handlers
<1> QED
  BY <1>3, <1>4, <1>5, <1>6, <1>7, <1>8 DEF After, CallInv

\* What the handler leaves of the upload stays as it is.
LEMMA DoneUploading ==
  ASSUME NEW c, NEW h, NEW g, NEW q, Uploading(c, h, q), g.at = "done",
         g.bodyEnded <=> h.bodyEnded, g.chunks = h.chunks, g.pipe = "closed" => h.pipe = "closed"
  PROVE  Uploading(c, g, q)
<1>1. g.at \notin Early \union {"body", "write"}
  BY DEF Early
<1> QED
  BY <1>1 DEF Uploading

\* A handler that fails later tells that the request was sent.
LEMMA FailingLate ==
  ASSUME IInv, NEW c \in Calls, call[c].at \in {"body", "write", "wait"}, Fail(c, "error"),
         UNCHANGED <<goroutine, transports>>,
         NEW h \in Handlers, call' = [call EXCEPT ![c] = h],
         \/ h = [call[c] EXCEPT !.at = "done"]
         \/ h = [call[c] EXCEPT !.at = "done", !.pipe = "broken"]
  PROVE  IInv'
<1>1. /\ sent' \in [Calls -> Seq(Frames)] /\ \A d \in Calls \ {c} : sent'[d] = sent[d]
      /\ ctx' \in [Calls -> {"live", "cancelled", "returned"}]
      /\ \A d \in Calls \ {c} : ctx'[d] = ctx[d]
      /\ \A e : e.at = "done" => Answering(e, ctx'[c], sent'[c])
      /\ \A g \in Terminal : Has(sent'[c], g) => g = "error"
  BY Failing DEF Terminal
<1>2. /\ call' \in [Calls -> Handlers] /\ call'[c] = h
      /\ \A d \in Calls \ {c} : call'[d] = call[d]
  BY DEF IInv
<1>3. /\ h.at = "done" /\ (h.bodyEnded <=> call[c].bodyEnded) /\ h.chunks = call[c].chunks
      /\ h.pipe = "closed" => call[c].pipe = "closed"
      /\ h.transport = call[c].transport /\ h.proxy = call[c].proxy
  <2>1. call[c] \in Handlers
    BY DEF IInv
  <2> QED
    BY <2>1 DEF Handlers
<1>4. OthersKeep(c)
  BY <1>1, <1>2 DEF OthersKeep, IInv
<1>5. Answering(h, ctx'[c], sent'[c])
  BY <1>1, <1>3
<1>6. Uploading(c, h, goroutine[c])
  <2>1. Uploading(c, call[c], goroutine[c])
    BY Of
  <2> QED
    BY <1>3, <2>1, DoneUploading
<1>7. Told(h, goroutine[c], sent'[c])
  BY <1>1, <1>3, Of DEF Told, Early, Terminal
<1>8. Typed(call'[c], goroutine'[c], ctx'[c], sent'[c])
  BY <1>4 DEF OthersKeep, Typed
<1>9. After(c)
  BY <1>2, <1>5, <1>6, <1>7, <1>8 DEF After, CallInv
<1> QED
  BY <1>2, <1>3, <1>4, <1>9, OneCall, Of

LEMMA BeginStep ==
  ASSUME IInv, NEW c \in Calls, Begin(c)
  PROVE  IInv'
<1>1. CASE \E proxy \in Proxies : /\ call' = [call EXCEPT ![c].at = "look", ![c].proxy = proxy]
                                  /\ ctx[c] = "live" /\ UNCHANGED <<ctx, sent>>
  <2>1. PICK proxy \in Proxies : call' = [call EXCEPT ![c].at = "look", ![c].proxy = proxy]
    BY <1>1
  <2>2. UNCHANGED <<goroutine, transports, ctx, sent>> /\ call[c].at = "first"
    BY <1>1 DEF Begin
  <2>3. PICK h : h = [call[c] EXCEPT !.at = "look", !.proxy = proxy]
    OBVIOUS
  <2>4. /\ h \in Handlers /\ h.at = "look" /\ h.bodyEnded = call[c].bodyEnded
        /\ h.chunks = call[c].chunks /\ h.pipe = call[c].pipe /\ h.transport = call[c].transport
    BY <2>3 DEF IInv, Handlers
  <2>7. call' = [call EXCEPT ![c] = h]
    BY <2>1, <2>3 DEF IInv
  <2>8. OthersKeep(c) /\ call'[c] = h
    BY <2>2, <2>4, <2>7 DEF OthersKeep, IInv
  <2>5. After(c)
    BY <2>2, <2>4, <2>8, Of
       DEF After, CallInv, OthersKeep, Typed, Answering, Uploading, Told, Early
  <2>6. call'[c].transport = None
    BY <2>2, <2>4, <2>8, Of DEF Told, Early
  <2> QED
    BY <2>2, <2>5, <2>6, <2>8, OneCall
<1>2. CASE call' = [call EXCEPT ![c].at = "done"] /\ Fail(c, "error_not_sent")
  BY <1>2, FailingEarly, OneCall DEF Begin, Early
<1> QED
  BY <1>1, <1>2 DEF Begin

\* A step that moves the handler to h and the request to q and sends nothing.
LEMMA Moving ==
  ASSUME IInv, NEW c \in Calls, NEW h \in Handlers, NEW q \in Requests,
         call' = [call EXCEPT ![c] = h] \/ (call' = call /\ h = call[c]),
         goroutine' = [goroutine EXCEPT ![c] = q] \/ (goroutine' = goroutine /\ q = goroutine[c]),
         UNCHANGED <<transports, ctx, sent>>,
         h.transport = call[c].transport, h.proxy = call[c].proxy,
         Answering(h, ctx[c], sent[c]), Uploading(c, h, q), Told(h, q, sent[c])
  PROVE  IInv'
<1>1. /\ call' \in [Calls -> Handlers] /\ call'[c] = h
      /\ \A d \in Calls \ {c} : call'[d] = call[d]
  BY DEF IInv
<1>2. /\ goroutine' \in [Calls -> Requests] /\ goroutine'[c] = q
      /\ \A d \in Calls \ {c} : goroutine'[d] = goroutine[d]
  BY DEF IInv
<1>3. OthersKeep(c)
  BY <1>1, <1>2 DEF OthersKeep, IInv
<1>4. Typed(h, q, ctx[c], sent[c])
  BY Of DEF Typed
<1>5. After(c)
  BY <1>1, <1>2, <1>4 DEF After, CallInv
<1> QED
  BY <1>1, <1>3, <1>5, OneCall, Of

\* Handlers and requests of a call.
LEMMA TypedOf ==
  ASSUME IInv, NEW c \in Calls
  PROVE  /\ call[c] \in Handlers /\ goroutine[c] \in Requests
         /\ ctx[c] \in {"live", "cancelled", "returned"} /\ sent[c] \in Seq(Frames)
         /\ MaxChunks \in Nat /\ MaxReply \in Nat
BY ForwardAssumption DEF IInv

LEMMA ReceiveStep ==
  ASSUME IInv, NEW c \in Calls, Receive(c)
  PROVE  IInv'
<1>1. PICK h : h = [call[c] EXCEPT !.at = "write", !.chunks = @ + 1]
  OBVIOUS
<1>2. call[c].at = "body" /\ call[c].chunks < MaxChunks /\ UNCHANGED <<transports, goroutine, ctx, sent>>
      /\ call' = [call EXCEPT ![c] = h]
  BY <1>1 DEF Receive, IInv
<1>3. /\ h \in Handlers /\ h.at = "write" /\ h.chunks = call[c].chunks + 1
      /\ (h.bodyEnded <=> call[c].bodyEnded) /\ h.pipe = call[c].pipe
      /\ h.transport = call[c].transport /\ h.proxy = call[c].proxy
  <2>1. call[c].chunks + 1 \in 0..MaxChunks
    BY <1>2, TypedOf DEF Handlers
  <2>2. h = [call[c] EXCEPT !.at = "write", !.chunks = call[c].chunks + 1]
    BY <1>1, TypedOf DEF Handlers
  <2> QED
    BY <2>1, <2>2, TypedOf DEF Handlers
<1>4. Answering(h, ctx[c], sent[c])
  BY <1>2, <1>3, Of DEF Answering, Early
<1>5. Uploading(c, h, goroutine[c])
  BY <1>2, <1>3, Of, TypedOf DEF Uploading, Early, Handlers, Requests
<1>6. Told(h, goroutine[c], sent[c])
  BY <1>2, <1>3, Of DEF Told, Early
<1> QED
  BY <1>2, <1>3, <1>4, <1>5, <1>6, TypedOf, Moving

LEMMA ReceiveEndStep ==
  ASSUME IInv, NEW c \in Calls, ReceiveEnd(c)
  PROVE  IInv'
<1>1. PICK h : h = [call[c] EXCEPT !.at = "wait", !.bodyEnded = TRUE, !.pipe = "closed"]
  OBVIOUS
<1>2. call[c].at = "body" /\ UNCHANGED <<transports, goroutine, ctx, sent>>
      /\ call' = [call EXCEPT ![c] = h]
  BY <1>1 DEF ReceiveEnd, IInv
<1>3. /\ h \in Handlers /\ h.at = "wait" /\ h.chunks = call[c].chunks /\ h.bodyEnded
      /\ h.transport = call[c].transport /\ h.proxy = call[c].proxy
  BY <1>1, TypedOf DEF Handlers
<1>4. Answering(h, ctx[c], sent[c])
  BY <1>2, <1>3, Of DEF Answering, Early
<1>5. Uploading(c, h, goroutine[c])
  BY <1>2, <1>3, Of DEF Uploading, Early
<1>6. Told(h, goroutine[c], sent[c])
  BY <1>2, <1>3, Of DEF Told, Early
<1> QED
  BY <1>2, <1>3, <1>4, <1>5, <1>6, TypedOf, Moving

LEMMA ReceiveFailsStep ==
  ASSUME IInv, NEW c \in Calls, ReceiveFails(c)
  PROVE  IInv'
<1>1. PICK h : h = [call[c] EXCEPT !.at = "done", !.pipe = "broken"]
  OBVIOUS
<1>2. call' = [call EXCEPT ![c] = h]
  BY <1>1 DEF ReceiveFails, IInv
<1>3. h \in Handlers
  BY <1>1, TypedOf DEF Handlers
<1> QED
  BY <1>1, <1>2, <1>3, FailingLate DEF ReceiveFails

LEMMA WriteFailsStep ==
  ASSUME IInv, NEW c \in Calls, WriteFails(c)
  PROVE  IInv'
<1>1. PICK h : h = [call[c] EXCEPT !.at = "done"]
  OBVIOUS
<1>2. call' = [call EXCEPT ![c] = h]
  BY <1>1 DEF WriteFails, IInv
<1>3. h \in Handlers
  BY <1>1, TypedOf DEF Handlers
<1> QED
  BY <1>1, <1>2, <1>3, FailingLate DEF WriteFails

LEMMA WaitStep ==
  ASSUME IInv, NEW c \in Calls, Wait(c)
  PROVE  IInv'
<1>1. CASE call' = [call EXCEPT ![c].at = "done"] /\ Fail(c, "error")
  <2>1. PICK h : h = [call[c] EXCEPT !.at = "done"]
    OBVIOUS
  <2>2. call' = [call EXCEPT ![c] = h]
    BY <1>1, <2>1 DEF IInv
  <2>3. h \in Handlers
    BY <2>1, TypedOf DEF Handlers
  <2> QED
    BY <1>1, <2>1, <2>2, <2>3, FailingLate DEF Wait
<1>2. ASSUME NEW at \in {"start", "done"}, call' = [call EXCEPT ![c].at = at],
             at = "start" => goroutine[c].result /\ goroutine[c].at # "failed",
             UNCHANGED <<ctx, sent>>
      PROVE  IInv'
  <2>1. PICK h : h = [call[c] EXCEPT !.at = at]
    OBVIOUS
  <2>2. call[c].at = "wait" /\ UNCHANGED <<transports, goroutine, ctx, sent>>
        /\ call' = [call EXCEPT ![c] = h]
    BY <1>2, <2>1 DEF Wait, IInv
  <2>3. /\ h \in Handlers /\ h.at \in {"start", "done"} /\ h.at = at /\ h.chunks = call[c].chunks
        /\ (h.bodyEnded <=> call[c].bodyEnded) /\ h.pipe = call[c].pipe
        /\ h.transport = call[c].transport /\ h.proxy = call[c].proxy
    BY <2>1, TypedOf DEF Handlers
  <2>4. Answering(h, ctx[c], sent[c])
    BY <2>2, <2>3, Of DEF Answering, Early
  <2>5. Uploading(c, h, goroutine[c])
    BY <2>2, <2>3, Of DEF Uploading, Early
  <2>6. Told(h, goroutine[c], sent[c])
    BY <1>2, <2>2, <2>3, Of DEF Told, Early
  <2> QED
    BY <2>2, <2>3, <2>4, <2>5, <2>6, TypedOf, Moving
<1> QED
  BY <1>1, <1>2 DEF Wait

-----------------------------------------------------------------------------
(* Steps of net/http *)

LEMMA TakeChunkStep ==
  ASSUME IInv, NEW c \in Calls, TakeChunk(c)
  PROVE  IInv'
<1>1. PICK h, q : h = [call[c] EXCEPT !.at = "body"] /\ q = [goroutine[c] EXCEPT !.got = @ + 1]
  OBVIOUS
<1>2. /\ call[c].at = "write" /\ goroutine[c].body = "open" /\ UNCHANGED <<transports, ctx, sent>>
      /\ call' = [call EXCEPT ![c] = h] /\ goroutine' = [goroutine EXCEPT ![c] = q]
  BY <1>1 DEF TakeChunk, Reads, IInv
<1>3. /\ h \in Handlers /\ h.at = "body" /\ h.chunks = call[c].chunks
      /\ (h.bodyEnded <=> call[c].bodyEnded) /\ h.pipe = call[c].pipe
      /\ h.transport = call[c].transport /\ h.proxy = call[c].proxy
  BY <1>1, TypedOf DEF Handlers
<1>4. call[c].chunks = goroutine[c].got + 1 /\ ~call[c].bodyEnded
  BY <1>2, Of DEF Uploading, Early
<1>5. q \in Requests
  <2>1. goroutine[c].got + 1 \in 0..MaxChunks
    BY <1>4, TypedOf DEF Handlers, Requests
  <2> QED
    BY <1>1, <2>1, TypedOf DEF Requests
<1>6. /\ q.at = goroutine[c].at /\ (q.result <=> goroutine[c].result) /\ q.body = "open"
      /\ q.left = goroutine[c].left /\ q.reply = goroutine[c].reply /\ q.got = goroutine[c].got + 1
  BY <1>1, <1>2, TypedOf DEF Requests
<1>7. Answering(h, ctx[c], sent[c])
  BY <1>2, <1>3, Of DEF Answering, Early
<1>8. Uploading(c, h, q)
  BY <1>3, <1>4, <1>6, <1>2, Of DEF Uploading, Early
<1>9. Told(h, q, sent[c])
  BY <1>2, <1>3, <1>6, Of DEF Told, Early
<1> QED
  BY <1>2, <1>3, <1>5, <1>7, <1>8, <1>9, Moving

\* A step of the request alone.
LEMMA RequestMoves ==
  ASSUME IInv, NEW c \in Calls, NEW q \in Requests, goroutine' = [goroutine EXCEPT ![c] = q],
         UNCHANGED <<transports, call, ctx, sent>>,
         q.got = goroutine[c].got,
         q.body = "whole" => goroutine[c].body = "whole" \/ call[c].pipe = "closed",
         goroutine[c].at # "none", q.at # "none", goroutine[c].at = "answered" => q.at = "answered",
         q.result => q.at \in {"answered", "failed"},
         goroutine[c].at = "answered" => q.left = goroutine[c].left /\ q.reply = goroutine[c].reply
  PROVE  IInv'
<1>1. Uploading(c, call[c], q)
  BY Of DEF Uploading
<1>2. Told(call[c], q, sent[c])
  BY Of DEF Told
<1> QED
  BY <1>1, <1>2, Of, TypedOf, Moving

LEMMA CarryStep ==
  ASSUME IInv, NEW c \in Calls,
         TakeEnd(c) \/ Answer(c) \/ RequestFails(c) \/ GiveUpBody(c) \/ Deliver(c)
  PROVE  IInv'
<1> DEFINE g == goroutine[c]
<1>0. g \in Requests /\ (g.result => g.at \in {"answered", "failed"})
  BY Of, TypedOf DEF Told
<1>1. CASE TakeEnd(c)
  <2>1. PICK q : q = [g EXCEPT !.body = IF call[c].pipe = "closed" THEN "whole" ELSE "broken",
                               !.at = IF call[c].pipe = "broken" /\ @ = "sending" THEN "failed" ELSE @]
    OBVIOUS
  <2>2. goroutine' = [goroutine EXCEPT ![c] = q] /\ UNCHANGED <<transports, call, ctx, sent>>
        /\ g.at \in {"sending", "answered"}
    BY <1>1, <2>1 DEF TakeEnd, Reads, IInv
  <2>3. /\ q \in Requests /\ q.got = g.got /\ (q.body = "whole" => call[c].pipe = "closed")
        /\ q.at # "none" /\ (g.at = "answered" => q.at = "answered") /\ (q.result <=> g.result)
        /\ q.left = g.left /\ q.reply = g.reply
    BY <1>0, <2>1, <2>2 DEF Requests
  <2> QED
    BY <1>0, <2>2, <2>3, RequestMoves
<1>2. CASE Answer(c)
  <2>1. PICK n \in 0..MaxReply, reply \in {"whole", "broken"} :
          goroutine' = [goroutine EXCEPT ![c].at = "answered", ![c].left = n, ![c].reply = reply]
    BY <1>2 DEF Answer
  <2>2. PICK q : q = [g EXCEPT !.at = "answered", !.left = n, !.reply = reply]
    OBVIOUS
  <2>3. goroutine' = [goroutine EXCEPT ![c] = q] /\ UNCHANGED <<transports, call, ctx, sent>>
        /\ g.at = "sending"
    BY <1>2, <2>1, <2>2 DEF Answer, IInv
  <2>4. q \in Requests /\ q.got = g.got /\ q.body = g.body /\ q.at = "answered"
    BY <1>0, <2>2 DEF Requests
  <2> QED
    BY <2>3, <2>4, RequestMoves
<1>3. CASE RequestFails(c)
  <2>1. PICK q : q = [g EXCEPT !.at = "failed", !.body = IF @ = "open" THEN "given_up" ELSE @]
    OBVIOUS
  <2>2. goroutine' = [goroutine EXCEPT ![c] = q] /\ UNCHANGED <<transports, call, ctx, sent>>
        /\ g.at = "sending"
    BY <1>3, <2>1 DEF RequestFails, IInv
  <2>3. /\ q \in Requests /\ q.got = g.got /\ (q.body = "whole" => g.body = "whole")
        /\ q.at = "failed"
    BY <1>0, <2>1 DEF Requests
  <2> QED
    BY <2>2, <2>3, RequestMoves
<1>4. CASE GiveUpBody(c)
  <2>1. PICK q : q = [g EXCEPT !.body = "given_up"]
    OBVIOUS
  <2>2. goroutine' = [goroutine EXCEPT ![c] = q] /\ UNCHANGED <<transports, call, ctx, sent>>
        /\ g.at = "answered"
    BY <1>4, <2>1 DEF GiveUpBody, IInv
  <2>3. /\ q \in Requests /\ q.got = g.got /\ q.body = "given_up" /\ q.at = g.at
        /\ q.left = g.left /\ q.reply = g.reply
    BY <1>0, <2>1 DEF Requests
  <2> QED
    BY <2>2, <2>3, RequestMoves
<1>5. CASE Deliver(c)
  <2>1. PICK q : q = [g EXCEPT !.result = TRUE]
    OBVIOUS
  <2>2. goroutine' = [goroutine EXCEPT ![c] = q] /\ UNCHANGED <<transports, call, ctx, sent>>
        /\ g.at \in {"answered", "failed"}
    BY <1>5, <2>1 DEF Deliver, IInv
  <2>3. /\ q \in Requests /\ q.got = g.got /\ q.body = g.body /\ q.at = g.at
        /\ q.left = g.left /\ q.reply = g.reply
    BY <1>0, <2>1 DEF Requests
  <2> QED
    BY <2>2, <2>3, RequestMoves
<1> QED
  BY <1>1, <1>2, <1>3, <1>4, <1>5

-----------------------------------------------------------------------------
(* Steps that send, share a transport, or break off *)

\* A frame of the response is sent; the handler ends if the host is gone.
LEMMA Passing ==
  ASSUME IInv, NEW c \in Calls, NEW f \in {"start", "chunk"}, Send(c, f),
         call[c].at = IF f = "start" THEN "start" ELSE "reply",
         NEW h, h = [call[c] EXCEPT !.at = IF ctx[c] = "live" THEN "reply" ELSE "done"],
         call' = [call EXCEPT ![c] = h],
         NEW q \in Requests, q.at = "answered", q.got = goroutine[c].got,
         q.body = goroutine[c].body,
         goroutine' = [goroutine EXCEPT ![c] = q] \/ (goroutine' = goroutine /\ q = goroutine[c]),
         UNCHANGED <<transports, ctx>>
  PROVE  IInv'
<1>1. /\ h \in Handlers /\ h.at = (IF ctx[c] = "live" THEN "reply" ELSE "done")
      /\ h.chunks = call[c].chunks /\ (h.bodyEnded <=> call[c].bodyEnded) /\ h.pipe = call[c].pipe
      /\ h.transport = call[c].transport /\ h.proxy = call[c].proxy
  BY TypedOf DEF Handlers
<1>2. /\ f \in Frames /\ f \notin Terminal /\ call[c].at # "done"
      /\ f = "start" => sent[c] = <<>>
      /\ f = "chunk" => sent[c] # <<>> /\ sent[c][1] = "start"
  BY Of DEF Frames, Terminal, Answering, Early
<1>3. /\ sent' \in [Calls -> Seq(Frames)] /\ \A d \in Calls \ {c} : sent'[d] = sent[d]
      /\ Ordered(sent'[c]) /\ Unfinished(sent'[c])
      /\ ctx[c] = "live" => sent'[c] # <<>> /\ sent'[c][1] = "start"
  BY <1>2, Sending
<1>4. /\ call' \in [Calls -> Handlers] /\ call'[c] = h
      /\ \A d \in Calls \ {c} : call'[d] = call[d]
      /\ goroutine' \in [Calls -> Requests] /\ goroutine'[c] = q
      /\ \A d \in Calls \ {c} : goroutine'[d] = goroutine[d]
  BY <1>1 DEF IInv
<1>5. OthersKeep(c)
  BY <1>3, <1>4 DEF OthersKeep, IInv
<1>6. Answering(h, ctx[c], sent'[c])
  <2>1. ctx[c] # "returned"
    BY <1>2, Of DEF Answering
  <2> QED
    BY <2>1, <1>1, <1>3 DEF Answering, Early
<1>7. Uploading(c, h, q)
  BY <1>1, <1>2, Of DEF Uploading, Early
<1>8. Told(h, q, sent'[c])
  BY <1>1, <1>3 DEF Told, Early, Has, Unfinished, Terminal
<1>9. Typed(h, q, ctx[c], sent'[c])
  BY <1>1, <1>3, TypedOf DEF Typed
<1>10. After(c)
  BY <1>4, <1>6, <1>7, <1>8, <1>9 DEF After, CallInv
<1> QED
  BY <1>1, <1>4, <1>5, <1>10, OneCall, Of

LEMMA SendStartStep ==
  ASSUME IInv, NEW c \in Calls, SendStart(c)
  PROVE  IInv'
<1>1. PICK h : h = [call[c] EXCEPT !.at = IF ctx[c] = "live" THEN "reply" ELSE "done"]
  OBVIOUS
<1>2. call' = [call EXCEPT ![c] = h] /\ call[c].at = "start" /\ Send(c, "start")
      /\ UNCHANGED <<transports, goroutine, ctx>>
  BY <1>1 DEF SendStart, IInv
<1>3. goroutine[c].at = "answered"
  BY <1>2, Of DEF Told
<1> QED
  BY <1>1, <1>2, <1>3, TypedOf, Passing

LEMMA PassChunkStep ==
  ASSUME IInv, NEW c \in Calls, PassChunk(c)
  PROVE  IInv'
<1>1. PICK h, q : /\ h = [call[c] EXCEPT !.at = IF ctx[c] = "live" THEN "reply" ELSE "done"]
                  /\ q = [goroutine[c] EXCEPT !.left = @ - 1]
  OBVIOUS
<1>2. /\ call[c].at = "reply" /\ goroutine[c].left > 0 /\ Send(c, "chunk")
      /\ UNCHANGED <<transports, ctx>>
      /\ call' = [call EXCEPT ![c] = h] /\ goroutine' = [goroutine EXCEPT ![c] = q]
  BY <1>1 DEF PassChunk, IInv
<1>3. q \in Requests /\ q.at = goroutine[c].at /\ q.got = goroutine[c].got
      /\ q.body = goroutine[c].body
  <2>1. goroutine[c].left - 1 \in 0..MaxReply
    BY <1>2, TypedOf DEF Requests
  <2> QED
    BY <1>1, <2>1, TypedOf DEF Requests
<1>4. goroutine[c].at = "answered"
  BY <1>2, Of DEF Told
<1> QED
  BY <1>1, <1>2, <1>3, <1>4, Passing

LEMMA FinishStep ==
  ASSUME IInv, NEW c \in Calls, Finish(c)
  PROVE  IInv'
<1> DEFINE f == IF goroutine[c].reply = "whole" /\ goroutine[c].left = 0 THEN "end" ELSE "error"
<1>1. call[c].at = "reply" /\ Fail(c, f) /\ f \in Terminal /\ UNCHANGED <<transports, goroutine>>
      /\ call' = [call EXCEPT ![c].at = "done"]
  BY DEF Finish, Terminal
<1>2. sent[c] # <<>> /\ sent[c][1] = "start" /\ goroutine[c].at = "answered"
  BY <1>1, Of DEF Answering, Told
<1>3. /\ sent' \in [Calls -> Seq(Frames)] /\ \A d \in Calls \ {c} : sent'[d] = sent[d]
      /\ ctx' \in [Calls -> {"live", "cancelled", "returned"}]
      /\ \A d \in Calls \ {c} : ctx'[d] = ctx[d]
      /\ \A h : h.at = "done" => Answering(h, ctx'[c], sent'[c])
      /\ \A g \in Terminal : Has(sent'[c], g) => g = f
  BY <1>1, <1>2, Failing
<1>4. PICK h : h = [call[c] EXCEPT !.at = "done"]
  OBVIOUS
<1>5. /\ h \in Handlers /\ h.at = "done" /\ (h.bodyEnded <=> call[c].bodyEnded)
      /\ h.chunks = call[c].chunks /\ h.pipe = call[c].pipe
      /\ h.transport = call[c].transport /\ h.proxy = call[c].proxy
  BY <1>4, TypedOf DEF Handlers
<1>6. /\ call' \in [Calls -> Handlers] /\ call'[c] = h
      /\ \A d \in Calls \ {c} : call'[d] = call[d]
  BY <1>1, <1>4, <1>5 DEF IInv
<1>7. OthersKeep(c)
  BY <1>1, <1>3, <1>6 DEF OthersKeep, IInv
<1>8. Uploading(c, h, goroutine[c])
  BY <1>5, Of, DoneUploading
<1>9. Told(h, goroutine[c], sent'[c])
  BY <1>2, <1>3, <1>5, Of DEF Told, Early, Terminal
<1>10. Typed(call'[c], goroutine'[c], ctx'[c], sent'[c])
  BY <1>7 DEF OthersKeep, Typed
<1>11. After(c)
  BY <1>1, <1>3, <1>5, <1>6, <1>8, <1>9, <1>10 DEF After, CallInv
<1> QED
  BY <1>1, <1>5, <1>6, <1>7, <1>11, OneCall, Of

LEMMA CancelStep ==
  ASSUME IInv, NEW c \in Calls, Cancel(c)
  PROVE  IInv'
<1>1. /\ ctx' = [ctx EXCEPT ![c] = "cancelled"] /\ ctx[c] = "live"
      /\ UNCHANGED <<transports, call, goroutine, sent>>
  BY DEF Cancel
<1>2. OthersKeep(c) /\ ctx'[c] = "cancelled"
  BY <1>1 DEF OthersKeep, IInv
<1>3. Answering(call[c], "cancelled", sent[c])
  BY <1>1, Of DEF Answering
<1>4. After(c)
  BY <1>1, <1>2, <1>3, Of, TypedOf DEF After, CallInv, Typed
<1> QED
  BY <1>1, <1>2, <1>4, OneCall, Of

\* The goroutine is started through the transport that was found or created.
LEMMA Launching ==
  ASSUME IInv, NEW c \in Calls, call[c].at \in {"look", "create"}, NEW transport \in Calls,
         Launch(c, transport)
  PROVE  /\ OthersKeep(c) /\ After(c) /\ call'[c].proxy = call[c].proxy
         /\ call'[c].transport \in {None, transport}
<1>1. CASE /\ call' = [call EXCEPT ![c].at = "body", ![c].transport = transport]
           /\ goroutine' = [goroutine EXCEPT ![c].at = "sending",
                                             ![c].body = IF c \in Uploads THEN "open" ELSE "whole"]
           /\ UNCHANGED <<ctx, sent>>
  <2>1. PICK h, q :
          /\ h = [call[c] EXCEPT !.at = "body", !.transport = transport]
          /\ q = [goroutine[c] EXCEPT !.at = "sending",
                                      !.body = IF c \in Uploads THEN "open" ELSE "whole"]
    OBVIOUS
  <2>2. /\ call' = [call EXCEPT ![c] = h] /\ goroutine' = [goroutine EXCEPT ![c] = q]
        /\ UNCHANGED <<ctx, sent>>
    BY <1>1, <2>1 DEF IInv
  <2>3. /\ h \in Handlers /\ h.at = "body" /\ (h.bodyEnded <=> call[c].bodyEnded)
        /\ h.chunks = call[c].chunks /\ h.pipe = call[c].pipe
        /\ h.transport = transport /\ h.proxy = call[c].proxy
    BY <2>1, TypedOf DEF Handlers
  <2>4. /\ q \in Requests /\ q.at = "sending" /\ q.got = goroutine[c].got
        /\ (q.body = "whole" => c \notin Uploads) /\ (q.result <=> goroutine[c].result)
    BY <2>1, TypedOf DEF Requests
  <2>5. /\ call' \in [Calls -> Handlers] /\ call'[c] = h
        /\ \A d \in Calls \ {c} : call'[d] = call[d]
        /\ goroutine' \in [Calls -> Requests] /\ goroutine'[c] = q
        /\ \A d \in Calls \ {c} : goroutine'[d] = goroutine[d]
    BY <2>2, <2>3, <2>4 DEF IInv
  <2>6. OthersKeep(c)
    BY <2>2, <2>5 DEF OthersKeep, IInv
  <2>7. goroutine[c].at = "none" /\ ~goroutine[c].result /\ Unfinished(sent[c])
    BY Of DEF Told, Early, Answering
  <2>8. Answering(h, ctx[c], sent[c])
    BY <2>3, Of DEF Answering, Early
  <2>9. Uploading(c, h, q)
    BY <2>3, <2>4, Of DEF Uploading, Early
  <2>10. Told(h, q, sent[c])
    BY <2>3, <2>4, <2>7 DEF Told, Early, Has, Unfinished, Terminal
  <2>11. After(c)
    BY <2>2, <2>3, <2>4, <2>5, <2>8, <2>9, <2>10, TypedOf DEF After, CallInv, Typed
  <2> QED
    BY <2>3, <2>5, <2>6, <2>11
<1>2. CASE /\ call' = [call EXCEPT ![c].at = "done"] /\ Fail(c, "error_not_sent")
           /\ UNCHANGED goroutine
  <2>1. OthersKeep(c) /\ After(c) /\ call'[c].transport = None
    BY <1>2, FailingEarly DEF Early
  <2>2. call'[c].proxy = call[c].proxy
    BY <1>2 DEF IInv, Handlers
  <2> QED
    BY <2>1, <2>2
<1> QED
  BY <1>1, <1>2 DEF Launch

LEMMA LookStep ==
  ASSUME IInv, NEW c \in Calls, Look(c)
  PROVE  IInv'
<1>1. call[c].at = "look" /\ UNCHANGED transports /\ call[c].proxy \in Proxies
  BY TypedOf DEF Look, Handlers
<1>2. CASE transports[call[c].proxy] # None
  <2> DEFINE transport == transports[call[c].proxy]
  <2>1. Launch(c, transport) /\ transport \in Calls
    BY <1>1, <1>2 DEF Look, IInv
  <2>2. OthersKeep(c) /\ After(c) /\ call'[c].proxy = call[c].proxy
        /\ call'[c].transport \in {None, transport}
    BY <1>1, <2>1, Launching
  <2> QED
    BY <1>1, <2>2, OneCall
<1>3. CASE transports[call[c].proxy] = None
  <2>1. PICK h : h = [call[c] EXCEPT !.at = "create"]
    OBVIOUS
  <2>2. call' = [call EXCEPT ![c] = h] /\ UNCHANGED <<transports, goroutine, ctx, sent>>
    BY <1>1, <1>3, <2>1 DEF Look, IInv
  <2>3. /\ h \in Handlers /\ h.at = "create" /\ (h.bodyEnded <=> call[c].bodyEnded)
        /\ h.chunks = call[c].chunks /\ h.pipe = call[c].pipe
        /\ h.transport = call[c].transport /\ h.proxy = call[c].proxy
    BY <2>1, TypedOf DEF Handlers
  <2>4. Answering(h, ctx[c], sent[c])
    BY <1>1, <2>3, Of DEF Answering, Early
  <2>5. Uploading(c, h, goroutine[c])
    BY <1>1, <2>3, Of DEF Uploading, Early
  <2>6. Told(h, goroutine[c], sent[c])
    BY <1>1, <2>3, Of DEF Told, Early
  <2> QED
    BY <2>2, <2>3, <2>4, <2>5, <2>6, TypedOf, Moving
<1> QED
  BY <1>2, <1>3

LEMMA CreateStep ==
  ASSUME IInv, NEW c \in Calls, Create(c)
  PROVE  IInv'
<1> DEFINE proxy == call[c].proxy
           existing == transports[proxy]
           chosen == IF existing # None THEN existing ELSE c
<1>1. call[c].at = "create" /\ proxy \in Proxies /\ None \notin Calls
  BY TypedOf, ForwardAssumption DEF Create, Handlers
<1>2. CASE transports' = [transports EXCEPT ![proxy] = chosen] /\ Launch(c, chosen)
  <2>1. chosen \in Calls /\ chosen # None
    BY <1>1 DEF IInv
  <2>2. OthersKeep(c) /\ After(c) /\ call'[c].proxy = proxy /\ call'[c].transport \in {None, chosen}
    BY <1>1, <1>2, <2>1, Launching
  <2>3. transports' \in [Proxies -> Calls \union {None}] /\ transports'[proxy] = chosen
    BY <1>1, <1>2, <2>1 DEF IInv
  <2>4. \A p \in Proxies : transports[p] # None => transports'[p] = transports[p]
    BY <1>1, <1>2 DEF IInv
  <2>5. OneTransport'
    <3>1. ASSUME NEW d \in Calls, call'[d].transport # None
          PROVE  transports'[call'[d].proxy] = call'[d].transport
      <4>1. CASE d = c
        BY <4>1, <3>1, <2>2, <2>3
      <4>2. CASE d # c
        <5>1. call'[d] = call[d]
          BY <4>2, <2>2 DEF OthersKeep
        <5>2. call[d].proxy \in Proxies /\ transports[call[d].proxy] = call[d].transport
          BY <5>1, <3>1, Of, TypedOf DEF Handlers
        <5> QED
          BY <5>1, <5>2, <3>1, <2>4
      <4> QED
        BY <4>1, <4>2
    <3> QED
      BY <3>1 DEF OneTransport
  <2>6. \A d \in Calls : CallInv(d, call[d], goroutine[d], ctx[d], sent[d])'
    BY <2>2 DEF OthersKeep, After, IInv
  <2> QED
    BY <2>2, <2>3, <2>5, <2>6 DEF OthersKeep, IInv
<1>3. CASE /\ transports[call[c].proxy] = None
           /\ call' = [call EXCEPT ![c].at = "done"] /\ Fail(c, "error_not_sent")
           /\ UNCHANGED <<transports, goroutine>>
  BY <1>1, <1>3, FailingEarly, OneCall DEF Early
<1> QED
  BY <1>2, <1>3 DEF Create

-----------------------------------------------------------------------------

LEMMA InitIInv == Init => IInv
<1> SUFFICES ASSUME Init PROVE IInv
  OBVIOUS
<1> USE DEF Init
<1>1. call \in [Calls -> Handlers]
  BY DEF Handlers
<1>2. goroutine \in [Calls -> Requests]
  BY ForwardAssumption DEF Requests
<1>3. ctx \in [Calls -> {"live", "cancelled", "returned"}] /\ sent \in [Calls -> Seq(Frames)]
  BY EmptySeq
<1>4. ASSUME NEW c \in Calls
      PROVE  CallInv(c, call[c], goroutine[c], ctx[c], sent[c]) /\ call[c].transport = None
  <2>1. /\ call[c].at = "first" /\ call[c].transport = None /\ call[c].chunks = 0
        /\ ~call[c].bodyEnded /\ call[c].pipe = "open"
    OBVIOUS
  <2>2. /\ goroutine[c].at = "none" /\ ~goroutine[c].result /\ goroutine[c].got = 0
        /\ goroutine[c].body = "open"
    OBVIOUS
  <2>3. Typed(call[c], goroutine[c], ctx[c], sent[c])
    BY <1>1, <1>2, <1>3 DEF Typed
  <2>4. sent[c] = <<>> /\ ctx[c] = "live" /\ DOMAIN sent[c] = {}
    OBVIOUS
  <2>5. Answering(call[c], ctx[c], sent[c])
    BY <2>1, <2>4 DEF Answering, Ordered, Unfinished
  <2>6. Uploading(c, call[c], goroutine[c])
    BY <2>1, <2>2 DEF Uploading
  <2>7. Told(call[c], goroutine[c], sent[c])
    BY <2>1, <2>2, <2>4 DEF Told, Has
  <2> QED
    BY <2>1, <2>3, <2>5, <2>6, <2>7 DEF CallInv
<1> QED
  BY <1>1, <1>2, <1>3, <1>4 DEF IInv, OneTransport

LEMMA StepIInv == IInv /\ [Next]_vars => IInv'
<1> SUFFICES ASSUME IInv, [Next]_vars PROVE IInv'
  OBVIOUS
<1>1. CASE UNCHANGED vars
  BY <1>1 DEF vars, IInv, OneTransport
<1>2. ASSUME NEW c \in Calls, Handle(c)
      PROVE  IInv'
  BY <1>2, LookStep, CreateStep, WriteFailsStep, WaitStep, SendStartStep, PassChunkStep, FinishStep
     DEF Handle
<1>3. ASSUME NEW c \in Calls, Carry(c) \/ Answer(c) \/ RequestFails(c)
      PROVE  IInv'
  BY <1>3, TakeChunkStep, CarryStep DEF Carry
<1>4. ASSUME NEW c \in Calls, Host(c)
      PROVE  IInv'
  BY <1>4, BeginStep, ReceiveStep, ReceiveEndStep, ReceiveFailsStep, CancelStep DEF Host
<1> QED
  BY <1>1, <1>2, <1>3, <1>4 DEF Next

LEMMA Invariance == Spec => []IInv
<1> QED
  BY InitIInv, StepIInv, PTL DEF Spec

\* Handlers, requests and frames are well-typed, an end or an error is the last
\* frame, and what belongs to a response follows its start.
THEOREM TypeCorrect == Spec => []TypeOK
<1>1. IInv => TypeOK
  <2> SUFFICES ASSUME IInv PROVE TypeOK
    OBVIOUS
  <2>1. \A c \in Calls : Ordered(sent[c])
    BY Of DEF Answering
  <2> QED
    BY <2>1 DEF IInv, TypeOK, Ordered, Frames
<1> QED
  BY <1>1, Invariance, PTL

\* A call that was not broken off ends with an end or an error (every return of
\* Forward goes through sendForwardError or the End frame).
THEOREM CallsAnswered == Spec => []EveryCallAnswered
<1>1. IInv => EveryCallAnswered
  BY Of DEF EveryCallAnswered, Answering, Finished
<1> QED
  BY <1>1, Invariance, PTL

\* RequestSent = false is only told of a call whose goroutine was never started.
THEOREM NotSentTrue == Spec => []NotSentIsTrue
<1>1. IInv => NotSentIsTrue
  BY Of DEF NotSentIsTrue, Told, Sent, Has
<1> QED
  BY <1>1, Invariance, PTL

\* Whenever the host breaks off and however far the upstream has read: the body it
\* takes for whole is the one the host sent.
THEOREM TruncationShows == Spec => []TruncatedIsNotWhole
<1>1. IInv => TruncatedIsNotWhole
  BY Of DEF TruncatedIsNotWhole, Uploading
<1> QED
  BY <1>1, Invariance, PTL

\* The end of a response is only told when it was read to its end.
THEOREM EndTrue == Spec => []EndMeansComplete
<1>1. IInv => EndMeansComplete
  BY Of DEF EndMeansComplete, Told, Sent, Has
<1> QED
  BY <1>1, Invariance, PTL

\* Any number of calls through one proxy share one transport.
THEOREM TransportShared == Spec => []OneTransport
<1>1. IInv => OneTransport
  BY DEF IInv
<1> QED
  BY <1>1, Invariance, PTL
=============================================================================
