--------------------------- MODULE RequestTracing ---------------------------
(***************************************************************************)
(* The rest of the Go service: the server and its shutdown (main.go), the  *)
(* handlers of /, /ping and /fibonacci, and the spans every request starts *)
(* and ends around them (opentelemetry.go, and the deferred span.End() of  *)
(* each handler).  A request is a stack of calls, the otelgin middleware   *)
(* at its bottom; the stacks of different requests interleave.  Ended      *)
(* spans go to the queue of the batch processor, whose goroutine exports   *)
(* them.  Gin, otelgin and the OpenTelemetry SDK are external and modelled *)
(* by what the code of the repository makes of them.                       *)
(***************************************************************************)
EXTENDS Integers, Sequences

CONSTANTS
  Requests,     \* the HTTP requests clients send, each once
  Numbers,      \* what the parameter "number" of /fibonacci may parse to
  Bad,          \* a value of "number" that is not an integer
  Word,         \* int has the values -Word .. Word-1
  Fib,          \* the reference: Fibonacci numbers in that arithmetic
  QueueSize,    \* spans the batch processor holds; it drops the others
  MayAsk(_)     \* bound: what a request may ask for, of Ask

\* The value of a sum in two's complement.
Wrap(k) == ((k + Word) % (2 * Word)) - Word

ASSUME TracingAssumption ==
  /\ Word \in Nat \ {0, 1} /\ QueueSize \in Nat \ {0}
  /\ Numbers \subseteq {n \in Int : n >= -Word} /\ Bad \notin Int
  /\ \A n \in Numbers : n > 1 => {n - 1, n - 2} \subseteq Numbers
  /\ Fib \in [Numbers -> Int]
  /\ \A n \in Numbers :
       Fib[n] = IF n <= 1 THEN n ELSE Wrap(Fib[n - 1] + Fib[n - 2])

VARIABLES
  phase,   \* of the process: starting, serving, draining, exited, killed
  asked,   \* what a request asks for
  stack,   \* the calls of a request that have not returned
  answer,  \* the status and the number sent to the client
  spans,   \* the spans of a request in the order they were started
  queue    \* the ended spans that wait for the exporter, as <<request, index>>

vars == <<phase, asked, stack, answer, spans, queue>>

Paths == {"/", "/ping", "/video", "/videos"}
Ask == [path : Paths, number : {Bad}] \cup
       [path : {"/fibonacci"}, number : Numbers \cup {Bad}]
ASSUME AskAssumption == \A r \in Requests : MayAsk(r) \subseteq Ask
NoAsk == [path |-> "none", number |-> Bad]
NoAnswer == [status |-> 0, value |-> Bad]

(***************************************************************************)
(* A frame is a call: the function, its argument, the index of the span    *)
(* its deferred function ends (0: none), and what its calls returned.      *)
(***************************************************************************)
Frame(fn, n, span) == [fn |-> fn, n |-> n, span |-> span, got |-> <<>>]
Top(r) == stack[r][Len(stack[r])]
Pop(r) == SubSeq(stack[r], 1, Len(stack[r]) - 1)

\* tracer.Start under the span with index parent; 0 starts a new trace.
NewSpan(parent) == [parent |-> parent, at |-> "open", error |-> FALSE]

\* span.End, after RecordError and SetStatus if error: a span that has ended
\* already is left as it is, and one that finds no room is dropped.
Room == phase = "serving" /\ Len(queue) < QueueSize

\* Variants: the queue grows without bound; a span may end twice.
EndUnbounded(r, i, error) ==
  IF i = 0 \/ spans[r][i].at # "open" THEN UNCHANGED <<spans, queue>>
  ELSE /\ spans' = [spans EXCEPT ![r][i] =
                      [@ EXCEPT !.at = "queued", !.error = error]]
       /\ queue' = Append(queue, <<r, i>>)

EndAgain(r, i, error) ==
  IF i = 0 THEN UNCHANGED <<spans, queue>>
  ELSE /\ spans' = [spans EXCEPT ![r][i] =
            [@ EXCEPT !.at = IF Room THEN "queued" ELSE "dropped",
                      !.error = error]]
       /\ queue' = IF Room THEN Append(queue, <<r, i>>) ELSE queue

End(r, i, error) ==
  IF i = 0 \/ spans[r][i].at # "open" THEN UNCHANGED <<spans, queue>>
  ELSE /\ spans' = [spans EXCEPT ![r][i] =
            [@ EXCEPT !.at = IF Room THEN "queued" ELSE "dropped",
                      !.error = error]]
       /\ queue' = IF Room THEN Append(queue, <<r, i>>) ELSE queue

Init ==
  /\ phase = "starting"
  /\ asked = [r \in Requests |-> NoAsk]
  /\ stack = [r \in Requests |-> <<>>]
  /\ answer = [r \in Requests |-> NoAnswer]
  /\ spans = [r \in Requests |-> <<>>]
  /\ queue = <<>>
-----------------------------------------------------------------------------
(***************************************************************************)
(* The process.                                                            *)
(***************************************************************************)
Running == phase \in {"serving", "draining"}

Serve == /\ phase = "starting" /\ phase' = "serving"
         /\ UNCHANGED <<asked, stack, answer, spans, queue>>

\* initTracer fails (traces.json, the Jaeger endpoint): log.Fatal.
TracerFails == /\ phase = "starting" /\ phase' = "killed"
               /\ UNCHANGED <<asked, stack, answer, spans, queue>>

\* The process is gone, with its handlers, the spans they had open and the
\* queue.
Exit(how) ==
  /\ phase' = how
  /\ stack' = [r \in Requests |-> <<>>]
  /\ spans' = [r \in Requests |-> [i \in DOMAIN spans[r] |->
       [spans[r][i] EXCEPT !.at = CASE @ = "open" -> "cut"
                                    [] @ = "queued" -> "lost"
                                    [] OTHER -> @]]]
  /\ queue' = <<>>
  /\ UNCHANGED <<asked, answer>>

\* Variant: main without the deferred Shutdown.
RunReturnsUnflushed == phase = "serving" /\ Exit("exited")

\* The listener fails (the port is taken, say), router.Run returns its error,
\* which main ignores, and the deferred tp.Shutdown starts.
RunReturns == /\ phase = "serving" /\ phase' = "draining"
              /\ UNCHANGED <<asked, stack, answer, spans, queue>>

\* Variant: main waits for the handlers first, without a time limit.
MainReturnsIdle == /\ phase = "draining" /\ queue = <<>>
                   /\ \A r \in Requests : stack[r] = <<>>
                   /\ Exit("exited")

\* Shutdown returns when the queue is empty, and main with it.
MainReturns == phase = "draining" /\ queue = <<>> /\ Exit("exited")

\* SIGTERM (nothing handles it), SIGKILL, or log.Fatal in getFgaClient.
Kill == Running /\ Exit("killed")

\* The goroutine of the batch processor.  Nothing but the SDK's log tells an
\* export that failed from one that did not.
Export ==
  /\ Running /\ queue # <<>>
  /\ queue' = Tail(queue)
  /\ spans' = [spans EXCEPT ![Head(queue)[1]][Head(queue)[2]].at = "exported"]
  /\ UNCHANGED <<phase, asked, stack, answer>>
-----------------------------------------------------------------------------
\* Variant: main does not install the middleware.
ArriveUntraced(r) ==
  /\ phase = "serving" /\ asked[r] = NoAsk
  /\ \E a \in MayAsk(r) :
       LET own == a.path \notin {"/", "/ping"} IN
       /\ asked' = [asked EXCEPT ![r] = a]
       /\ spans' = [spans EXCEPT ![r] = IF own THEN <<NewSpan(0)>> ELSE <<>>]
       /\ stack' = [stack EXCEPT ![r] =
                      <<Frame("handler", a.number, IF own THEN 1 ELSE 0)>>]
  /\ UNCHANGED <<phase, answer, queue>>

(***************************************************************************)
(* A request arrives: otelgin starts the server span, and the handler,     *)
(* unless it is rootHandler or pingHandler, one of its own.  The handlers  *)
(* pass the gin context to Start, which does not hand on the span of the   *)
(* request, so theirs is the root of another trace.  pingHandler takes the *)
(* server span from the request and ends it itself.                        *)
(***************************************************************************)
Arrive(r) ==
  /\ phase = "serving" /\ asked[r] = NoAsk
  /\ \E a \in MayAsk(r) :
       LET own == a.path \notin {"/", "/ping"}
           span == CASE own -> 2 [] a.path = "/ping" -> 1 [] OTHER -> 0 IN
       /\ asked' = [asked EXCEPT ![r] = a]
       /\ spans' = [spans EXCEPT ![r] = IF own
                      THEN <<NewSpan(0), NewSpan(0)>> ELSE <<NewSpan(0)>>]
       /\ stack' = [stack EXCEPT ![r] =
                      <<Frame("middleware", Bad, 1),
                        Frame("handler", a.number, span)>>]
  /\ UNCHANGED <<phase, answer, queue>>

\* The arguments of the calls a frame makes, in order: the handler calls
\* calculateFibonacci once, and it calls itself twice if n > 1.
Calls(f) ==
  CASE f.fn = "handler" /\ f.n # Bad -> <<f.n>>
    [] f.fn = "calculateFibonacci" /\ f.n > 1 -> <<f.n - 1, f.n - 2>>
    [] OTHER -> <<>>

Calling(r) == /\ Running /\ stack[r] # <<>>
              /\ Len(Top(r).got) < Len(Calls(Top(r)))
Returning(r, fn) == /\ Running /\ stack[r] # <<>> /\ Top(r).fn = fn
                    /\ Len(Top(r).got) = Len(Calls(Top(r)))

\* calculateFibonacci starts a span under that of its caller.
Call(r) ==
  /\ Calling(r)
  /\ spans' = [spans EXCEPT ![r] = Append(@, NewSpan(Top(r).span))]
  /\ stack' = [stack EXCEPT ![r] = Append(@,
                 Frame("calculateFibonacci",
                       Calls(Top(r))[Len(Top(r).got) + 1],
                       Len(spans[r]) + 1))]
  /\ UNCHANGED <<phase, asked, answer, queue>>

\* Variant: the sum is not an int.
UnboundedSum(f) == IF f.n <= 1 THEN f.n ELSE f.got[1] + f.got[2]

\* What calculateFibonacci returns, in the arithmetic of int.
Sum(f) == IF f.n <= 1 THEN f.n ELSE Wrap(f.got[1] + f.got[2])

\* Variant: the early return comes before the deferred End is set up.
ReturnUnended(r) ==
  /\ Returning(r, "calculateFibonacci")
  /\ IF Top(r).n <= 1 THEN UNCHANGED <<spans, queue>>
     ELSE End(r, Top(r).span, FALSE)
  /\ stack' = [stack EXCEPT ![r] =
                 [Pop(r) EXCEPT ![Len(Pop(r))].got = Append(@, Sum(Top(r)))]]
  /\ UNCHANGED <<phase, asked, answer>>

Return(r) ==
  /\ Returning(r, "calculateFibonacci")
  /\ End(r, Top(r).span, FALSE)
  /\ stack' = [stack EXCEPT ![r] =
                 [Pop(r) EXCEPT ![Len(Pop(r))].got = Append(@, Sum(Top(r)))]]
  /\ UNCHANGED <<phase, asked, answer>>

(***************************************************************************)
(* How a handler may finish: the status and whether httpError recorded an  *)
(* error in its span.  getDB, fibonacciHandler and rootHandler answer      *)
(* their failures without it.                                              *)
(***************************************************************************)
Outcomes(a) ==
  CASE a.path = "/" -> {<<200, FALSE>>, <<500, FALSE>>}
    [] a.path = "/ping" -> {<<200, FALSE>>, <<400, TRUE>>}
    [] a.path = "/fibonacci" -> {<<IF a.number = Bad THEN 400 ELSE 200, FALSE>>}
    [] a.path = "/videos" -> {<<200, FALSE>>, <<400, FALSE>>, <<401, TRUE>>,
                              <<500, TRUE>>}
    [] a.path = "/video" -> {<<200, FALSE>>, <<400, FALSE>>, <<400, TRUE>>,
                             <<401, TRUE>>, <<500, TRUE>>}
    [] OTHER -> {}

\* Variant: a handler that has answered an error tries once more.
HandledRetried(r) ==
  /\ Returning(r, "handler")
  /\ \E o \in Outcomes(asked[r]) :
       /\ answer' = [answer EXCEPT ![r] =
            [status |-> o[1],
             value |-> IF Top(r).got = <<>> THEN Bad ELSE Top(r).got[1]]]
       /\ End(r, Top(r).span, o[2])
       /\ stack' = IF o[1] = 200 THEN [stack EXCEPT ![r] = Pop(r)] ELSE stack
  /\ UNCHANGED <<phase, asked>>

Handled(r) ==
  /\ Returning(r, "handler")
  /\ \E o \in Outcomes(asked[r]) :
       /\ answer' = [answer EXCEPT ![r] =
            [status |-> o[1],
             value |-> IF Top(r).got = <<>> THEN Bad ELSE Top(r).got[1]]]
       /\ End(r, Top(r).span, o[2])
  /\ stack' = [stack EXCEPT ![r] = Pop(r)]
  /\ UNCHANGED <<phase, asked>>

\* fgaCheck dereferences an answer without "allowed": the deferred functions
\* run and net/http cuts the connection.
Panic(r) ==
  /\ Returning(r, "handler") /\ asked[r].path \in {"/video", "/videos"}
  /\ End(r, Top(r).span, FALSE)
  /\ stack' = [stack EXCEPT ![r] = Pop(r)]
  /\ UNCHANGED <<phase, asked, answer>>

\* otelgin gives the server span the status of the response and ends it.
Middleware(r) ==
  /\ Returning(r, "middleware")
  /\ End(r, 1, answer[r].status >= 500)
  /\ stack' = [stack EXCEPT ![r] = <<>>]
  /\ UNCHANGED <<phase, asked, answer>>

Step(r) == Call(r) \/ Return(r) \/ Handled(r) \/ Panic(r) \/ Middleware(r)

Next ==
  \/ Serve \/ TracerFails \/ RunReturns \/ MainReturns \/ Kill \/ Export
  \/ \E r \in Requests : Arrive(r) \/ Step(r)

\* pingHandler waits for another server.  resty.New() has no timeout, so that
\* nothing ends the wait if the other server does not.
Waits(r) == /\ asked[r].path = "/ping"
            /\ stack[r] # <<>> /\ Top(r).fn = "handler"

\* The Go scheduler runs the exporter and every handler that does not wait.
Fairness == WF_vars(Export) /\ WF_vars(MainReturns)
            /\ \A r \in Requests : WF_vars(~Waits(r) /\ Step(r))

Spec == Init /\ [][Next]_vars
FairSpec == Spec /\ Fairness
-----------------------------------------------------------------------------
Frames == [fn : {"middleware", "handler", "calculateFibonacci"},
           n : Numbers \cup {Bad}, span : Nat, got : Seq(-Word..Word - 1)]
SpanRecord == [parent : Nat, error : BOOLEAN,
               at : {"open", "queued", "exported", "dropped", "cut", "lost"}]

\* Types; a computed number fits in an int.
TypeOK ==
  /\ phase \in {"starting", "serving", "draining", "exited", "killed"}
  /\ asked \in [Requests -> Ask \cup {NoAsk}]
  /\ stack \in [Requests -> Seq(Frames)]
  /\ answer \in [Requests -> [status : {0, 200, 400, 401, 500},
                             value : (-Word..Word - 1) \cup {Bad}]]
  /\ spans \in [Requests -> Seq(SpanRecord)]
  /\ queue \in Seq(Requests \X Nat) /\ Len(queue) <= QueueSize

\* /fibonacci answers the Fibonacci number of its parameter in int arithmetic,
\* and a number below two unchanged; no other answer has a number.
FibonacciCorrect ==
  \A r \in Requests : answer[r].value # Bad =>
    answer[r].status = 200 /\ answer[r].value = Fib[asked[r].number]

\* A request that returned, on any of the early returns or by a panic, left no
\* span open.
NoSpanLeftOpen ==
  \A r \in Requests : stack[r] = <<>> =>
    \A i \in DOMAIN spans[r] : spans[r][i].at # "open"

\* Spans nest: while a span is open or waits in the queue, the span it hangs
\* under has not been sent off, so a collector sees children first.
ChildrenLeaveFirst ==
  \A r \in Requests : \A i \in DOMAIN spans[r] :
    LET p == spans[r][i].parent IN
    /\ p < i
    /\ p # 0 /\ spans[r][i].at = "open" => spans[r][p].at = "open"
    /\ p # 0 /\ spans[r][i].at = "queued" => spans[r][p].at # "exported"

\* The queue holds each span that ended and was neither sent nor dropped, once;
\* pingHandler, which ends the server span before the middleware ends it again,
\* does not put it in twice.
QueueAccounted ==
  /\ \A i, j \in DOMAIN queue : queue[i] = queue[j] => i = j
  /\ \A r \in Requests : \A i \in DOMAIN spans[r] :
       spans[r][i].at = "queued" <=> \E k \in DOMAIN queue : queue[k] = <<r, i>>

\* A request answered 500 has an error in one of its spans, also where the
\* handler reports the failure without httpError (rootHandler).
ServerErrorTraced ==
  \A r \in Requests : Running /\ stack[r] = <<>> /\ answer[r].status = 500 =>
    \E i \in DOMAIN spans[r] : spans[r][i].error

\* If main returns, the deferred Shutdown has sent every span that was queued.
CleanExitSendsSpans ==
  phase = "exited" =>
    \A r \in Requests : \A i \in DOMAIN spans[r] : spans[r][i].at # "lost"

\* Every request returns, the recursion of calculateFibonacci included, but a
\* ping may wait for ever for the server it asks; it does not hold the others.
EveryRequestReturns ==
  \A r \in Requests : stack[r] # <<>> ~> stack[r] = <<>> \/ Waits(r)

\* Once router.Run has returned the process ends, though handlers still run.
ShutdownEnds == phase = "draining" ~> phase \in {"exited", "killed"}
=============================================================================
