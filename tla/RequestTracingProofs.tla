------------------------ MODULE RequestTracingProofs ------------------------
(***************************************************************************)
(* Proofs about RequestTracing for every set of requests, every bound on   *)
(* what they ask for, every width of int and every size of the queue.      *)
(***************************************************************************)
EXTENDS RequestTracing, SequenceTheorems, TLAPS

USE TracingAssumption

\* Nothing of a request exists before it arrives, and none arrives before the
\* server serves.
FreshInv ==
  \A r \in Requests :
    /\ asked[r] = NoAsk => /\ stack[r] = <<>> /\ spans[r] = <<>>
                           /\ answer[r] = NoAnswer
    /\ phase = "starting" => asked[r] = NoAsk

\* The span a handler ends: its own, the server's, or none.
HandlerSpan(path) ==
  CASE path = "/" -> 0 [] path = "/ping" -> 1 [] OTHER -> 2

\* What the k-th call of a request's stack is.
Called(r, k) ==
  LET f == stack[r][k] IN
  /\ k = 1 => f = Frame("middleware", Bad, 1)
  /\ k = 2 => /\ f.fn = "handler" /\ f.n = asked[r].number
              /\ f.span = HandlerSpan(asked[r].path)
  /\ k > 2 => /\ f.fn = "calculateFibonacci" /\ f.n \in Numbers
              /\ asked[r].path = "/fibonacci"

StackInv == \A r \in Requests : \A k \in DOMAIN stack[r] : Called(r, k)

\* A call computes the next argument of the call under it, and what its own
\* calls returned are Fibonacci numbers.
Computing(r, k) ==
  LET f == stack[r][k] IN
  /\ Len(f.got) <= Len(Calls(f))
  /\ \A j \in 1..Len(f.got) : f.got[j] = Fib[Calls(f)[j]]
  /\ k > 2 => LET g == stack[r][k - 1] IN
              Len(g.got) < Len(Calls(g)) /\ f.n = Calls(g)[Len(g.got) + 1]

ResultsInv == \A r \in Requests : \A k \in DOMAIN stack[r] : Computing(r, k)

\* The calls' spans are open, each started after and under that of its caller;
\* only pingHandler leaves the middleware with a span that has ended.
Spanned(r, k) ==
  LET f == stack[r][k] IN
  /\ f.span <= Len(spans[r])
  /\ k > 1 \/ Len(stack[r]) > 1 \/ asked[r].path # "/ping" =>
       f.span = 0 \/ spans[r][f.span].at = "open"
  /\ k > 2 => /\ spans[r][f.span].parent = stack[r][k - 1].span
              /\ \A j \in 1..(k - 1) : stack[r][j].span < f.span

FramesInv == \A r \in Requests : \A k \in DOMAIN stack[r] : Spanned(r, k)

\* An open span is that of a call that has not returned.
OpenInv ==
  \A r \in Requests : \A i \in DOMAIN spans[r] :
    /\ spans[r][i].at = "open" => \E k \in DOMAIN stack[r] : stack[r][k].span = i
    /\ i <= 2 => spans[r][i].parent = 0

\* The queue names spans, children before the span they hang under.
QueueInv ==
  \A a \in DOMAIN queue :
    /\ queue[a][2] \in DOMAIN spans[queue[a][1]]
    /\ \A b \in DOMAIN queue :
         /\ queue[b] = <<queue[a][1], spans[queue[a][1]][queue[a][2]].parent>>
         => a < b

\* Spans are lost by a kill only, and cut when the process ends; the queue is
\* then empty.
PhaseInv ==
  /\ phase \in {"exited", "killed"} => queue = <<>>
  /\ \A r \in Requests : \A i \in DOMAIN spans[r] :
       spans[r][i].at = "lost" => phase = "killed"

\* pingHandler has no answer that is an error of the server.
AnswerInv ==
  \A r \in Requests : answer[r].status = 500 => asked[r].path # "/ping"

TracingInv ==
  /\ TypeOK /\ FreshInv /\ StackInv /\ ResultsInv /\ FramesInv /\ OpenInv
  /\ QueueInv /\ PhaseInv /\ AnswerInv
  /\ FibonacciCorrect /\ ChildrenLeaveFirst /\ QueueAccounted
  /\ ServerErrorTraced

\* How a span goes on: what ended waits or is dropped, what waits is sent or
\* lost with the process, and the rest is final.
Moves(a, b) ==
  \/ b = a
  \/ a = "open" /\ b \in {"queued", "dropped", "cut"}
  \/ a = "queued" /\ b \in {"exported", "lost"}

SpansMove ==
  \A r \in Requests : \A i \in DOMAIN spans[r] :
    /\ i \in DOMAIN spans'[r]
    /\ spans'[r][i].parent = spans[r][i].parent
    /\ spans[r][i].at # "open" => spans'[r][i].error = spans[r][i].error
    /\ Moves(spans[r][i].at, spans'[r][i].at)

\* A span is ended once and sent at most once, and keeps the error it ended
\* with, although pingHandler and the middleware both end the server's span.
SpanEndsOnce == [][SpansMove]_vars
-----------------------------------------------------------------------------
\* The arithmetic of int.
LEMMA WrapRange == \A k \in Int : Wrap(k) \in -Word..Word - 1
<1> SUFFICES ASSUME NEW k \in Int PROVE Wrap(k) \in -Word..Word - 1
  OBVIOUS
<1> DEFINE m == 2 * Word
           x == k + Word
<1>1. m \in Nat /\ m > 0 /\ x \in Int
  OBVIOUS
<1>2. x % m \in 0..(m - 1)
  <2> HIDE DEF m, x
  <2>1. QED
    BY <1>1
<1>3. Wrap(k) = (x % m) - Word
  BY DEF Wrap
<1>4. QED
  BY <1>2, <1>3

\* What a frame calls is a sequence of at most two numbers.
LEMMA CallsType ==
  ASSUME NEW f \in Frames, f.fn = "calculateFibonacci" => f.n \in Numbers
  PROVE  /\ Calls(f) \in Seq(Numbers) /\ Len(Calls(f)) \in Nat
         /\ f.fn = "middleware" => Len(Calls(f)) = 0
         /\ f.fn = "handler" => IF f.n = Bad THEN Len(Calls(f)) = 0
                                ELSE Len(Calls(f)) = 1 /\ Calls(f)[1] = f.n
         /\ f.fn = "calculateFibonacci" =>
              IF f.n > 1 THEN /\ Len(Calls(f)) = 2
                              /\ Calls(f)[1] = f.n - 1 /\ Calls(f)[2] = f.n - 2
              ELSE Len(Calls(f)) = 0
<1>1. f.n \in Numbers \cup {Bad} /\ Numbers \subseteq Int
  BY DEF Frames
<1>2. f.fn = "middleware" \/ f.fn = "handler" \/ f.fn = "calculateFibonacci"
  BY DEF Frames
<1>3. CASE f.fn = "middleware"
  BY <1>3 DEF Calls
<1>4. CASE f.fn = "handler" /\ f.n = Bad
  BY <1>4 DEF Calls
<1>5. CASE f.fn = "handler" /\ f.n # Bad
  <2>1. Calls(f) = <<f.n>> /\ f.n \in Numbers
    BY <1>1, <1>5 DEF Calls
  <2>2. QED
    BY <1>5, <2>1
<1>6. CASE f.fn = "calculateFibonacci" /\ f.n > 1
  <2>1. Calls(f) = <<f.n - 1, f.n - 2>>
    BY <1>6 DEF Calls
  <2>2. f.n - 1 \in Numbers /\ f.n - 2 \in Numbers
    BY <1>6
  <2>3. QED
    BY <1>6, <2>1, <2>2
<1>7. CASE f.fn = "calculateFibonacci" /\ ~(f.n > 1)
  BY <1>7 DEF Calls
<1>8. QED
  BY <1>2, <1>3, <1>4, <1>5, <1>6, <1>7

\* Ending a span changes that span only, and puts it in the queue if there is
\* room; a span that has ended, or none, changes nothing.
Ended(r, i, e) ==
  /\ spans' \in [Requests -> Seq(SpanRecord)]
  /\ \A q \in Requests \ {r} : spans'[q] = spans[q]
  /\ Len(spans'[r]) = Len(spans[r])
  /\ \A j \in 1..Len(spans[r]) : j # i => spans'[r][j] = spans[r][j]
  /\ i = 0 => spans' = spans /\ queue' = queue
  /\ i # 0 /\ spans[r][i].at # "open" => spans' = spans /\ queue' = queue
  /\ i # 0 /\ spans[r][i].at = "open" =>
       /\ spans'[r][i].parent = spans[r][i].parent
       /\ spans'[r][i].error = e
       /\ Room => /\ spans'[r][i].at = "queued"
                  /\ queue' = Append(queue, <<r, i>>)
       /\ ~Room => spans'[r][i].at = "dropped" /\ queue' = queue

LEMMA EndShape ==
  ASSUME TypeOK, NEW r \in Requests, NEW i \in 0..Len(spans[r]),
         NEW e \in BOOLEAN, End(r, i, e)
  PROVE  Ended(r, i, e)
<1>1. spans[r] \in Seq(SpanRecord) /\ spans \in [Requests -> Seq(SpanRecord)]
  BY DEF TypeOK
<1>2. CASE i = 0 \/ spans[r][i].at # "open"
  BY <1>1, <1>2 DEF End, Ended
<1>3. CASE i # 0 /\ spans[r][i].at = "open"
  <2> DEFINE s == [spans[r][i] EXCEPT !.at = IF Room THEN "queued" ELSE "dropped",
                                     !.error = e]
  <2>1. i \in 1..Len(spans[r]) /\ spans[r][i] \in SpanRecord
    BY <1>1, <1>3
  <2>2. /\ s \in SpanRecord /\ s.parent = spans[r][i].parent /\ s.error = e
        /\ s.at = IF Room THEN "queued" ELSE "dropped"
    BY <2>1 DEF SpanRecord
  <2>3. /\ spans' = [spans EXCEPT ![r] = [spans[r] EXCEPT ![i] = s]]
        /\ queue' = IF Room THEN Append(queue, <<r, i>>) ELSE queue
    BY <1>1, <1>3, <2>1 DEF End, SpanRecord
  <2> HIDE DEF s
  <2>4. /\ [spans[r] EXCEPT ![i] = s] \in Seq(SpanRecord)
        /\ Len([spans[r] EXCEPT ![i] = s]) = Len(spans[r])
        /\ [spans[r] EXCEPT ![i] = s][i] = s
        /\ \A j \in 1..Len(spans[r]) : j # i =>
             [spans[r] EXCEPT ![i] = s][j] = spans[r][j]
    BY <1>1, <2>1, <2>2, ExceptSeq
  <2>5. spans' \in [Requests -> Seq(SpanRecord)]
    BY <1>1, <2>3, <2>4
  <2>6. spans'[r] = [spans[r] EXCEPT ![i] = s]
    BY <1>1, <2>3
  <2>7. \A q \in Requests \ {r} : spans'[q] = spans[q]
    BY <1>1, <2>3
  <2>8. QED
    BY <1>3, <2>2, <2>3, <2>4, <2>5, <2>6, <2>7 DEF Ended
<1>4. QED
  BY <1>2, <1>3

\* The call on top of a stack, and which call it is by its place.
LEMMA TopIs ==
  ASSUME TypeOK, FreshInv, StackInv, FramesInv, NEW r \in Requests,
         stack[r] # <<>>
  PROVE  /\ Len(stack[r]) \in Nat \ {0} /\ Top(r) = stack[r][Len(stack[r])]
         /\ Top(r) \in Frames /\ Called(r, Len(stack[r]))
         /\ Top(r).fn = "middleware" <=> Len(stack[r]) = 1
         /\ Top(r).fn = "handler" <=> Len(stack[r]) = 2
         /\ Top(r).fn = "calculateFibonacci" <=> Len(stack[r]) > 2
         /\ Top(r).span \in 0..Len(spans[r])
         /\ asked[r] \in Ask
<1>1. stack[r] \in Seq(Frames) /\ spans[r] \in Seq(SpanRecord)
  BY DEF TypeOK
<1>2. Len(stack[r]) \in Nat \ {0} /\ Len(stack[r]) \in DOMAIN stack[r]
  BY <1>1, EmptySeq, LenProperties
<1>3. Top(r) = stack[r][Len(stack[r])] /\ Top(r) \in Frames
  BY <1>1, <1>2, ElementOfSeq DEF Top
<1>4. Called(r, Len(stack[r])) /\ Top(r).span <= Len(spans[r])
  BY <1>2, <1>3 DEF StackInv, FramesInv, Spanned
<1>5. Top(r).span \in 0..Len(spans[r])
  BY <1>1, <1>3, <1>4 DEF Frames
<1>6. asked[r] \in Ask
  BY DEF FreshInv, TypeOK
<1>7. /\ Len(stack[r]) = 1 => Top(r).fn = "middleware"
      /\ Len(stack[r]) = 2 => Top(r).fn = "handler"
      /\ Len(stack[r]) > 2 => Top(r).fn = "calculateFibonacci"
  BY <1>3, <1>4 DEF Called, Frame
<1>8. Len(stack[r]) = 1 \/ Len(stack[r]) = 2 \/ Len(stack[r]) > 2
  <2> DEFINE n == Len(stack[r])
  <2>1. n \in Nat \ {0}
    BY <1>2
  <2> HIDE DEF n
  <2>2. n = 1 \/ n = 2 \/ n > 2
    BY <2>1
  <2>3. QED
    BY <2>2 DEF n
<1>9. QED
  BY <1>2, <1>3, <1>4, <1>5, <1>6, <1>7, <1>8

\* The stack without its top.
LEMMA PopShape ==
  ASSUME TypeOK, NEW r \in Requests, stack[r] # <<>>
  PROVE  /\ Pop(r) \in Seq(Frames) /\ Len(Pop(r)) = Len(stack[r]) - 1
         /\ \A k \in 1..Len(stack[r]) - 1 : Pop(r)[k] = stack[r][k]
<1>1. stack[r] \in Seq(Frames)
  BY DEF TypeOK
<1>2. Len(stack[r]) \in Nat \ {0}
  BY <1>1, EmptySeq, LenProperties
<1>3. \A k \in 1..Len(stack[r]) - 1 : stack[r][k] \in Frames
  BY <1>1, <1>2, ElementOfSeq
<1> DEFINE m == Len(stack[r])
           n == m - 1
<1>4. n \in Int /\ (1 <= n => n - 1 + 1 = n) /\ (~(1 <= n) => n = 0)
      /\ \A k \in 1..n : k \in 1..n - 1 + 1 /\ 1 + k - 1 = k
  <2>1. m \in Nat \ {0}
    BY <1>2
  <2> HIDE DEF m
  <2>2. QED
    BY <2>1
<1>5. Pop(r) = SubSeq(stack[r], 1, n)
  BY DEF Pop
<1> HIDE DEF n
<1>6. /\ SubSeq(stack[r], 1, n) \in Seq(Frames)
      /\ Len(SubSeq(stack[r], 1, n)) = IF 1 <= n THEN n - 1 + 1 ELSE 0
      /\ \A i \in 1 .. n - 1 + 1 : SubSeq(stack[r], 1, n)[i] = stack[r][1 + i - 1]
  <2>1. \A k \in 1..n : stack[r][k] \in Frames
    BY <1>3 DEF n
  <2>2. QED
    BY <1>4, <2>1, SubSeqProperties
<1>7. Pop(r) \in Seq(Frames) /\ Len(Pop(r)) = n
      /\ \A k \in 1..n : Pop(r)[k] = stack[r][k]
  BY <1>4, <1>5, <1>6
<1>8. QED
  BY <1>7 DEF n, m

\* A request arrives with its server span open, and that of its handler if it
\* has one.
Arrived(r) ==
  /\ phase = "serving" /\ asked[r] = NoAsk /\ asked'[r] \in Ask
  /\ asked' = [asked EXCEPT ![r] = asked'[r]]
  /\ \A q \in Requests \ {r} : stack'[q] = stack[q] /\ spans'[q] = spans[q]
  /\ stack' \in [Requests -> Seq(Frames)]
  /\ spans' \in [Requests -> Seq(SpanRecord)]
  /\ Len(stack'[r]) = 2
  /\ stack'[r][1] = Frame("middleware", Bad, 1)
  /\ stack'[r][2] = Frame("handler", asked'[r].number,
                          HandlerSpan(asked'[r].path))
  /\ Len(spans'[r]) = IF HandlerSpan(asked'[r].path) = 2 THEN 2 ELSE 1
  /\ \A i \in 1..Len(spans'[r]) : spans'[r][i] = NewSpan(0)
  /\ UNCHANGED <<phase, answer, queue>>

LEMMA ArriveShape ==
  ASSUME TypeOK, NEW r \in Requests, Arrive(r)
  PROVE  Arrived(r)
<1>1. PICK a \in MayAsk(r) :
        LET own == a.path \notin {"/", "/ping"}
            span == CASE own -> 2 [] a.path = "/ping" -> 1 [] OTHER -> 0 IN
        /\ asked' = [asked EXCEPT ![r] = a]
        /\ spans' = [spans EXCEPT ![r] = IF own
                       THEN <<NewSpan(0), NewSpan(0)>> ELSE <<NewSpan(0)>>]
        /\ stack' = [stack EXCEPT ![r] =
                       <<Frame("middleware", Bad, 1),
                         Frame("handler", a.number, span)>>]
  BY DEF Arrive
<1>2. a \in Ask
  BY AskAssumption
<1> DEFINE h == HandlerSpan(a.path)
           s == IF h = 2 THEN <<NewSpan(0), NewSpan(0)>> ELSE <<NewSpan(0)>>
           c == <<Frame("middleware", Bad, 1), Frame("handler", a.number, h)>>
<1>3. asked' = [asked EXCEPT ![r] = a] /\ asked'[r] = a
  BY <1>1 DEF TypeOK
<1>4. spans' = [spans EXCEPT ![r] = s] /\ stack' = [stack EXCEPT ![r] = c]
  <2>1. CASE a.path = "/"
    BY <1>1, <2>1 DEF HandlerSpan
  <2>2. CASE a.path = "/ping"
    BY <1>1, <2>2 DEF HandlerSpan
  <2>3. CASE a.path \notin {"/", "/ping"}
    BY <1>1, <2>3 DEF HandlerSpan
  <2>4. QED
    BY <2>1, <2>2, <2>3
<1>5. h \in Nat /\ a.number \in Numbers \cup {Bad}
  <2>1. h \in Nat
    BY DEF HandlerSpan
  <2>2. a.number \in Numbers \cup {Bad}
    BY <1>2 DEF Ask
  <2>3. QED
    BY <2>1, <2>2
<1>6. NewSpan(0) \in SpanRecord
  BY DEF NewSpan, SpanRecord
<1>7. /\ Frame("middleware", Bad, 1) \in Frames
      /\ Frame("handler", a.number, h) \in Frames
  <2> HIDE DEF h
  <2>1. QED
    BY <1>5 DEF Frame, Frames
<1>8. s \in Seq(SpanRecord) /\ Len(s) = (IF h = 2 THEN 2 ELSE 1)
      /\ \A i \in 1..Len(s) : s[i] = NewSpan(0)
  <2> HIDE DEF h
  <2> DEFINE ns == NewSpan(0)
  <2>1. ns \in SpanRecord
    BY <1>6
  <2> HIDE DEF ns
  <2>2. <<ns, ns>> \in Seq(SpanRecord) /\ <<ns>> \in Seq(SpanRecord)
    BY <2>1
  <2>3. QED
    BY <2>2 DEF ns
<1>9. c \in Seq(Frames) /\ Len(c) = 2
      /\ c[1] = Frame("middleware", Bad, 1) /\ c[2] = Frame("handler", a.number, h)
  BY <1>7
<1>10. phase = "serving" /\ asked[r] = NoAsk /\ UNCHANGED <<phase, answer, queue>>
  BY DEF Arrive
<1> HIDE DEF s, c
<1>11. spans \in [Requests -> Seq(SpanRecord)] /\ stack \in [Requests -> Seq(Frames)]
  BY DEF TypeOK
<1>12. /\ stack'[r] = c /\ spans'[r] = s
       /\ stack' \in [Requests -> Seq(Frames)]
       /\ spans' \in [Requests -> Seq(SpanRecord)]
       /\ \A q \in Requests \ {r} : stack'[q] = stack[q] /\ spans'[q] = spans[q]
  BY <1>4, <1>8, <1>9, <1>11
<1>13. QED
  BY <1>2, <1>3, <1>8, <1>9, <1>10, <1>12 DEF Arrived

\* The numbers that computations meet, and the reference on them.
LEMMA NumbersAre ==
  ASSUME NEW n \in Numbers
  PROVE  /\ n \in Int /\ n >= -Word /\ Fib[n] \in Int
         /\ n > 1 => /\ n - 1 \in Numbers /\ n - 2 \in Numbers
                     /\ Fib[n] = Wrap(Fib[n - 1] + Fib[n - 2])
         /\ n <= 1 => Fib[n] = n /\ n \in -Word..Word - 1
<1>1. n \in Int /\ n >= -Word /\ Fib[n] \in Int
  OBVIOUS
<1>2. Fib[n] = IF n <= 1 THEN n ELSE Wrap(Fib[n - 1] + Fib[n - 2])
  OBVIOUS
<1>3. n > 1 => n - 1 \in Numbers /\ n - 2 \in Numbers
  OBVIOUS
<1>4. n > 1 => ~(n <= 1)
  BY <1>1
<1>5. n <= 1 => n \in -Word..Word - 1
  BY <1>1
<1>6. QED
  BY <1>1, <1>2, <1>3, <1>4, <1>5

\* A call of calculateFibonacci that has what its calls returned returns the
\* Fibonacci number of its argument.
LEMMA SumIsFib ==
  ASSUME TypeOK, FreshInv, StackInv, FramesInv, ResultsInv,
         NEW r \in Requests, Returning(r, "calculateFibonacci")
  PROVE  Sum(Top(r)) = Fib[Top(r).n] /\ Sum(Top(r)) \in -Word..Word - 1
<1> DEFINE f == Top(r)
<1>1. /\ stack[r] # <<>> /\ f.fn = "calculateFibonacci"
      /\ Len(f.got) = Len(Calls(f))
  BY DEF Returning
<1>2. f \in Frames /\ f = stack[r][Len(stack[r])] /\ Len(stack[r]) \in DOMAIN stack[r]
  BY <1>1, TopIs DEF TypeOK
<1>3. f.n \in Numbers
  BY <1>1, TopIs DEF Called
<1>4. \A j \in 1..Len(f.got) : f.got[j] = Fib[Calls(f)[j]]
  BY <1>2 DEF ResultsInv, Computing
<1> HIDE DEF f
<1> DEFINE n == f.n
<1>5. n \in Numbers /\ n \in Int
  BY <1>3, NumbersAre
<1>6. n > 1 <=> ~(n <= 1)
  <2> HIDE DEF n
  <2>1. QED
    BY <1>5
<1>7. CASE n > 1
  <2>1. Len(Calls(f)) = 2 /\ Calls(f)[1] = n - 1 /\ Calls(f)[2] = n - 2
    BY <1>1, <1>2, <1>3, <1>7, CallsType
  <2>2. f.got[1] = Fib[n - 1] /\ f.got[2] = Fib[n - 2]
    BY <1>1, <1>4, <2>1
  <2>3. ~(n <= 1)
    BY <1>7, <1>6
  <2>4. Sum(f) = Wrap(Fib[n - 1] + Fib[n - 2])
    BY <2>2, <2>3 DEF Sum
  <2>5. Fib[n - 1] \in Int /\ Fib[n - 2] \in Int
        /\ Fib[n] = Wrap(Fib[n - 1] + Fib[n - 2])
    BY <1>3, <1>7, NumbersAre
  <2>6. QED
    BY <2>4, <2>5, WrapRange DEF f
<1>8. CASE ~(n > 1)
  <2>1. n <= 1
    BY <1>8, <1>6
  <2>2. Sum(f) = n
    BY <2>1 DEF Sum
  <2>3. QED
    BY <1>3, <2>1, <2>2, NumbersAre DEF f
<1>9. QED
  BY <1>7, <1>8

\* A call puts a frame with a new span, under that of the caller, on the stack.
CallMade(r) ==
  /\ Len(stack[r]) > 1 /\ asked[r].path = "/fibonacci"
  /\ Len(Top(r).got) < Len(Calls(Top(r)))
  /\ Calls(Top(r))[Len(Top(r).got) + 1] \in Numbers
  /\ \A q \in Requests \ {r} : stack'[q] = stack[q] /\ spans'[q] = spans[q]
  /\ stack' \in [Requests -> Seq(Frames)]
  /\ spans' \in [Requests -> Seq(SpanRecord)]
  /\ Len(stack'[r]) = Len(stack[r]) + 1
  /\ \A k \in 1..Len(stack[r]) : stack'[r][k] = stack[r][k]
  /\ stack'[r][Len(stack[r]) + 1] =
       Frame("calculateFibonacci", Calls(Top(r))[Len(Top(r).got) + 1],
             Len(spans[r]) + 1)
  /\ Len(spans'[r]) = Len(spans[r]) + 1
  /\ \A i \in 1..Len(spans[r]) : spans'[r][i] = spans[r][i]
  /\ spans'[r][Len(spans[r]) + 1] = NewSpan(Top(r).span)
  /\ UNCHANGED <<phase, asked, answer, queue>>

LEMMA CallShape ==
  ASSUME TypeOK, FreshInv, StackInv, FramesInv, ResultsInv,
         NEW r \in Requests, Call(r)
  PROVE  CallMade(r)
<1> DEFINE f == Top(r)
           c == Calls(f)[Len(f.got) + 1]
           s == NewSpan(f.span)
           g == Frame("calculateFibonacci", c, Len(spans[r]) + 1)
<1>1. stack[r] # <<>> /\ Len(f.got) < Len(Calls(f))
  BY DEF Call, Calling
<1>2. /\ f \in Frames /\ Called(r, Len(stack[r])) /\ f = stack[r][Len(stack[r])]
      /\ Len(stack[r]) \in Nat \ {0} /\ asked[r] \in Ask /\ f.span \in 0..Len(spans[r])
      /\ f.fn = "middleware" <=> Len(stack[r]) = 1
      /\ f.fn = "handler" <=> Len(stack[r]) = 2
      /\ f.fn = "calculateFibonacci" <=> Len(stack[r]) > 2
  BY <1>1, TopIs
<1>3. f.got \in Seq(-Word..Word - 1) /\ Len(f.got) \in Nat
  BY <1>2 DEF Frames
<1>4. f.fn = "calculateFibonacci" => f.n \in Numbers /\ asked[r].path = "/fibonacci"
  BY <1>2 DEF Called
<1>5. Calls(f) \in Seq(Numbers) /\ (f.fn = "middleware" => Len(Calls(f)) = 0)
      /\ (f.fn = "handler" /\ f.n = Bad => Len(Calls(f)) = 0)
  BY <1>2, <1>4, CallsType
<1>6. c \in Numbers
  <2>1. Len(f.got) + 1 \in 1..Len(Calls(f))
    BY <1>1, <1>3, <1>5
  <2>2. QED
    BY <1>5, <2>1, ElementOfSeq
<1>7. Len(stack[r]) > 1 /\ asked[r].path = "/fibonacci"
  <2>1. Len(stack[r]) # 1
    BY <1>1, <1>2, <1>3, <1>5
  <2>2. f.fn = "handler" => f.n # Bad /\ f.n = asked[r].number
    BY <1>1, <1>2, <1>3, <1>5 DEF Called
  <2>3. f.fn = "handler" => asked[r].path = "/fibonacci"
    BY <1>2, <2>2 DEF Ask
  <2>4. f.fn = "handler" \/ f.fn = "calculateFibonacci"
    BY <1>2, <2>1 DEF Frames
  <2> DEFINE n == Len(stack[r])
  <2>5. n > 1
    <3>1. n \in Nat \ {0} /\ n # 1
      BY <1>2, <2>1
    <3> HIDE DEF n
    <3>2. QED
      BY <3>1
  <2>6. QED
    BY <1>4, <2>3, <2>4, <2>5
<1>8. spans[r] \in Seq(SpanRecord) /\ stack[r] \in Seq(Frames)
  BY DEF TypeOK
<1>9. s \in SpanRecord
  BY <1>2, <1>8 DEF NewSpan, SpanRecord
<1>10. g \in Frames
  <2>1. Len(spans[r]) + 1 \in Nat
    BY <1>8
  <2>2. QED
    BY <1>6, <2>1 DEF Frame, Frames
<1>11. /\ spans' = [spans EXCEPT ![r] = Append(spans[r], s)]
       /\ stack' = [stack EXCEPT ![r] = Append(stack[r], g)]
       /\ UNCHANGED <<phase, asked, answer, queue>>
  BY DEF Call, TypeOK
<1> HIDE DEF s, g, c
<1>12. /\ spans'[r] = Append(spans[r], s) /\ stack'[r] = Append(stack[r], g)
       /\ \A q \in Requests \ {r} : stack'[q] = stack[q] /\ spans'[q] = spans[q]
  BY <1>11 DEF TypeOK
<1>13. /\ Append(spans[r], s) \in Seq(SpanRecord)
       /\ Len(Append(spans[r], s)) = Len(spans[r]) + 1
       /\ \A i \in 1..Len(spans[r]) : Append(spans[r], s)[i] = spans[r][i]
       /\ Append(spans[r], s)[Len(spans[r]) + 1] = s
  BY <1>8, <1>9, AppendProperties
<1>14. /\ Append(stack[r], g) \in Seq(Frames)
       /\ Len(Append(stack[r], g)) = Len(stack[r]) + 1
       /\ \A k \in 1..Len(stack[r]) : Append(stack[r], g)[k] = stack[r][k]
       /\ Append(stack[r], g)[Len(stack[r]) + 1] = g
  BY <1>8, <1>10, AppendProperties
<1>15. stack' \in [Requests -> Seq(Frames)] /\ spans' \in [Requests -> Seq(SpanRecord)]
  BY <1>11, <1>13, <1>14 DEF TypeOK
<1>16. QED
  BY <1>1, <1>6, <1>7, <1>11, <1>12, <1>13, <1>14, <1>15 DEF s, g, c, CallMade

\* A return ends the span of the call and gives its caller the sum.
Returned(r) ==
  LET n == Len(stack[r]) IN
  /\ n \in Nat /\ n > 2 /\ Top(r) = stack[r][n]
  /\ Top(r).span \in 0..Len(spans[r])
  /\ Ended(r, Top(r).span, FALSE)
  /\ \A q \in Requests \ {r} : stack'[q] = stack[q]
  /\ stack' \in [Requests -> Seq(Frames)]
  /\ Len(stack'[r]) = n - 1
  /\ \A k \in 1..n - 2 : stack'[r][k] = stack[r][k]
  /\ stack'[r][n - 1] = [stack[r][n - 1] EXCEPT
                           !.got = Append(@, Fib[Top(r).n])]
  /\ stack[r][n - 1] \in Frames /\ stack'[r][n - 1] \in Frames
  /\ Fib[Top(r).n] \in -Word..Word - 1
  /\ UNCHANGED <<phase, asked, answer>>

LEMMA ReturnShape ==
  ASSUME TypeOK, FreshInv, StackInv, FramesInv, ResultsInv,
         NEW r \in Requests, Return(r)
  PROVE  Returned(r)
<1> DEFINE n == Len(stack[r])
           f == stack[r][n - 1]
           v == Sum(Top(r))
           g == [f EXCEPT !.got = Append(@, v)]
<1>1. Returning(r, "calculateFibonacci") /\ End(r, Top(r).span, FALSE)
      /\ UNCHANGED <<phase, asked, answer>>
  BY DEF Return
<1>2. stack[r] # <<>> /\ Top(r).fn = "calculateFibonacci"
  BY <1>1 DEF Returning
<1>3. /\ n \in Nat \ {0} /\ n > 2 /\ Top(r) = stack[r][n]
      /\ Top(r).span \in 0..Len(spans[r])
  BY <1>2, TopIs
<1>4. Ended(r, Top(r).span, FALSE)
  BY <1>1, <1>3, EndShape
<1>5. v = Fib[Top(r).n] /\ v \in -Word..Word - 1
  BY <1>1, SumIsFib
<1>6. /\ Pop(r) \in Seq(Frames) /\ Len(Pop(r)) = n - 1
      /\ \A k \in 1..n - 1 : Pop(r)[k] = stack[r][k]
  BY <1>2, PopShape
<1>7. /\ n - 1 \in 1..n - 1 /\ n - 1 \in 1..n
      /\ \A k \in 1..n - 2 : k \in 1..n - 1 /\ k # n - 1
  <2> HIDE DEF n
  <2>1. QED
    BY <1>3
<1>8. Pop(r)[n - 1] = f /\ f \in Frames
  BY <1>6, <1>7, ElementOfSeq
<1>9. g \in Frames
  <2> HIDE DEF f, v
  <2>1. f.got \in Seq(-Word..Word - 1)
    BY <1>8 DEF Frames
  <2>2. Append(f.got, v) \in Seq(-Word..Word - 1)
    BY <1>5, <2>1, AppendProperties
  <2>3. QED
    BY <1>8, <2>2 DEF Frames
<1>10. stack' = [stack EXCEPT ![r] = [Pop(r) EXCEPT ![n - 1] = g]]
  <2>1. stack' = [stack EXCEPT ![r] = [Pop(r) EXCEPT ![n - 1] =
                    [Pop(r)[n - 1] EXCEPT !.got = Append(Pop(r)[n - 1].got, v)]]]
    BY <1>6 DEF Return
  <2>2. QED
    BY <1>8, <2>1
<1> HIDE DEF g
<1>11. /\ [Pop(r) EXCEPT ![n - 1] = g] \in Seq(Frames)
       /\ Len([Pop(r) EXCEPT ![n - 1] = g]) = n - 1
       /\ \A k \in 1..n - 1 : [Pop(r) EXCEPT ![n - 1] = g][k] =
                                IF k = n - 1 THEN g ELSE Pop(r)[k]
  BY <1>6, <1>7, <1>9, ExceptSeq
<1>12. /\ stack'[r] = [Pop(r) EXCEPT ![n - 1] = g]
       /\ \A q \in Requests \ {r} : stack'[q] = stack[q]
       /\ stack' \in [Requests -> Seq(Frames)]
  BY <1>10, <1>11 DEF TypeOK
<1>13. /\ Len(stack'[r]) = n - 1 /\ stack'[r][n - 1] = g
       /\ \A k \in 1..n - 2 : stack'[r][k] = stack[r][k]
  BY <1>6, <1>7, <1>11, <1>12
<1>14. g = [f EXCEPT !.got = Append(@, Fib[Top(r).n])]
  BY <1>5 DEF g
<1>15. QED
  BY <1>1, <1>3, <1>4, <1>5, <1>8, <1>9, <1>12, <1>13, <1>14 DEF Returned

\* A handler that has finished, or panicked, leaves the middleware.
Leaves(r, e) ==
  /\ Len(stack[r]) = 2 /\ Top(r) = stack[r][2]
  /\ Top(r).span \in 0..Len(spans[r])
  /\ Ended(r, Top(r).span, e)
  /\ \A q \in Requests \ {r} : stack'[q] = stack[q]
  /\ stack' \in [Requests -> Seq(Frames)]
  /\ Len(stack'[r]) = 1 /\ stack'[r][1] = stack[r][1]
  /\ UNCHANGED <<phase, asked>>

LEMMA LeaveShape ==
  ASSUME TypeOK, FreshInv, StackInv, FramesInv, NEW r \in Requests,
         NEW e \in BOOLEAN, Returning(r, "handler"), End(r, Top(r).span, e),
         stack' = [stack EXCEPT ![r] = Pop(r)], UNCHANGED <<phase, asked>>
  PROVE  Leaves(r, e)
<1>1. stack[r] # <<>> /\ Top(r).fn = "handler"
  BY DEF Returning
<1>2. Len(stack[r]) = 2 /\ Top(r) = stack[r][2] /\ Top(r).span \in 0..Len(spans[r])
  BY <1>1, TopIs
<1>3. Ended(r, Top(r).span, e)
  BY <1>2, EndShape
<1>4. /\ Pop(r) \in Seq(Frames) /\ Len(Pop(r)) = 1
      /\ Pop(r)[1] = stack[r][1]
  <2>1. /\ Pop(r) \in Seq(Frames) /\ Len(Pop(r)) = 2 - 1
        /\ \A k \in 1..2 - 1 : Pop(r)[k] = stack[r][k]
    BY <1>1, <1>2, PopShape
  <2>2. QED
    BY <2>1
<1>5. /\ stack'[r] = Pop(r)
      /\ \A q \in Requests \ {r} : stack'[q] = stack[q]
      /\ stack' \in [Requests -> Seq(Frames)]
  BY <1>4 DEF TypeOK
<1>6. QED
  BY <1>2, <1>3, <1>4, <1>5 DEF Leaves

\* The outcomes are a status and whether there was an error.
LEMMA OutcomesAre ==
  ASSUME NEW a \in Ask, NEW o \in Outcomes(a)
  PROVE  /\ o[1] \in {200, 400, 401, 500} /\ o[2] \in BOOLEAN
         /\ o[1] = 500 => a.path # "/ping"
         /\ a.path = "/fibonacci" /\ a.number # Bad => o[1] = 200
<1> DEFINE S == {200, 400, 401, 500}
           P == S \X BOOLEAN
           ok == <<200, FALSE>>
           wrong == <<400, FALSE>>
           broken == <<500, FALSE>>
           refused == <<400, TRUE>>
           denied == <<401, TRUE>>
           failed == <<500, TRUE>>
<1>1. /\ ok \in P /\ wrong \in P /\ broken \in P
      /\ refused \in P /\ denied \in P /\ failed \in P
  <2>1. <<200, FALSE>> \in P
    BY Zenon
  <2>2. <<400, FALSE>> \in P
    BY Zenon
  <2>3. <<500, FALSE>> \in P
    BY Zenon
  <2>4. <<400, TRUE>> \in P
    BY Zenon
  <2>5. <<401, TRUE>> \in P
    BY Zenon
  <2>6. <<500, TRUE>> \in P
    BY Zenon
  <2>7. QED
    BY <2>1, <2>2, <2>3, <2>4, <2>5, <2>6
<1> HIDE DEF P
<1>2. o \in P => o[1] \in S /\ o[2] \in BOOLEAN
  BY DEF P
<1>3. CASE a.path = "/"
  <2> DEFINE U == {ok, broken}
  <2>1. Outcomes(a) = U
    BY <1>3 DEF Outcomes
  <2> HIDE DEF ok, wrong, broken, refused, denied, failed
  <2>2. U \subseteq P
    BY <1>1
  <2> HIDE DEF U
  <2>3. o \in P
    BY <2>1, <2>2
  <2>4. QED
    BY <1>3, <1>2, <2>3
<1>4. CASE a.path = "/ping"
  <2> DEFINE U == {ok, refused}
             Q == {200, 400} \X BOOLEAN
  <2>1. Outcomes(a) = U
    BY <1>4 DEF Outcomes
  <2>2. ok \in Q
    BY Zenon
  <2>3. refused \in Q
    BY Zenon
  <2>4. o \in Q => o[1] \in {200, 400} /\ o[2] \in BOOLEAN
    OBVIOUS
  <2> HIDE DEF ok, wrong, broken, refused, denied, failed, Q
  <2>5. U \subseteq Q
    BY <2>2, <2>3
  <2> HIDE DEF U
  <2>6. o \in Q
    BY <2>1, <2>5
  <2>7. QED
    BY <1>4, <2>4, <2>6
<1>5. CASE a.path = "/fibonacci"
  <2> DEFINE s == IF a.number = Bad THEN 400 ELSE 200
  <2>1. o = <<s, FALSE>>
    BY <1>5 DEF Outcomes
  <2>2. s \in {200, 400} /\ (a.number # Bad => s = 200)
    OBVIOUS
  <2> HIDE DEF s
  <2>3. o[1] = s /\ o[2] = FALSE
    BY <2>1
  <2>4. QED
    BY <1>5, <2>2, <2>3
<1>6. CASE a.path = "/videos"
  <2> DEFINE U == {ok, wrong, denied, failed}
  <2>1. Outcomes(a) = U
    BY <1>6 DEF Outcomes
  <2> HIDE DEF ok, wrong, broken, refused, denied, failed
  <2>2. U \subseteq P
    BY <1>1
  <2> HIDE DEF U
  <2>3. o \in P
    BY <2>1, <2>2
  <2>4. QED
    BY <1>6, <1>2, <2>3
<1>7. CASE a.path = "/video"
  <2> DEFINE U == {ok, wrong, refused, denied, failed}
  <2>1. Outcomes(a) = U
    BY <1>7 DEF Outcomes
  <2> HIDE DEF ok, wrong, broken, refused, denied, failed
  <2>2. U \subseteq P
    BY <1>1
  <2> HIDE DEF U
  <2>3. o \in P
    BY <2>1, <2>2
  <2>4. QED
    BY <1>7, <1>2, <2>3
<1>8. QED
  BY <1>3, <1>4, <1>5, <1>6, <1>7 DEF Ask, Paths

\* What a handler answers: a number only as 200, and 500 never to a ping.
Handles(r) ==
  /\ \E e \in BOOLEAN : Leaves(r, e)
  /\ answer' = [answer EXCEPT ![r] = answer'[r]]
  /\ answer'[r] \in [status : {200, 400, 401, 500},
                     value : (-Word..Word - 1) \cup {Bad}]
  /\ answer'[r].status = 500 => asked[r].path # "/ping"
  /\ answer'[r].value # Bad =>
       /\ answer'[r].status = 200
       /\ answer'[r].value = Fib[asked[r].number]

LEMMA HandledShape ==
  ASSUME TypeOK, FreshInv, StackInv, FramesInv, ResultsInv, NEW r \in Requests,
         Handled(r)
  PROVE  Handles(r)
<1>1. PICK o \in Outcomes(asked[r]) :
        /\ answer' = [answer EXCEPT ![r] =
             [status |-> o[1],
              value |-> IF Top(r).got = <<>> THEN Bad ELSE Top(r).got[1]]]
        /\ End(r, Top(r).span, o[2])
  BY DEF Handled
<1>2. /\ Returning(r, "handler") /\ stack' = [stack EXCEPT ![r] = Pop(r)]
      /\ UNCHANGED <<phase, asked>>
  BY DEF Handled
<1>3. /\ stack[r] # <<>> /\ Top(r).fn = "handler"
      /\ Len(Top(r).got) = Len(Calls(Top(r)))
  BY <1>2 DEF Returning
<1>4. /\ Len(stack[r]) = 2 /\ Top(r) = stack[r][2] /\ Top(r) \in Frames
      /\ Top(r).n = asked[r].number /\ asked[r] \in Ask
  BY <1>3, TopIs DEF Called
<1>5. /\ o[1] \in {200, 400, 401, 500} /\ o[2] \in BOOLEAN
      /\ o[1] = 500 => asked[r].path # "/ping"
      /\ asked[r].path = "/fibonacci" /\ asked[r].number # Bad => o[1] = 200
  BY <1>4, OutcomesAre
<1> DEFINE f == Top(r)
           v == IF f.got = <<>> THEN Bad ELSE f.got[1]
<1>6. \A j \in 1..Len(f.got) : f.got[j] = Fib[Calls(f)[j]]
  <2>1. 2 \in DOMAIN stack[r]
    BY <1>4 DEF TypeOK
  <2>2. QED
    BY <1>4, <2>1 DEF ResultsInv, Computing
<1>7. v = Bad \/ /\ asked[r].number # Bad /\ v = Fib[asked[r].number]
                 /\ v \in -Word..Word - 1
  <2>1. f.got \in Seq(-Word..Word - 1)
    BY <1>4 DEF Frames
  <2>2. CASE f.got = <<>>
    BY <2>2
  <2>3. CASE f.got # <<>>
    <3>1. Len(f.got) \in Nat \ {0} /\ f.got[1] \in -Word..Word - 1
      BY <2>1, <2>3, EmptySeq, LenProperties, ElementOfSeq
    <3>2. f.n # Bad /\ Calls(f)[1] = f.n /\ Len(Calls(f)) = 1
      BY <1>3, <1>4, <3>1, CallsType
    <3>3. QED
      BY <1>3, <1>4, <1>6, <2>3, <3>1, <3>2
  <2>4. QED
    BY <2>2, <2>3
<1>8. Leaves(r, o[2])
  <2> DEFINE e == o[2]
  <2>1. e \in BOOLEAN /\ End(r, Top(r).span, e)
    BY <1>1, <1>5
  <2> HIDE DEF e
  <2>2. Leaves(r, e)
    BY <1>2, <2>1, LeaveShape
  <2>3. QED
    BY <2>2 DEF e
<1> HIDE DEF v
<1>9. answer' = [answer EXCEPT ![r] = [status |-> o[1], value |-> v]]
      /\ answer'[r] = [status |-> o[1], value |-> v]
  BY <1>1 DEF TypeOK, v
<1>10. asked[r].number # Bad => asked[r].path = "/fibonacci"
  BY <1>4 DEF Ask
<1>11. answer' = [answer EXCEPT ![r] = answer'[r]]
  BY <1>9
<1>12. QED
  BY <1>5, <1>7, <1>8, <1>9, <1>10, <1>11 DEF Handles

\* The middleware returns when its handler has.
Finished(r) ==
  /\ Len(stack[r]) = 1 /\ asked[r] \in Ask /\ 1 \in 1..Len(spans[r])
  /\ Ended(r, 1, answer[r].status >= 500)
  /\ \A q \in Requests \ {r} : stack'[q] = stack[q]
  /\ stack' \in [Requests -> Seq(Frames)] /\ stack'[r] = <<>>
  /\ UNCHANGED <<phase, asked, answer>>

LEMMA MiddlewareShape ==
  ASSUME TypeOK, FreshInv, StackInv, FramesInv, NEW r \in Requests,
         Middleware(r)
  PROVE  Finished(r)
<1>1. /\ Returning(r, "middleware") /\ End(r, 1, answer[r].status >= 500)
      /\ stack' = [stack EXCEPT ![r] = <<>>] /\ UNCHANGED <<phase, asked, answer>>
  BY DEF Middleware
<1>2. stack[r] # <<>> /\ Top(r).fn = "middleware"
  BY <1>1 DEF Returning
<1>3. /\ Len(stack[r]) = 1 /\ asked[r] \in Ask /\ Top(r).span = 1
      /\ Top(r).span \in 0..Len(spans[r])
  BY <1>2, TopIs DEF Called, Frame
<1>4. 1 \in 1..Len(spans[r]) /\ 1 \in 0..Len(spans[r])
  BY <1>3 DEF TypeOK
<1> DEFINE e == answer[r].status >= 500
<1>5. e \in BOOLEAN /\ End(r, 1, e)
  BY <1>1
<1> HIDE DEF e
<1>6. Ended(r, 1, e)
  BY <1>4, <1>5, EndShape
<1>7. /\ stack'[r] = <<>>
      /\ \A q \in Requests \ {r} : stack'[q] = stack[q]
      /\ stack' \in [Requests -> Seq(Frames)]
  BY <1>1 DEF TypeOK
<1>8. QED
  BY <1>1, <1>3, <1>4, <1>6, <1>7 DEF Finished, e

\* A handler that panics has answered nothing.
LEMMA PanicShape ==
  ASSUME TypeOK, FreshInv, StackInv, FramesInv, NEW r \in Requests, Panic(r)
  PROVE  Leaves(r, FALSE) /\ UNCHANGED answer
<1> DEFINE e == FALSE
<1>1. /\ Returning(r, "handler") /\ End(r, Top(r).span, e) /\ e \in BOOLEAN
      /\ stack' = [stack EXCEPT ![r] = Pop(r)] /\ UNCHANGED <<phase, asked, answer>>
  BY DEF Panic
<1> HIDE DEF e
<1>2. Leaves(r, e)
  BY <1>1, LeaveShape
<1>3. QED
  BY <1>1, <1>2 DEF e

\* When the process ends, no request has a call left and no span is open or
\* waits.
Gone(how) ==
  /\ phase' = how /\ queue' = <<>> /\ UNCHANGED <<asked, answer>>
  /\ stack' \in [Requests -> Seq(Frames)]
  /\ spans' \in [Requests -> Seq(SpanRecord)]
  /\ \A r \in Requests :
       /\ stack'[r] = <<>> /\ Len(spans'[r]) = Len(spans[r])
       /\ \A i \in 1..Len(spans[r]) :
            /\ spans'[r][i].parent = spans[r][i].parent
            /\ spans'[r][i].error = spans[r][i].error
            /\ spans'[r][i].at \notin {"open", "queued"}
            /\ spans'[r][i].at = "exported" => spans[r][i].at = "exported"
            /\ spans'[r][i].at = "lost" => spans[r][i].at \in {"queued", "lost"}
            /\ Moves(spans[r][i].at, spans'[r][i].at)

LEMMA ExitShape ==
  ASSUME TypeOK, NEW how, Exit(how)
  PROVE  Gone(how)
<1> DEFINE s(r, i) == [spans[r][i] EXCEPT !.at = CASE @ = "open" -> "cut"
                                                   [] @ = "queued" -> "lost"
                                                   [] OTHER -> @]
<1>1. /\ phase' = how /\ queue' = <<>> /\ UNCHANGED <<asked, answer>>
      /\ stack' = [r \in Requests |-> <<>>]
      /\ spans' = [r \in Requests |-> [i \in DOMAIN spans[r] |-> s(r, i)]]
  BY DEF Exit
<1>2. ASSUME NEW r \in Requests, NEW i \in 1..Len(spans[r])
      PROVE  /\ s(r, i) \in SpanRecord
             /\ s(r, i).parent = spans[r][i].parent
             /\ s(r, i).error = spans[r][i].error
             /\ s(r, i).at \notin {"open", "queued"}
             /\ s(r, i).at = "exported" => spans[r][i].at = "exported"
             /\ s(r, i).at = "lost" => spans[r][i].at \in {"queued", "lost"}
             /\ Moves(spans[r][i].at, s(r, i).at)
  <2> DEFINE x == spans[r][i]
             a == CASE x.at = "open" -> "cut" [] x.at = "queued" -> "lost"
                    [] OTHER -> x.at
  <2>1. x \in SpanRecord
    BY <1>2, ElementOfSeq DEF TypeOK
  <2>2. s(r, i) = [x EXCEPT !.at = a]
    BY <2>1
  <2> HIDE DEF x, s
  <2>3. /\ a \in {"exported", "dropped", "cut", "lost"}
        /\ a = "exported" => x.at = "exported"
        /\ a = "lost" => x.at \in {"queued", "lost"}
        /\ Moves(x.at, a)
    BY <2>1 DEF SpanRecord, Moves
  <2> HIDE DEF a
  <2>4. /\ [x EXCEPT !.at = a] \in SpanRecord
        /\ [x EXCEPT !.at = a].parent = x.parent
        /\ [x EXCEPT !.at = a].error = x.error
        /\ [x EXCEPT !.at = a].at = a
    BY <2>1, <2>3 DEF SpanRecord
  <2>5. QED
    BY <2>2, <2>3, <2>4 DEF x
<1> HIDE DEF s
<1>3. ASSUME NEW r \in Requests
      PROVE  /\ [i \in DOMAIN spans[r] |-> s(r, i)] \in Seq(SpanRecord)
             /\ Len([i \in DOMAIN spans[r] |-> s(r, i)]) = Len(spans[r])
  <2>1. spans[r] \in Seq(SpanRecord)
    BY <1>3 DEF TypeOK
  <2>2. Len(spans[r]) \in Nat /\ DOMAIN spans[r] = 1..Len(spans[r])
    BY <2>1, LenProperties
  <2> DEFINE n == Len(spans[r])
             q == [i \in 1..n |-> s(r, i)]
  <2>3. \A i \in 1..n : s(r, i) \in SpanRecord
    BY <1>2, <1>3
  <2> HIDE DEF n
  <2>4. q \in Seq(SpanRecord) /\ Len(q) = n
    <3>1. n \in Nat
      BY <2>2 DEF n
    <3>2. q \in [1..n -> SpanRecord]
      BY <2>3
    <3>3. q \in Seq(SpanRecord)
      BY <3>1, <3>2
    <3>4. Len(q) = n
      BY <3>1
    <3>5. QED
      BY <3>3, <3>4
  <2>5. QED
    BY <2>2, <2>4 DEF n
<1>4. /\ stack' \in [Requests -> Seq(Frames)]
      /\ \A r \in Requests : stack'[r] = <<>>
  BY <1>1, EmptySeq
<1>5. spans' \in [Requests -> Seq(SpanRecord)]
      /\ \A r \in Requests : Len(spans'[r]) = Len(spans[r])
  BY <1>1, <1>3
<1>6. ASSUME NEW r \in Requests, NEW i \in 1..Len(spans[r])
      PROVE  spans'[r][i] = s(r, i)
  <2>1. DOMAIN spans[r] = 1..Len(spans[r])
    BY <1>6 DEF TypeOK
  <2>2. QED
    BY <1>1, <1>6, <2>1
<1>7. QED
  BY <1>1, <1>2, <1>4, <1>5, <1>6 DEF Gone

\* An export takes the head of the queue, a span of a request.
Exported(h, j) ==
  /\ queue # <<>> /\ queue[1] = <<h, j>> /\ j \in 1..Len(spans[h])
  /\ Len(queue) \in Nat \ {0} /\ Len(queue') = Len(queue) - 1
  /\ queue' \in Seq(Requests \X Nat)
  /\ \A a \in 1..Len(queue) - 1 : queue'[a] = queue[a + 1]
  /\ spans' \in [Requests -> Seq(SpanRecord)]
  /\ \A q \in Requests \ {h} : spans'[q] = spans[q]
  /\ Len(spans'[h]) = Len(spans[h])
  /\ \A i \in 1..Len(spans[h]) : i # j => spans'[h][i] = spans[h][i]
  /\ spans'[h][j].parent = spans[h][j].parent
  /\ spans'[h][j].error = spans[h][j].error
  /\ spans'[h][j].at = "exported"
  /\ UNCHANGED <<phase, asked, stack, answer>>

LEMMA ExportShape ==
  ASSUME TypeOK, QueueInv, Export
  PROVE  \E h \in Requests : \E j \in Nat : Exported(h, j)
<1> DEFINE h == queue[1][1]
           j == queue[1][2]
           s == [spans[h][j] EXCEPT !.at = "exported"]
<1>1. queue # <<>> /\ queue' = Tail(queue) /\ UNCHANGED <<phase, asked, stack, answer>>
      /\ spans' = [spans EXCEPT ![Head(queue)[1]][Head(queue)[2]].at = "exported"]
  BY DEF Export
<1>2. queue \in Seq(Requests \X Nat)
  BY DEF TypeOK
<1>3. Len(queue) \in Nat \ {0} /\ Head(queue) = queue[1]
      /\ queue[1] \in Requests \X Nat /\ 1 \in DOMAIN queue
  BY <1>1, <1>2, EmptySeq, LenProperties, ElementOfSeq
<1>4. h \in Requests /\ j \in Nat /\ queue[1] = <<h, j>>
  BY <1>3
<1>5. spans[h] \in Seq(SpanRecord) /\ j \in 1..Len(spans[h])
  BY <1>3, <1>4 DEF QueueInv, TypeOK
<1>6. spans[h][j] \in SpanRecord
  BY <1>5, ElementOfSeq
<1>7. s \in SpanRecord /\ s.at = "exported"
      /\ s.parent = spans[h][j].parent /\ s.error = spans[h][j].error
  BY <1>6 DEF SpanRecord
<1>8. spans' = [spans EXCEPT ![h] = [spans[h] EXCEPT ![j] = s]]
  BY <1>1, <1>3
<1> HIDE DEF s, h, j
<1>9. /\ [spans[h] EXCEPT ![j] = s] \in Seq(SpanRecord)
      /\ Len([spans[h] EXCEPT ![j] = s]) = Len(spans[h])
      /\ \A i \in 1..Len(spans[h]) : [spans[h] EXCEPT ![j] = s][i] =
                                       IF i = j THEN s ELSE spans[h][i]
  BY <1>5, <1>7, ExceptSeq
<1>10. /\ Tail(queue) \in Seq(Requests \X Nat)
       /\ Len(Tail(queue)) = Len(queue) - 1
       /\ \A a \in 1..Len(Tail(queue)) : Tail(queue)[a] = queue[a + 1]
  BY <1>1, <1>2, HeadTailProperties
<1>11. /\ spans'[h] = [spans[h] EXCEPT ![j] = s]
       /\ \A q \in Requests \ {h} : spans'[q] = spans[q]
       /\ spans' \in [Requests -> Seq(SpanRecord)]
  BY <1>4, <1>8, <1>9 DEF TypeOK
<1>12. Exported(h, j)
  BY <1>1, <1>3, <1>4, <1>5, <1>7, <1>9, <1>10, <1>11 DEF Exported
<1>13. QED
  BY <1>4, <1>12

\* A panic leaves the middleware without an answer.
Panics(r) == Leaves(r, FALSE) /\ UNCHANGED answer

\* The process starts to serve, or to drain, or fails before it serves.
Quiet ==
  /\ UNCHANGED <<asked, stack, answer, spans, queue>>
  /\ \/ phase' = phase
     \/ phase = "starting" /\ phase' \in {"serving", "killed"}
     \/ phase = "serving" /\ phase' = "draining"

Stops ==
  \E how \in {"exited", "killed"} :
    Gone(how) /\ Running /\ (how = "exited" => phase = "draining" /\ queue = <<>>)

Exports == Running /\ \E h \in Requests : \E j \in Nat : Exported(h, j)

\* The shapes of the steps.
StepOf(r) ==
  Running /\ (CallMade(r) \/ Returned(r) \/ Handles(r) \/ Panics(r) \/ Finished(r))
Steps == Quiet \/ Stops \/ Exports \/ \E r \in Requests : Arrived(r) \/ StepOf(r)

LEMMA StepShapes == TracingInv /\ [Next]_vars => Steps
<1> SUFFICES ASSUME TracingInv, [Next]_vars PROVE Steps
  OBVIOUS
<1>1. /\ TypeOK /\ FreshInv /\ StackInv /\ ResultsInv /\ FramesInv /\ QueueInv
  BY DEF TracingInv
<1>2. CASE UNCHANGED vars
  BY <1>2 DEF vars, Steps, Quiet
<1>3. CASE Serve \/ TracerFails \/ RunReturns
  BY <1>3 DEF Serve, TracerFails, RunReturns, Steps, Quiet
<1>4. CASE MainReturns
  BY <1>1, <1>4, ExitShape DEF MainReturns, Running, Steps, Stops
<1>5. CASE Kill
  BY <1>1, <1>5, ExitShape DEF Kill, Steps, Stops
<1>6. CASE Export
  <2>1. \E h \in Requests : \E j \in Nat : Exported(h, j)
    BY <1>1, <1>6, ExportShape
  <2>2. QED
    BY <1>6, <2>1 DEF Export, Steps, Exports
<1>7. ASSUME NEW r \in Requests, Arrive(r) PROVE Steps
  BY <1>1, <1>7, ArriveShape DEF Steps
<1>8. ASSUME NEW r \in Requests, Step(r) PROVE Steps
  <2>1. Running
    BY <1>8 DEF Step, Call, Calling, Return, Handled, Panic, Middleware, Returning
  <2>2. CASE Call(r)
    BY <1>1, <2>1, <2>2, CallShape DEF Steps, StepOf
  <2>3. CASE Return(r)
    BY <1>1, <2>1, <2>3, ReturnShape DEF Steps, StepOf
  <2>4. CASE Handled(r)
    BY <1>1, <2>1, <2>4, HandledShape DEF Steps, StepOf
  <2>5. CASE Panic(r)
    BY <1>1, <2>1, <2>5, PanicShape DEF Steps, StepOf, Panics
  <2>6. CASE Middleware(r)
    BY <1>1, <2>1, <2>6, MiddlewareShape DEF Steps, StepOf
  <2>7. QED
    BY <1>8, <2>2, <2>3, <2>4, <2>5, <2>6 DEF Step
<1>9. QED
  BY <1>2, <1>3, <1>4, <1>5, <1>6, <1>7, <1>8 DEF Next

\* The queue after a span has ended.
LEMMA QueueShape ==
  ASSUME TypeOK, NEW r \in Requests, NEW i \in 0..Len(spans[r]), NEW e,
         Ended(r, i, e)
  PROVE  /\ queue' \in Seq(Requests \X Nat) /\ Len(queue') <= QueueSize
         /\ \/ queue' = queue
            \/ /\ i # 0 /\ spans[r][i].at = "open" /\ spans'[r][i].at = "queued"
               /\ phase = "serving" /\ Len(queue') = Len(queue) + 1
               /\ queue'[Len(queue) + 1] = <<r, i>>
               /\ \A a \in 1..Len(queue) : queue'[a] = queue[a]
<1>1. queue \in Seq(Requests \X Nat) /\ Len(queue) <= QueueSize /\ Len(queue) \in Nat
  BY DEF TypeOK
<1>2. CASE queue' = queue
  BY <1>1, <1>2
<1>3. CASE queue' # queue
  <2>1. /\ i # 0 /\ spans[r][i].at = "open" /\ Room
        /\ spans'[r][i].at = "queued" /\ queue' = Append(queue, <<r, i>>)
    BY <1>3 DEF Ended
  <2>2. <<r, i>> \in Requests \X Nat
    <3>1. Len(spans[r]) \in Nat
      BY DEF TypeOK
    <3>2. i \in Nat
      BY <3>1
    <3>3. QED
      BY <3>2
  <2>3. /\ queue' \in Seq(Requests \X Nat) /\ Len(queue') = Len(queue) + 1
        /\ queue'[Len(queue) + 1] = <<r, i>>
        /\ \A a \in 1..Len(queue) : queue'[a] = queue[a]
    BY <1>1, <2>1, <2>2, AppendProperties
  <2>4. phase = "serving" /\ Len(queue) < QueueSize
    BY <2>1 DEF Room
  <2>5. Len(queue') <= QueueSize
    BY <1>1, <2>3, <2>4
  <2>6. QED
    BY <2>1, <2>3, <2>4, <2>5
<1>4. QED
  BY <1>2, <1>3

LEMMA TypeStep == TypeOK /\ Steps => TypeOK'
<1> SUFFICES ASSUME TypeOK, Steps PROVE TypeOK'
  OBVIOUS
<1> DEFINE AnswerType == [status : {0, 200, 400, 401, 500},
                          value : (-Word..Word - 1) \cup {Bad}]
           Phases == {"starting", "serving", "draining", "exited", "killed"}
           Queued == queue' \in Seq(Requests \X Nat) /\ Len(queue') <= QueueSize
<1>1. CASE Quiet
  BY <1>1 DEF Quiet, TypeOK
<1>2. CASE Stops
  <2>1. PICK how \in {"exited", "killed"} : Gone(how)
    BY <1>2 DEF Stops
  <2>2. queue' = <<>> /\ Queued
    BY <2>1, EmptySeq DEF Gone
  <2>3. QED
    BY <2>1, <2>2 DEF Gone, TypeOK
<1>3. CASE Exports
  <2>1. PICK h \in Requests, j \in Nat : Exported(h, j)
    BY <1>3 DEF Exports
  <2>2. Queued
    BY <2>1 DEF Exported, TypeOK
  <2>3. QED
    BY <2>1, <2>2 DEF Exported, TypeOK
<1>4. ASSUME NEW r \in Requests, Arrived(r) PROVE TypeOK'
  <2> DEFINE a == asked'[r]
  <2>1. asked' \in [Requests -> Ask \cup {NoAsk}]
    <3>1. a \in Ask /\ asked' = [asked EXCEPT ![r] = a]
      BY <1>4 DEF Arrived
    <3> HIDE DEF a
    <3>2. QED
      BY <3>1 DEF TypeOK
  <2>2. QED
    BY <1>4, <2>1 DEF Arrived, TypeOK
<1>5. ASSUME NEW r \in Requests, StepOf(r) PROVE TypeOK'
  <2>1. CASE CallMade(r)
    BY <2>1 DEF CallMade, TypeOK
  <2>2. CASE Returned(r)
    <3>1. Queued
      BY <2>2, QueueShape DEF Returned
    <3>2. QED
      BY <2>2, <3>1 DEF Returned, Ended, TypeOK
  <2>3. CASE Handles(r)
    <3>1. PICK e \in BOOLEAN : Leaves(r, e)
      BY <2>3 DEF Handles
    <3>2. Queued
      BY <3>1, QueueShape DEF Leaves
    <3>3. answer' \in [Requests -> AnswerType]
      <4>1. answer'[r] \in AnswerType /\ answer' = [answer EXCEPT ![r] = answer'[r]]
        BY <2>3 DEF Handles
      <4>2. answer \in [Requests -> AnswerType]
        BY DEF TypeOK
      <4> HIDE DEF AnswerType
      <4>3. QED
        BY <4>1, <4>2
    <3>4. QED
      BY <3>1, <3>2, <3>3 DEF Leaves, Ended, TypeOK
  <2>4. CASE Panics(r)
    <3>1. Leaves(r, FALSE) /\ UNCHANGED answer
      BY <2>4 DEF Panics
    <3>2. Queued
      BY <3>1, QueueShape DEF Leaves
    <3>3. QED
      BY <3>1, <3>2 DEF Leaves, Ended, TypeOK
  <2>5. CASE Finished(r)
    <3>1. Queued
      <4>1. 1 \in 0..Len(spans[r])
        BY <2>5 DEF Finished, TypeOK
      <4>2. QED
        BY <2>5, <4>1, QueueShape DEF Finished
    <3>2. QED
      BY <2>5, <3>1 DEF Finished, Ended, TypeOK
  <2>6. QED
    BY <1>5, <2>1, <2>2, <2>3, <2>4, <2>5 DEF StepOf
<1>6. QED
  BY <1>1, <1>2, <1>3, <1>4, <1>5 DEF Steps

\* What the end of a span does to a request's spans.
LEMMA EndedFacts ==
  ASSUME TypeOK, NEW r \in Requests, NEW i \in 0..Len(spans[r]), NEW e,
         Ended(r, i, e), NEW j \in 1..Len(spans[r])
  PROVE  /\ spans'[r][j].parent = spans[r][j].parent
         /\ spans'[r][j].at = "open" <=> spans[r][j].at = "open" /\ j # i
         /\ spans'[r][j].at = "queued" =>
              spans[r][j].at = "queued" \/ (j = i /\ spans[r][j].at = "open")
         /\ spans'[r][j].at \in {"exported", "lost"} =>
              spans'[r][j].at = spans[r][j].at
         /\ j # i => spans'[r][j] = spans[r][j]
<1>1. CASE j # i
  <2>1. spans'[r][j] = spans[r][j]
    BY <1>1 DEF Ended
  <2>2. QED
    BY <1>1, <2>1
<1>2. CASE j = i /\ spans[r][j].at # "open"
  <2>1. spans' = spans
    BY <1>2 DEF Ended
  <2>2. QED
    BY <1>2, <2>1
<1>3. CASE j = i /\ spans[r][j].at = "open"
  <2>1. i # 0
    BY <1>3
  <2>2. spans'[r][i].parent = spans[r][i].parent
        /\ spans'[r][i].at \in {"queued", "dropped"}
    BY <1>3, <2>1 DEF Ended
  <2>3. QED
    BY <1>3, <2>2
<1>4. QED
  BY <1>1, <1>2, <1>3

\* A request whose step it is has arrived.
LEMMA StepArrived ==
  ASSUME TypeOK, FreshInv, NEW r \in Requests, StepOf(r)
  PROVE  /\ stack[r] # <<>> /\ asked[r] # NoAsk /\ asked[r] \in Ask
         /\ asked' = asked /\ phase' = phase
         /\ \A q \in Requests \ {r} : stack'[q] = stack[q] /\ spans'[q] = spans[q]
<1>1. Len(stack[r]) # 0
  <2>1. CASE CallMade(r)
    BY <2>1 DEF CallMade
  <2>2. CASE Returned(r)
    BY <2>2 DEF Returned
  <2>3. CASE Handles(r) \/ Panics(r)
    <3>1. PICK e : Leaves(r, e)
      BY <2>3 DEF Handles, Panics
    <3>2. Len(stack[r]) = 2
      BY <3>1 DEF Leaves
    <3>3. QED
      BY <3>2
  <2>4. CASE Finished(r)
    BY <2>4 DEF Finished
  <2>5. QED
    BY <2>1, <2>2, <2>3, <2>4 DEF StepOf
<1>2. stack[r] # <<>>
  BY <1>1
<1>3. asked' = asked /\ phase' = phase
      /\ \A q \in Requests \ {r} : stack'[q] = stack[q] /\ spans'[q] = spans[q]
  <2>1. CASE CallMade(r)
    BY <2>1 DEF CallMade
  <2>2. CASE Returned(r)
    BY <2>2 DEF Returned, Ended
  <2>3. ASSUME NEW e, Leaves(r, e)
        PROVE  asked' = asked /\ phase' = phase
               /\ \A q \in Requests \ {r} :
                    stack'[q] = stack[q] /\ spans'[q] = spans[q]
    BY <2>3 DEF Leaves, Ended
  <2>4. CASE Handles(r) \/ Panics(r)
    BY <2>3, <2>4 DEF Handles, Panics
  <2>5. CASE Finished(r)
    BY <2>5 DEF Finished, Ended
  <2>6. QED
    BY <2>1, <2>2, <2>4, <2>5 DEF StepOf
<1>4. QED
  BY <1>2, <1>3 DEF FreshInv, TypeOK

LEMMA FreshStep == TypeOK /\ FreshInv /\ TypeOK' /\ Steps => FreshInv'
<1> SUFFICES ASSUME TypeOK, FreshInv, TypeOK', Steps, NEW q \in Requests
             PROVE  /\ asked'[q] = NoAsk => /\ stack'[q] = <<>> /\ spans'[q] = <<>>
                                            /\ answer'[q] = NoAnswer
                    /\ phase' = "starting" => asked'[q] = NoAsk
  BY DEF FreshInv
<1>1. CASE Quiet
  BY <1>1 DEF Quiet, FreshInv
<1>2. CASE Stops
  <2>1. PICK how \in {"exited", "killed"} : Gone(how)
    BY <1>2 DEF Stops
  <2>2. asked[q] = NoAsk => spans'[q] = <<>>
    <3>1. spans'[q] \in Seq(SpanRecord) /\ Len(spans'[q]) = Len(spans[q])
      BY <2>1 DEF Gone
    <3>2. QED
      BY <3>1, EmptySeq, LenProperties DEF FreshInv
  <2>3. QED
    BY <2>1, <2>2 DEF Gone, FreshInv
<1>3. CASE Exports
  <2>1. PICK h \in Requests, j \in Nat : Exported(h, j)
    BY <1>3 DEF Exports
  <2>2. asked[h] # NoAsk
    <3>1. spans[h] # <<>>
      BY <2>1 DEF Exported
    <3>2. QED
      BY <3>1 DEF FreshInv
  <2>3. QED
    BY <1>3, <2>1, <2>2 DEF Exports, Running, Exported, FreshInv
<1>4. ASSUME NEW r \in Requests, Arrived(r)
      PROVE  /\ asked'[q] = NoAsk => /\ stack'[q] = <<>> /\ spans'[q] = <<>>
                                     /\ answer'[q] = NoAnswer
             /\ phase' = "starting" => asked'[q] = NoAsk
  <2>1. phase' = "serving" /\ UNCHANGED answer
    BY <1>4 DEF Arrived
  <2>2. CASE q = r
    <3>1. NoAsk \notin Ask
      BY DEF NoAsk, Ask, Paths
    <3>2. QED
      BY <1>4, <2>1, <2>2, <3>1 DEF Arrived
  <2>3. CASE q # r
    <3>1. stack'[q] = stack[q] /\ spans'[q] = spans[q] /\ asked'[q] = asked[q]
      BY <1>4, <2>3 DEF Arrived, TypeOK
    <3>2. QED
      BY <2>1, <3>1 DEF FreshInv
  <2>4. QED
    BY <2>2, <2>3
<1>5. ASSUME NEW r \in Requests, StepOf(r)
      PROVE  /\ asked'[q] = NoAsk => /\ stack'[q] = <<>> /\ spans'[q] = <<>>
                                     /\ answer'[q] = NoAnswer
             /\ phase' = "starting" => asked'[q] = NoAsk
  <2>1. /\ asked[r] # NoAsk /\ asked' = asked /\ phase' = phase
        /\ \A x \in Requests \ {r} : stack'[x] = stack[x] /\ spans'[x] = spans[x]
    BY <1>5, StepArrived
  <2>2. q # r => answer'[q] = answer[q]
    <3>1. CASE Handles(r)
      <4> DEFINE a == answer'[r]
      <4>1. answer' = [answer EXCEPT ![r] = a]
        BY <3>1 DEF Handles
      <4> HIDE DEF a
      <4>2. QED
        BY <4>1 DEF TypeOK
    <3>2. CASE ~Handles(r)
      <4>1. UNCHANGED answer
        BY <1>5, <3>2 DEF StepOf, CallMade, Returned, Panics, Finished
      <4>2. QED
        BY <4>1
    <3>3. QED
      BY <3>1, <3>2
  <2>3. QED
    BY <2>1, <2>2 DEF FreshInv
<1>6. QED
  BY <1>1, <1>2, <1>3, <1>4, <1>5 DEF Steps

\* The stack of a request is as it was, without its top, or one call higher.
LEMMA StackStep ==
  TypeOK /\ FreshInv /\ StackInv /\ ResultsInv /\ FramesInv /\ TypeOK' /\ Steps
    => StackInv'
<1> SUFFICES ASSUME TypeOK, FreshInv, StackInv, ResultsInv, FramesInv, TypeOK',
                    Steps, NEW q \in Requests, NEW k \in DOMAIN stack'[q]
             PROVE  Called(q, k)'
  BY DEF StackInv
<1>1. ASSUME stack'[q] = stack[q], asked'[q] = asked[q] PROVE Called(q, k)'
  BY <1>1 DEF StackInv, Called
<1>2. k \in 1..Len(stack'[q])
  BY DEF TypeOK
<1>3. CASE Quiet
  BY <1>1, <1>3 DEF Quiet
<1>4. CASE Stops
  BY <1>2, <1>4 DEF Stops, Gone
<1>5. CASE Exports
  BY <1>1, <1>5 DEF Exports, Exported
<1>6. ASSUME NEW r \in Requests, Arrived(r) PROVE Called(q, k)'
  <2>1. CASE q = r
    <3>1. k \in 1..2
      BY <1>2, <1>6, <2>1 DEF Arrived
    <3>2. QED
      BY <1>6, <2>1, <3>1 DEF Arrived, Called, Frame
  <2>2. CASE q # r
    BY <1>1, <1>6, <2>2 DEF Arrived, TypeOK
  <2>3. QED
    BY <2>1, <2>2
<1>7. ASSUME NEW r \in Requests, StepOf(r) PROVE Called(q, k)'
  <2>1. /\ asked' = asked /\ \A x \in Requests \ {r} : stack'[x] = stack[x]
    BY <1>7, StepArrived
  <2>2. CASE q # r
    BY <1>1, <2>1, <2>2
  <2>3. ASSUME q = r, k \in 1..Len(stack[r]), stack'[r][k] = stack[r][k]
        PROVE  Called(q, k)'
    BY <2>1, <2>3 DEF StackInv, Called, TypeOK
  <2>4. Len(stack[r]) \in Nat
    BY DEF TypeOK
  <2>5. CASE q = r /\ CallMade(r)
    <3>1. k \in 1..Len(stack[r]) \/ k = Len(stack[r]) + 1
      BY <1>2, <2>4, <2>5 DEF CallMade
    <3>2. CASE k \in 1..Len(stack[r])
      BY <2>3, <2>5, <3>2 DEF CallMade
    <3>3. CASE k = Len(stack[r]) + 1
      <4>1. k > 2 /\ k # 1 /\ k # 2
        BY <2>4, <2>5, <3>3 DEF CallMade
      <4>2. /\ stack'[r][k].fn = "calculateFibonacci"
            /\ stack'[r][k].n \in Numbers /\ asked[r].path = "/fibonacci"
        BY <2>5, <3>3 DEF CallMade, Frame
      <4>3. QED
        BY <2>1, <2>5, <4>1, <4>2 DEF Called
    <3>4. QED
      BY <3>1, <3>2, <3>3
  <2>6. CASE q = r /\ Returned(r)
    <3> DEFINE n == Len(stack[r])
    <3>1. n > 2 /\ Len(stack'[r]) = n - 1
      BY <2>6 DEF Returned
    <3>2. k \in 1..n - 2 \/ k = n - 1
      BY <1>2, <2>4, <2>6, <3>1
    <3>3. CASE k \in 1..n - 2
      BY <2>3, <2>4, <2>6, <3>3 DEF Returned
    <3>4. CASE k = n - 1
      <4>1. k # 1 /\ k \in DOMAIN stack[r]
        <5>1. k # 1 /\ k \in 1..n
          <6>1. n \in Nat
            BY <2>4
          <6> HIDE DEF n
          <6>2. QED
            BY <3>1, <3>4, <6>1
        <5>2. QED
          BY <5>1 DEF TypeOK
      <4>2. /\ stack'[r][k].fn = stack[r][k].fn /\ stack'[r][k].n = stack[r][k].n
            /\ stack'[r][k].span = stack[r][k].span
        BY <2>6, <3>4 DEF Returned, Frames
      <4>3. QED
        BY <2>1, <2>6, <4>1, <4>2 DEF StackInv, Called
    <3>5. QED
      BY <3>2, <3>3, <3>4
  <2>7. ASSUME q = r, NEW e, Leaves(r, e) PROVE Called(q, k)'
    <3>1. k = 1 /\ stack'[r][1] = stack[r][1] /\ k \in 1..Len(stack[r])
      BY <1>2, <2>7 DEF Leaves
    <3>2. QED
      BY <2>3, <2>7, <3>1
  <2>8. CASE q = r /\ (Handles(r) \/ Panics(r))
    BY <2>7, <2>8 DEF Handles, Panics
  <2>9. CASE q = r /\ Finished(r)
    BY <1>2, <2>9 DEF Finished
  <2>10. QED
    BY <1>7, <2>2, <2>5, <2>6, <2>8, <2>9 DEF StepOf
<1>8. QED
  BY <1>3, <1>4, <1>5, <1>6, <1>7 DEF Steps

\* A call that returned has added its number to the results of its caller.
LEMMA ResultsStep ==
  TypeOK /\ FreshInv /\ StackInv /\ ResultsInv /\ FramesInv /\ TypeOK'
    /\ StackInv' /\ Steps => ResultsInv'
<1> SUFFICES ASSUME TypeOK, FreshInv, StackInv, ResultsInv, FramesInv, TypeOK',
                    StackInv', Steps,
                    NEW q \in Requests, NEW k \in DOMAIN stack'[q]
             PROVE  Computing(q, k)'
  BY DEF ResultsInv
<1>1. ASSUME stack'[q] = stack[q] PROVE Computing(q, k)'
  BY <1>1 DEF ResultsInv, Computing
<1>2. k \in 1..Len(stack'[q]) /\ k \in Nat \ {0}
  BY DEF TypeOK
<1>3. CASE Quiet
  BY <1>1, <1>3 DEF Quiet
<1>4. CASE Stops
  BY <1>2, <1>4 DEF Stops, Gone
<1>5. CASE Exports
  BY <1>1, <1>5 DEF Exports, Exported
<1>6. /\ stack'[q][k] \in Frames
      /\ stack'[q][k].fn = "calculateFibonacci" => stack'[q][k].n \in Numbers
  <2>1. stack'[q] \in Seq(Frames) /\ k \in 1..Len(stack'[q])
    BY <1>2 DEF TypeOK
  <2>2. stack'[q][k] \in Frames
    BY <2>1, ElementOfSeq
  <2>3. k = 1 \/ k = 2 \/ k > 2
    BY <1>2
  <2>4. Called(q, k)'
    BY DEF StackInv
  <2>5. QED
    BY <2>2, <2>3, <2>4 DEF Called, Frame
<1>7. /\ Len(Calls(stack'[q][k])) \in Nat
  BY <1>6, CallsType
<1>8. ASSUME NEW r \in Requests, Arrived(r) PROVE Computing(q, k)'
  <2>1. CASE q = r
    <3>1. k \in 1..2
      BY <1>2, <1>8, <2>1 DEF Arrived
    <3>2. stack'[q][k].got = <<>> /\ ~(k > 2)
      BY <1>8, <2>1, <3>1 DEF Arrived, Frame
    <3>3. Len(stack'[q][k].got) = 0
      BY <3>2
    <3>4. QED
      BY <1>7, <3>2, <3>3 DEF Computing
  <2>2. CASE q # r
    BY <1>1, <1>8, <2>2 DEF Arrived
  <2>3. QED
    BY <2>1, <2>2
<1>9. ASSUME NEW r \in Requests, StepOf(r) PROVE Computing(q, k)'
  <2>1. \A x \in Requests \ {r} : stack'[x] = stack[x]
    BY <1>9, StepArrived
  <2>2. CASE q # r
    BY <1>1, <2>1, <2>2
  <2> DEFINE n == Len(stack[r])
  <2>3. n \in Nat /\ DOMAIN stack[r] = 1..n
    BY DEF TypeOK
  <2>4. ASSUME q = r, k \in 1..n, stack'[r][k] = stack[r][k],
               k > 2 => stack'[r][k - 1] = stack[r][k - 1]
        PROVE  Computing(q, k)'
    <3>1. Computing(r, k)
      BY <2>3, <2>4 DEF ResultsInv
    <3>2. CASE k > 2
      BY <2>4, <3>1, <3>2 DEF Computing
    <3>3. CASE ~(k > 2)
      BY <2>4, <3>1, <3>3 DEF Computing
    <3>4. QED
      BY <3>2, <3>3
  <2>5. CASE q = r /\ CallMade(r)
    <3>1. Len(stack'[r]) = n + 1 /\ \A i \in 1..n : stack'[r][i] = stack[r][i]
      BY <2>5 DEF CallMade
    <3>2. k \in 1..n \/ k = n + 1
      <4> HIDE DEF n
      <4>1. QED
        BY <1>2, <2>3, <2>5, <3>1
    <3>3. CASE k \in 1..n
      <4>1. k > 2 => k - 1 \in 1..n
        <5> HIDE DEF n
        <5>1. QED
          BY <2>3, <3>3
      <4>2. QED
        BY <2>4, <2>5, <3>1, <3>3, <4>1
    <3>4. CASE k = n + 1
      <4>1. k - 1 = n /\ (k > 2 => n \in 1..n)
        <5>1. n \in Nat /\ k = n + 1
          BY <2>3, <3>4
        <5> HIDE DEF n
        <5>2. k - 1 = n
          BY <5>1
        <5>3. k > 2 => n \in 1..n
          BY <5>1
        <5>4. QED
          BY <5>2, <5>3
      <4>2. stack'[r][k] = Frame("calculateFibonacci",
                                 Calls(Top(r))[Len(Top(r).got) + 1],
                                 Len(spans[r]) + 1)
            /\ Len(Top(r).got) < Len(Calls(Top(r)))
        BY <2>5, <3>4 DEF CallMade
      <4>3. stack'[r][k].got = <<>>
            /\ stack'[r][k].n = Calls(Top(r))[Len(Top(r).got) + 1]
        BY <4>2 DEF Frame
      <4>4. Len(stack'[r][k].got) = 0
        BY <4>3
      <4>5. k > 2 => stack'[r][k - 1] = Top(r)
        BY <3>1, <4>1 DEF Top
      <4>6. QED
        BY <1>7, <2>5, <4>2, <4>3, <4>4, <4>5 DEF Computing
    <3>5. QED
      BY <3>2, <3>3, <3>4
  <2>6. CASE q = r /\ Returned(r)
    <3>1. /\ n > 2 /\ Top(r) = stack[r][n] /\ Len(stack'[r]) = n - 1
          /\ \A i \in 1..n - 2 : stack'[r][i] = stack[r][i]
      BY <2>6 DEF Returned
    <3>2. /\ k \in 1..n - 2 \/ k = n - 1
          /\ n \in 1..n /\ n - 1 \in 1..n
      <4> HIDE DEF n
      <4>1. QED
        BY <1>2, <2>3, <2>6, <3>1
    <3>3. CASE k \in 1..n - 2
      <4>1. k \in 1..n /\ (k > 2 => k - 1 \in 1..n - 2)
        <5> HIDE DEF n
        <5>1. QED
          BY <2>3, <3>3
      <4>2. QED
        BY <2>4, <2>6, <3>1, <3>3, <4>1
    <3>4. CASE k = n - 1
      <4> DEFINE g == stack[r][k]
                 h == stack'[r][k]
                 v == Fib[Top(r).n]
      <4>1. h = [g EXCEPT !.got = Append(g.got, v)] /\ g \in Frames
            /\ v \in -Word..Word - 1
        BY <2>6, <3>4 DEF Returned
      <4> HIDE DEF h
      <4>2. h.fn = g.fn /\ h.n = g.n /\ h.got = Append(g.got, v)
            /\ g.got \in Seq(-Word..Word - 1)
        BY <4>1 DEF Frames
      <4>3. Calls(h) = Calls(g)
        BY <4>2 DEF Calls
      <4>4. /\ Len(h.got) = Len(g.got) + 1 /\ Len(g.got) \in Nat
            /\ h.got[Len(g.got) + 1] = v
            /\ \A j \in 1..Len(g.got) : h.got[j] = g.got[j]
        BY <4>1, <4>2, AppendProperties, LenProperties
      <4>5. Computing(r, n) /\ Computing(r, k)
        BY <2>3, <3>2, <3>4 DEF ResultsInv
      <4>6. Len(g.got) < Len(Calls(g)) /\ Top(r).n = Calls(g)[Len(g.got) + 1]
        BY <3>1, <3>4, <4>5 DEF Computing
      <4>7. \A j \in 1..Len(g.got) : g.got[j] = Fib[Calls(g)[j]]
        BY <4>5 DEF Computing
      <4>8. Len(h.got) <= Len(Calls(h))
        BY <1>7, <2>6, <4>3, <4>4, <4>6 DEF h
      <4>9. \A j \in 1..Len(h.got) : h.got[j] = Fib[Calls(h)[j]]
        <5> SUFFICES ASSUME NEW j \in 1..Len(h.got)
                     PROVE  h.got[j] = Fib[Calls(h)[j]]
          OBVIOUS
        <5>1. j \in 1..Len(g.got) \/ j = Len(g.got) + 1
          BY <4>4
        <5>2. QED
          BY <4>3, <4>4, <4>6, <4>7, <5>1
      <4>10. k > 2 => /\ stack'[r][k - 1] = stack[r][k - 1]
                      /\ Len(stack[r][k - 1].got) < Len(Calls(stack[r][k - 1]))
                      /\ g.n = Calls(stack[r][k - 1])[Len(stack[r][k - 1].got) + 1]
        <5>1. k > 2 => k - 1 \in 1..n - 2
          <6> HIDE DEF n
          <6>1. QED
            BY <2>3, <3>1, <3>4
        <5>2. QED
          BY <3>1, <4>5, <5>1 DEF Computing
      <4>11. QED
        BY <2>6, <4>2, <4>8, <4>9, <4>10 DEF Computing, h
    <3>5. QED
      BY <3>2, <3>3, <3>4
  <2>7. ASSUME q = r, NEW e, Leaves(r, e) PROVE Computing(q, k)'
    <3>1. k = 1 /\ stack'[r][1] = stack[r][1] /\ k \in 1..n
      BY <1>2, <2>7 DEF Leaves
    <3>2. QED
      BY <2>4, <2>7, <3>1
  <2>8. CASE q = r /\ (Handles(r) \/ Panics(r))
    BY <2>7, <2>8 DEF Handles, Panics
  <2>9. CASE q = r /\ Finished(r)
    BY <1>2, <2>9 DEF Finished
  <2>10. QED
    BY <1>9, <2>2, <2>5, <2>6, <2>8, <2>9 DEF StepOf
<1>10. QED
  BY <1>3, <1>4, <1>5, <1>8, <1>9 DEF Steps

LEMMA HandlerSpanIs ==
  ASSUME NEW p
  PROVE  /\ HandlerSpan(p) \in {0, 1, 2} /\ (HandlerSpan(p) = 1 <=> p = "/ping")
BY DEF HandlerSpan

\* The spans of the calls of a request stay open until the calls return.
LEMMA FramesStep ==
  TypeOK /\ FreshInv /\ StackInv /\ ResultsInv /\ FramesInv /\ QueueAccounted
    /\ TypeOK' /\ Steps => FramesInv'
<1> SUFFICES ASSUME TypeOK, FreshInv, StackInv, ResultsInv, FramesInv,
                    QueueAccounted, TypeOK', Steps,
                    NEW q \in Requests, NEW k \in DOMAIN stack'[q]
             PROVE  Spanned(q, k)'
  BY DEF FramesInv
<1>1. ASSUME stack'[q] = stack[q], spans'[q] = spans[q], asked'[q] = asked[q]
      PROVE  Spanned(q, k)'
  <2>1. Spanned(q, k)
    BY <1>1 DEF FramesInv
  <2>2. QED
    BY <1>1, <2>1 DEF Spanned
<1>2. k \in 1..Len(stack'[q]) /\ k \in Nat \ {0}
  BY DEF TypeOK
<1>3. CASE Quiet
  BY <1>1, <1>3 DEF Quiet
<1>4. CASE Stops
  BY <1>2, <1>4 DEF Stops, Gone
<1>5. CASE Exports
  <2>1. PICK h \in Requests, j \in Nat : Exported(h, j)
    BY <1>5 DEF Exports
  <2>2. stack' = stack /\ asked' = asked
    BY <2>1 DEF Exported
  <2>3. CASE q # h
    BY <1>1, <2>1, <2>2, <2>3 DEF Exported
  <2>4. CASE q = h
    <3> DEFINE f == stack[q][k]
    <3>1. Spanned(q, k)
      BY <2>2 DEF FramesInv
    <3>2. spans[h][j].at = "queued"
      <4>1. 1 \in DOMAIN queue /\ queue[1] = <<h, j>> /\ j \in DOMAIN spans[h]
        BY <2>1 DEF Exported, TypeOK
      <4>2. QED
        BY <4>1 DEF QueueAccounted
    <3>3. Len(spans'[q]) = Len(spans[q]) /\ f.span \in 0..Len(spans[q])
      <4>1. stack[q] \in Seq(Frames) /\ spans[q] \in Seq(SpanRecord)
            /\ k \in 1..Len(stack[q])
        BY <1>2, <2>2 DEF TypeOK
      <4>2. f \in Frames /\ Len(spans[q]) \in Nat
        BY <4>1, ElementOfSeq
      <4>3. f.span \in Nat
        BY <4>2 DEF Frames
      <4>4. f.span \in Nat /\ f.span <= Len(spans[q]) /\ Len(spans[q]) \in Nat
        BY <3>1, <4>2, <4>3 DEF Spanned
      <4>5. QED
        BY <2>1, <2>4, <4>4 DEF Exported
    <3>4. \A i \in 1..Len(spans[q]) :
            /\ spans'[q][i].parent = spans[q][i].parent
            /\ spans[q][i].at = "open" => spans'[q][i].at = "open"
      <4> TAKE i \in 1..Len(spans[q])
      <4>1. CASE i = j
        BY <2>1, <2>4, <3>2, <4>1 DEF Exported
      <4>2. CASE i # j
        <5>1. spans'[q][i] = spans[q][i]
          BY <2>1, <2>4, <4>2 DEF Exported
        <5>2. QED
          BY <5>1
      <4>3. QED
        BY <4>1, <4>2
    <3>5. f.span # 0 => f.span \in 1..Len(spans[q])
      BY <3>3
    <3>6. k > 2 => f.span # 0
      <4>1. k > 2 => 1 \in 1..(k - 1) /\ 1 \in DOMAIN stack[q]
        BY <1>2, <2>2 DEF TypeOK
      <4>2. k > 2 => stack[q][1] \in Frames
        BY <4>1, ElementOfSeq DEF TypeOK
      <4>3. k > 2 => stack[q][1].span < f.span /\ stack[q][1].span \in Nat
        BY <3>1, <4>1, <4>2 DEF Spanned, Frames
      <4>4. QED
        BY <3>3, <4>3
    <3> HIDE DEF f
    <3>7. QED
      BY <2>2, <3>1, <3>3, <3>4, <3>5, <3>6 DEF Spanned, f
  <2>5. QED
    BY <2>3, <2>4
<1>6. ASSUME NEW r \in Requests, Arrived(r) PROVE Spanned(q, k)'
  <2>1. CASE q = r
    <3> DEFINE h == HandlerSpan(asked'[r].path)
    <3>1. k \in 1..2
      BY <1>2, <1>6, <2>1 DEF Arrived
    <3>2. h \in {0, 1, 2}
      BY HandlerSpanIs
    <3>3. stack'[r][1].span = 1 /\ stack'[r][2].span = h
      BY <1>6 DEF Arrived, Frame
    <3>4. /\ Len(spans'[r]) = IF h = 2 THEN 2 ELSE 1
          /\ \A i \in 1..Len(spans'[r]) : spans'[r][i].at = "open"
      BY <1>6 DEF Arrived, NewSpan
    <3> HIDE DEF h
    <3>5. stack'[r][k].span <= Len(spans'[r])
          /\ (stack'[r][k].span = 0 \/ stack'[r][k].span \in 1..Len(spans'[r]))
      BY <3>1, <3>2, <3>3, <3>4
    <3>6. QED
      BY <2>1, <3>1, <3>4, <3>5 DEF Spanned
  <2>2. CASE q # r
    BY <1>1, <1>6, <2>2 DEF Arrived, TypeOK
  <2>3. QED
    BY <2>1, <2>2
<1>7. ASSUME NEW r \in Requests, StepOf(r) PROVE Spanned(q, k)'
  <2>1. /\ asked' = asked
        /\ \A x \in Requests \ {r} : stack'[x] = stack[x] /\ spans'[x] = spans[x]
    BY <1>7, StepArrived
  <2>2. CASE q # r
    BY <1>1, <2>1, <2>2
  <2> DEFINE n == Len(stack[r])
             m == Len(spans[r])
             sp(i) == stack[r][i].span
  <2>3. n \in Nat /\ DOMAIN stack[r] = 1..n /\ m \in Nat
    BY DEF TypeOK
  <2>4. \A i \in 1..n : Spanned(r, i) /\ sp(i) \in 0..m
    <3> TAKE i \in 1..n
    <3>1. Spanned(r, i) /\ stack[r][i] \in Frames
      BY <2>3, ElementOfSeq DEF FramesInv, TypeOK
    <3>2. QED
      BY <2>3, <3>1 DEF Spanned, Frames
  <2>5. CASE q = r /\ CallMade(r)
    <3>1. /\ Len(stack'[r]) = n + 1 /\ \A i \in 1..n : stack'[r][i] = stack[r][i]
          /\ Len(spans'[r]) = m + 1 /\ \A i \in 1..m : spans'[r][i] = spans[r][i]
          /\ n > 1 /\ asked[r].path = "/fibonacci"
      BY <2>5 DEF CallMade
    <3>2. k \in 1..n \/ k = n + 1
      <4> HIDE DEF n
      <4>1. QED
        BY <1>2, <2>3, <2>5, <3>1
    <3>3. CASE k \in 1..n
      <4>1. Spanned(r, k) /\ sp(k) \in 0..m /\ (k > 2 => sp(k) # 0)
        <5>1. k > 2 => 1 \in 1..(k - 1) /\ sp(1) \in 0..m
          <6>1. k > 2 => 1 \in 1..(k - 1) /\ 1 \in 1..n
            <7>1. k \in 1..n /\ n \in Nat
              BY <2>3, <3>3
            <7> HIDE DEF n
            <7>2. QED
              BY <7>1
          <6>2. QED
            BY <2>4, <6>1
        <5>2. Spanned(r, k) /\ sp(k) \in 0..m
          BY <2>4, <3>3
        <5>3. k > 2 => sp(1) < sp(k)
          BY <5>1, <5>2 DEF Spanned
        <5>4. QED
          BY <2>3, <5>1, <5>2, <5>3
      <4>2. /\ sp(k) <= m + 1 /\ (sp(k) = 0 \/ sp(k) \in 1..m)
            /\ stack'[r][k] = stack[r][k]
            /\ k > 2 => k - 1 \in 1..n
            /\ \A j \in 1..(k - 1) : j \in 1..n
        <5>1. sp(k) \in 0..m
          BY <4>1
        <5> HIDE DEF n, m, sp
        <5>2. QED
          BY <2>3, <3>1, <3>3, <5>1
      <4>3. \A j \in 1..(k - 1) : stack'[r][j] = stack[r][j]
        BY <3>1, <4>2
      <4>4. sp(k) = 0 \/ spans[r][sp(k)].at = "open"
        BY <3>1, <4>1 DEF Spanned
      <4>5. sp(k) = 0 \/ spans'[r][sp(k)] = spans[r][sp(k)]
        BY <3>1, <4>2
      <4>6. k > 2 => /\ spans[r][sp(k)].parent = stack[r][k - 1].span
                     /\ stack'[r][k - 1] = stack[r][k - 1]
                     /\ \A j \in 1..(k - 1) : stack[r][j].span < sp(k)
        BY <3>1, <4>1, <4>2 DEF Spanned
      <4>7. QED
        BY <2>5, <3>1, <4>1, <4>2, <4>3, <4>4, <4>5, <4>6 DEF Spanned
    <3>4. CASE k = n + 1
      <4>1. /\ stack'[r][k].span = m + 1 /\ spans'[r][m + 1].at = "open"
            /\ spans'[r][m + 1].parent = sp(n)
        BY <2>5, <3>4 DEF CallMade, Frame, NewSpan, Top
      <4>2. k - 1 = n /\ n \in 1..n
        <5> HIDE DEF n
        <5>1. QED
          BY <2>3, <3>1, <3>4
      <4>3. \A j \in 1..n : stack'[r][j].span < m + 1
        <5> TAKE j \in 1..n
        <5>1. stack'[r][j].span = sp(j) /\ sp(j) \in 0..m
          BY <2>4, <3>1
        <5> HIDE DEF sp, m
        <5>2. QED
          BY <2>3, <5>1
      <4>4. stack'[r][k - 1].span = sp(n) /\ \A j \in 1..(k - 1) : j \in 1..n
        BY <3>1, <4>2
      <4>5. stack'[r][k].span <= Len(spans'[r])
        BY <2>3, <3>1, <4>1
      <4>6. QED
        BY <2>5, <4>1, <4>3, <4>4, <4>5 DEF Spanned
    <3>5. QED
      BY <3>2, <3>3, <3>4
  <2>6. CASE q = r /\ Returned(r)
    <3>1. /\ n > 2 /\ Top(r) = stack[r][n] /\ Len(stack'[r]) = n - 1
          /\ \A i \in 1..n - 2 : stack'[r][i] = stack[r][i]
          /\ sp(n) \in 0..m /\ Ended(r, sp(n), FALSE) /\ Len(spans'[r]) = m
      BY <2>6 DEF Returned, Ended
    <3>2. /\ k \in 1..n /\ k < n /\ (k \in 1..n - 2 \/ k = n - 1)
          /\ n \in 1..n /\ k \in 1..(n - 1) /\ \A j \in 1..(k - 1) : j \in 1..n - 2
      <4> HIDE DEF n
      <4>1. QED
        BY <1>2, <2>3, <2>6, <3>1
    <3>3. stack'[r][k].span = sp(k)
      <4>1. stack'[r][n - 1].span = stack[r][n - 1].span
        BY <2>6 DEF Returned, Frames
      <4>2. QED
        BY <3>1, <3>2, <4>1
    <3>4. sp(k) < sp(n) /\ sp(k) \in 0..m /\ Spanned(r, k)
      <4>1. Spanned(r, n)
        BY <2>4, <3>2
      <4>2. QED
        BY <2>4, <3>1, <3>2, <4>1 DEF Spanned
    <3>5. sp(k) # 0 => spans'[r][sp(k)] = spans[r][sp(k)]
      <4>1. sp(k) # 0 => sp(k) \in 1..m /\ sp(k) # sp(n)
        <5>1. sp(k) \in 0..m /\ sp(n) \in 0..m /\ sp(k) < sp(n)
          BY <3>1, <3>4
        <5> HIDE DEF sp, m
        <5>2. QED
          BY <2>3, <5>1
      <4>2. QED
        BY <3>1, <4>1 DEF Ended
    <3>6. k > 1 \/ n > 1 \/ asked[r].path # "/ping"
      BY <2>3, <3>1
    <3>7. k > 2 => /\ stack'[r][k - 1] = stack[r][k - 1] /\ sp(k) # 0
                   /\ \A j \in 1..(k - 1) : stack'[r][j] = stack[r][j]
      <4>1. \A j \in 1..(k - 1) : stack'[r][j] = stack[r][j]
        BY <3>1, <3>2
      <4>2. k > 2 => k - 1 \in 1..(k - 1) /\ 1 \in 1..(k - 1) /\ 1 \in 1..n
        <5> HIDE DEF n
        <5>1. QED
          BY <1>2, <3>2
      <4>3. k > 2 => sp(1) < sp(k) /\ sp(1) \in 0..m
        BY <2>4, <3>4, <4>2 DEF Spanned
      <4>4. QED
        BY <2>3, <3>4, <4>1, <4>2, <4>3
    <3>8. QED
      BY <2>6, <3>1, <3>3, <3>4, <3>5, <3>6, <3>7 DEF Spanned
  <2>7. ASSUME q = r, NEW e, Leaves(r, e) PROVE Spanned(q, k)'
    <3>1. /\ n = 2 /\ k = 1 /\ Len(stack'[r]) = 1 /\ stack'[r][1] = stack[r][1]
          /\ sp(2) \in 0..m /\ Ended(r, sp(2), e) /\ Len(spans'[r]) = m
      BY <1>2, <2>7 DEF Leaves, Ended
    <3>2. Called(r, 1) /\ Called(r, 2) /\ Spanned(r, 1)
      BY <2>3, <2>4, <3>1 DEF StackInv
    <3>3. sp(1) = 1 /\ 1 \in 1..m /\ spans[r][1].at = "open"
      BY <2>3, <2>4, <3>1, <3>2 DEF Called, Frame, Spanned
    <3>4. sp(2) = HandlerSpan(asked[r].path)
      BY <3>2 DEF Called
    <3>5. asked[r].path # "/ping" => spans'[r][1] = spans[r][1]
      <4>1. asked[r].path # "/ping" => sp(2) # 1
        BY <3>4, HandlerSpanIs
      <4>2. QED
        BY <3>1, <3>3, <4>1 DEF Ended
    <3>6. sp(1) <= m
      BY <3>3, <2>3
    <3>7. QED
      BY <2>1, <2>7, <3>1, <3>3, <3>5, <3>6 DEF Spanned
  <2>8. CASE q = r /\ (Handles(r) \/ Panics(r))
    BY <2>7, <2>8 DEF Handles, Panics
  <2>9. CASE q = r /\ Finished(r)
    BY <1>2, <2>9 DEF Finished
  <2>10. QED
    BY <1>7, <2>2, <2>5, <2>6, <2>8, <2>9 DEF StepOf
<1>8. QED
  BY <1>3, <1>4, <1>5, <1>6, <1>7 DEF Steps

\* Every step of a request but a call ends the span of the call on top.
LEMMA EndSteps ==
  ASSUME TypeOK, FreshInv, StackInv, FramesInv, NEW r \in Requests, StepOf(r),
         ~CallMade(r)
  PROVE  /\ Top(r).span \in 0..Len(spans[r])
         /\ \E e : Ended(r, Top(r).span, e)
<1>1. CASE Returned(r)
  BY <1>1 DEF Returned
<1>2. CASE Handles(r) \/ Panics(r)
  BY <1>2 DEF Handles, Panics, Leaves
<1>3. CASE Finished(r)
  <2>1. Len(stack[r]) = 1 /\ stack[r] # <<>> /\ Ended(r, 1, answer[r].status >= 500)
    BY <1>3, StepArrived DEF Finished
  <2>2. Top(r).span = 1 /\ Top(r).span \in 0..Len(spans[r])
    BY <2>1, TopIs DEF Called, Frame
  <2>3. QED
    BY <2>1, <2>2
<1>4. QED
  BY <1>1, <1>2, <1>3 DEF StepOf

\* The places of the calls of a stack, and their spans.
LEMMA SpansOfStack ==
  ASSUME TypeOK, FreshInv, StackInv, FramesInv, NEW r \in Requests,
         NEW k \in DOMAIN stack[r]
  PROVE  /\ k \in 1..Len(stack[r]) /\ Len(stack[r]) \in Nat
         /\ Called(r, k) /\ Spanned(r, k)
         /\ stack[r][k].span \in 0..Len(spans[r]) /\ Len(spans[r]) \in Nat
         /\ k <= 2 => stack[r][k].span <= 2
<1>1. /\ k \in 1..Len(stack[r]) /\ Len(stack[r]) \in Nat
      /\ stack[r] \in Seq(Frames) /\ spans[r] \in Seq(SpanRecord)
      /\ Len(spans[r]) \in Nat
  BY DEF TypeOK
<1>2. Called(r, k) /\ Spanned(r, k)
  BY DEF StackInv, FramesInv
<1>3. stack[r][k].span \in Nat
  <2>1. stack[r][k] \in Frames
    BY <1>1, ElementOfSeq
  <2>2. QED
    BY <2>1 DEF Frames
<1>4. stack[r][k].span <= Len(spans[r])
  BY <1>2 DEF Spanned
<1>5. k <= 2 => stack[r][k].span <= 2
  <2>1. k = 1 => stack[r][k].span = 1
    BY <1>2 DEF Called, Frame
  <2>2. k = 2 => stack[r][k].span \in {0, 1, 2}
    BY <1>2, HandlerSpanIs DEF Called
  <2>3. k <= 2 => k = 1 \/ k = 2
    BY <1>1
  <2>4. QED
    BY <2>1, <2>2, <2>3
<1>6. QED
  BY <1>1, <1>2, <1>3, <1>4, <1>5

\* No open span hangs under that of the call on top.
LEMMA NoOpenChild ==
  ASSUME TypeOK, FreshInv, StackInv, FramesInv, OpenInv, NEW r \in Requests,
         stack[r] # <<>>, NEW i \in DOMAIN spans[r], spans[r][i].at = "open",
         spans[r][i].parent # 0
  PROVE  spans[r][i].parent # Top(r).span
<1> DEFINE n == Len(stack[r])
<1>1. n \in Nat \ {0} /\ Top(r) = stack[r][n] /\ n \in DOMAIN stack[r]
  BY TopIs DEF TypeOK
<1>2. PICK k \in DOMAIN stack[r] : stack[r][k].span = i
  BY DEF OpenInv
<1>3. i > 2
  BY DEF OpenInv, TypeOK
<1>4. k \in 1..n /\ Spanned(r, k) /\ ~(k <= 2)
  BY <1>2, <1>3, SpansOfStack
<1>5. k > 2 /\ n > 2 /\ k - 1 \in 1..(n - 1) /\ k - 1 \in DOMAIN stack[r]
  <2>1. k > 2 /\ n > 2 /\ k - 1 \in 1..(n - 1) /\ k - 1 \in 1..n
    <3> HIDE DEF n
    <3>1. QED
      BY <1>1, <1>4
  <2>2. QED
    BY <2>1 DEF TypeOK
<1>6. Spanned(r, n) /\ spans[r][i].parent = stack[r][k - 1].span
  BY <1>1, <1>2, <1>4, <1>5, SpansOfStack DEF Spanned
<1>7. stack[r][k - 1].span < stack[r][n].span
  BY <1>5, <1>6 DEF Spanned
<1>8. stack[r][k - 1].span \in Nat /\ stack[r][n].span \in Nat
  BY <1>1, <1>5, SpansOfStack
<1>9. QED
  BY <1>1, <1>6, <1>7, <1>8

\* A call that makes another one has a span of its own that is open.
LEMMA CallerOpen ==
  ASSUME TypeOK, FreshInv, StackInv, FramesInv, NEW r \in Requests, CallMade(r)
  PROVE  /\ Top(r).span \in 2..Len(spans[r])
         /\ spans[r][Top(r).span].at = "open"
<1> DEFINE n == Len(stack[r])
<1>1. n > 1 /\ asked[r].path = "/fibonacci"
  BY DEF CallMade
<1>2. n \in Nat /\ n \in DOMAIN stack[r] /\ 2 \in DOMAIN stack[r]
  BY <1>1 DEF TypeOK
<1>3. Top(r).span = stack[r][n].span /\ Spanned(r, n) /\ Called(r, 2)
      /\ stack[r][n].span \in 0..Len(spans[r])
  BY <1>2, SpansOfStack DEF Top
<1>4. stack[r][2].span = 2
  BY <1>1, <1>3 DEF Called, HandlerSpan
<1>5. n = 2 \/ (n > 2 /\ 2 \in 1..(n - 1))
  <2> HIDE DEF n
  <2>1. QED
    BY <1>1, <1>2
<1>6. stack[r][n].span >= 2
  <2>1. n > 2 /\ 2 \in 1..(n - 1) => stack[r][2].span < stack[r][n].span
    BY <1>3 DEF Spanned
  <2>2. QED
    BY <1>3, <1>4, <1>5, <2>1
<1>7. QED
  BY <1>1, <1>3, <1>6 DEF Spanned

\* A span stays open only as long as the call that ends it is on the stack.
LEMMA OpenStep ==
  TypeOK /\ FreshInv /\ StackInv /\ FramesInv /\ OpenInv /\ TypeOK' /\ Steps
    => OpenInv'
<1> DEFINE Good(q, i) ==
             /\ spans'[q][i].at = "open" =>
                  \E k \in DOMAIN stack'[q] : stack'[q][k].span = i
             /\ i <= 2 => spans'[q][i].parent = 0
<1> SUFFICES ASSUME TypeOK, FreshInv, StackInv, FramesInv, OpenInv, TypeOK',
                    Steps, NEW q \in Requests, NEW i \in DOMAIN spans'[q]
             PROVE  Good(q, i)
  BY DEF OpenInv
<1>1. ASSUME stack'[q] = stack[q], spans'[q] = spans[q] PROVE Good(q, i)
  BY <1>1 DEF OpenInv
<1>2. i \in 1..Len(spans'[q]) /\ i \in Nat \ {0}
  BY DEF TypeOK
<1>3. CASE Quiet
  BY <1>1, <1>3 DEF Quiet
<1>4. CASE Stops
  <2>1. PICK how \in {"exited", "killed"} : Gone(how)
    BY <1>4 DEF Stops
  <2>2. i \in DOMAIN spans[q] /\ i \in 1..Len(spans[q])
    BY <1>2, <2>1 DEF Gone, TypeOK
  <2>3. /\ spans'[q][i].parent = spans[q][i].parent
        /\ spans'[q][i].at # "open"
    BY <2>1, <2>2 DEF Gone
  <2>4. i <= 2 => spans[q][i].parent = 0
    BY <2>2 DEF OpenInv
  <2>5. QED
    BY <2>3, <2>4
<1>5. CASE Exports
  <2>1. PICK h \in Requests, j \in Nat : Exported(h, j)
    BY <1>5 DEF Exports
  <2>2. CASE q # h
    BY <1>1, <2>1, <2>2 DEF Exported
  <2>3. CASE q = h
    <3>1. i \in DOMAIN spans[q] /\ i \in 1..Len(spans[q]) /\ stack' = stack
      BY <1>2, <2>1, <2>3 DEF Exported, TypeOK
    <3>2. CASE i = j
      BY <2>1, <2>3, <3>1, <3>2 DEF Exported, OpenInv
    <3>3. CASE i # j
      <4>1. spans'[q][i] = spans[q][i]
        BY <2>1, <2>3, <3>1, <3>3 DEF Exported
      <4>2. QED
        BY <3>1, <4>1 DEF OpenInv
    <3>4. QED
      BY <3>2, <3>3
  <2>4. QED
    BY <2>2, <2>3
<1>6. ASSUME NEW r \in Requests, Arrived(r) PROVE Good(q, i)
  <2>1. CASE q = r
    <3> DEFINE h == HandlerSpan(asked'[r].path)
    <3>1. spans'[r][i].parent = 0 /\ (i = 1 \/ (i = 2 /\ h = 2))
      BY <1>2, <1>6, <2>1 DEF Arrived, NewSpan
    <3>2. stack'[r][1].span = 1 /\ stack'[r][2].span = h
          /\ 1 \in DOMAIN stack'[r] /\ 2 \in DOMAIN stack'[r]
      BY <1>6 DEF Arrived, Frame, TypeOK
    <3> HIDE DEF h
    <3>3. QED
      BY <2>1, <3>1, <3>2
  <2>2. CASE q # r
    BY <1>1, <1>6, <2>2 DEF Arrived
  <2>3. QED
    BY <2>1, <2>2
<1>7. ASSUME NEW r \in Requests, StepOf(r) PROVE Good(q, i)
  <2>1. \A x \in Requests \ {r} : stack'[x] = stack[x] /\ spans'[x] = spans[x]
    BY <1>7, StepArrived
  <2>2. CASE q # r
    BY <1>1, <2>1, <2>2
  <2> DEFINE n == Len(stack[r])
             m == Len(spans[r])
  <2>3. /\ n \in Nat /\ m \in Nat /\ DOMAIN stack[r] = 1..n
        /\ DOMAIN stack'[r] = 1..Len(stack'[r])
        /\ DOMAIN spans[r] = 1..m
    BY DEF TypeOK
  <2>4. CASE q = r /\ CallMade(r)
    <3>1. /\ Len(stack'[r]) = n + 1 /\ \A k \in 1..n : stack'[r][k] = stack[r][k]
          /\ Len(spans'[r]) = m + 1 /\ \A j \in 1..m : spans'[r][j] = spans[r][j]
          /\ stack'[r][n + 1].span = m + 1
      BY <2>4 DEF CallMade, Frame
    <3>2. m >= 2
      BY <2>3, <2>4, CallerOpen
    <3>3. i \in 1..m \/ i = m + 1
      <4> HIDE DEF m
      <4>1. QED
        BY <1>2, <2>3, <2>4, <3>1
    <3>4. n + 1 \in 1..n + 1 /\ \A k \in 1..n : k \in 1..n + 1
      <4> HIDE DEF n
      <4>1. QED
        BY <2>3
    <3>5. CASE i \in 1..m
      <4>1. spans'[r][i] = spans[r][i] /\ i \in DOMAIN spans[r]
        BY <2>3, <3>1, <3>5
      <4>2. spans[r][i].at = "open" => \E k \in 1..n : stack[r][k].span = i
        BY <2>3, <4>1 DEF OpenInv
      <4>3. i <= 2 => spans[r][i].parent = 0
        BY <4>1 DEF OpenInv
      <4>4. spans'[r][i].at = "open" =>
              \E k \in DOMAIN stack'[r] : stack'[r][k].span = i
        BY <2>3, <3>1, <3>4, <4>1, <4>2
      <4>5. QED
        BY <2>4, <4>1, <4>3, <4>4
    <3>6. CASE i = m + 1
      <4>1. ~(i <= 2)
        <5> HIDE DEF m
        <5>1. QED
          BY <2>3, <3>2, <3>6
      <4>2. n + 1 \in DOMAIN stack'[r]
        BY <2>3, <3>1, <3>4
      <4>3. QED
        BY <2>4, <3>1, <3>6, <4>1, <4>2
    <3>7. QED
      BY <3>3, <3>5, <3>6
  <2>5. CASE q = r /\ ~CallMade(r)
    <3> DEFINE s == Top(r).span
    <3>1. s \in 0..m /\ \E e : Ended(r, s, e)
      BY <1>7, <2>5, EndSteps
    <3>2. Len(spans'[r]) = m
      BY <3>1 DEF Ended
    <3>3. i \in 1..m /\ i \in DOMAIN spans[r]
      BY <1>2, <2>3, <2>5, <3>2
    <3>4. /\ spans'[r][i].parent = spans[r][i].parent
          /\ spans'[r][i].at = "open" => spans[r][i].at = "open" /\ i # s
      <4>1. PICK e : Ended(r, s, e)
        BY <3>1
      <4> HIDE DEF s
      <4>2. QED
        BY <3>1, <3>3, <4>1, EndedFacts
    <3>5. ASSUME spans'[r][i].at = "open"
          PROVE  \E k \in DOMAIN stack'[r] : stack'[r][k].span = i
      <4>1. PICK k \in 1..n : stack[r][k].span = i
        BY <2>3, <3>3, <3>4, <3>5 DEF OpenInv
      <4>2. k # n
        BY <3>4, <3>5, <4>1 DEF Top
      <4>3. CASE Returned(r)
        <5>1. /\ n > 2 /\ Len(stack'[r]) = n - 1
              /\ \A x \in 1..n - 2 : stack'[r][x] = stack[r][x]
              /\ stack'[r][n - 1].span = stack[r][n - 1].span
          BY <4>3 DEF Returned, Frames
        <5>2. k \in 1..n - 1 /\ (k \in 1..n - 2 \/ k = n - 1)
          <6>1. k \in 1..n /\ k # n
            BY <4>1, <4>2
          <6> HIDE DEF n
          <6>2. QED
            BY <2>3, <6>1
        <5>3. stack'[r][k].span = i /\ k \in DOMAIN stack'[r]
          BY <2>3, <4>1, <5>1, <5>2
        <5>4. QED
          BY <5>3
      <4>4. ASSUME NEW e, Leaves(r, e)
            PROVE  \E x \in DOMAIN stack'[r] : stack'[r][x].span = i
        <5>1. n = 2 /\ Len(stack'[r]) = 1 /\ stack'[r][1] = stack[r][1]
          BY <4>4 DEF Leaves
        <5>2. k = 1 /\ 1 \in DOMAIN stack'[r]
          BY <2>3, <4>1, <4>2, <5>1
        <5>3. QED
          BY <4>1, <5>1, <5>2
      <4>5. CASE Handles(r) \/ Panics(r)
        BY <4>4, <4>5 DEF Handles, Panics
      <4>6. CASE Finished(r)
        <5>1. n = 1
          BY <4>6 DEF Finished
        <5>2. QED
          BY <4>1, <4>2, <5>1
      <4>7. QED
        BY <1>7, <2>5, <4>3, <4>5, <4>6 DEF StepOf
    <3>6. i <= 2 => spans'[r][i].parent = 0
      BY <3>3, <3>4 DEF OpenInv
    <3>7. QED
      BY <2>5, <3>5, <3>6
  <2>6. QED
    BY <2>2, <2>4, <2>5
<1>8. QED
  BY <1>3, <1>4, <1>5, <1>6, <1>7 DEF Steps

\* A span that waits is not sent before those that hang under it.
LEMMA ChildrenStep ==
  TypeOK /\ FreshInv /\ StackInv /\ FramesInv /\ OpenInv /\ QueueInv
    /\ QueueAccounted /\ ChildrenLeaveFirst /\ TypeOK' /\ Steps
    => ChildrenLeaveFirst'
<1> DEFINE Good(S, i) ==
             /\ S[i].parent < i
             /\ S[i].parent # 0 /\ S[i].at = "open" => S[S[i].parent].at = "open"
             /\ S[i].parent # 0 /\ S[i].at = "queued" =>
                  S[S[i].parent].at # "exported"
<1> SUFFICES ASSUME TypeOK, FreshInv, StackInv, FramesInv, OpenInv, QueueInv,
                    QueueAccounted, ChildrenLeaveFirst, TypeOK', Steps,
                    NEW q \in Requests, NEW i \in DOMAIN spans'[q]
             PROVE  Good(spans'[q], i)
  BY DEF ChildrenLeaveFirst
<1>1. ASSUME spans'[q] = spans[q] PROVE Good(spans'[q], i)
  BY <1>1 DEF ChildrenLeaveFirst
<1>2. i \in 1..Len(spans'[q]) /\ i \in Nat \ {0}
  BY DEF TypeOK
<1>3. CASE Quiet
  BY <1>1, <1>3 DEF Quiet
<1>4. \A x \in Requests : /\ DOMAIN spans[x] = 1..Len(spans[x])
                          /\ Len(spans[x]) \in Nat
                          /\ \A j \in 1..Len(spans[x]) : spans[x][j].parent \in Nat
  <2> TAKE x \in Requests
  <2>1. spans[x] \in Seq(SpanRecord)
    BY DEF TypeOK
  <2>2. \A j \in 1..Len(spans[x]) : spans[x][j] \in SpanRecord
    BY <2>1, ElementOfSeq
  <2>3. QED
    BY <2>1, <2>2 DEF SpanRecord
<1>5. \A j \in 1..Len(spans[q]) : Good(spans[q], j)
  BY <1>4 DEF ChildrenLeaveFirst
<1> DEFINE m == Len(spans[q])
           p == spans[q][i].parent
<1>6. i \in 1..m => p \in 0..m /\ p # i /\ (p # 0 => p \in 1..m) /\ p < i
  <2>1. i \in 1..m => p \in Nat /\ p < i /\ i \in 1..m /\ m \in Nat
    BY <1>4, <1>5
  <2> HIDE DEF p, m
  <2>2. QED
    BY <2>1
<1>7. CASE Stops
  <2>1. PICK how \in {"exited", "killed"} : Gone(how)
    BY <1>7 DEF Stops
  <2>2. i \in 1..m
    BY <1>2, <2>1 DEF Gone
  <2>3. /\ spans'[q][i].parent = p
        /\ spans'[q][i].at \notin {"open", "queued"}
    BY <2>1, <2>2 DEF Gone
  <2>4. QED
    BY <1>6, <2>2, <2>3
<1>8. CASE Exports
  <2>1. PICK h \in Requests, j \in Nat : Exported(h, j)
    BY <1>8 DEF Exports
  <2>2. CASE q # h
    BY <1>1, <2>1, <2>2 DEF Exported
  <2>3. CASE q = h
    <3>1. /\ i \in 1..m /\ j \in 1..m
          /\ \A x \in 1..m : x # j => spans'[q][x] = spans[q][x]
          /\ spans'[q][j].parent = spans[q][j].parent
          /\ spans'[q][j].at = "exported"
      BY <1>2, <2>1, <2>3 DEF Exported
    <3>2. 1 \in DOMAIN queue /\ queue[1] = <<q, j>>
      BY <2>1, <2>3 DEF Exported, TypeOK
    <3>3. spans[q][j].at = "queued"
      BY <1>4, <3>1, <3>2 DEF QueueAccounted
    <3>4. CASE i = j
      BY <1>6, <3>1, <3>4
    <3>5. CASE i # j /\ p # j
      <4>1. spans'[q][i] = spans[q][i] /\ (p # 0 => spans'[q][p] = spans[q][p])
        BY <1>6, <3>1, <3>5
      <4>2. Good(spans[q], i)
        BY <1>5, <3>1
      <4>3. QED
        BY <4>1, <4>2
    <3>6. CASE i # j /\ p = j
      <4>1. spans'[q][i] = spans[q][i]
        BY <3>1, <3>6
      <4>2. spans[q][i].at # "open"
        <5>1. p # 0
          BY <3>1, <3>6
        <5>2. Good(spans[q], i)
          BY <1>5, <3>1
        <5>3. QED
          BY <3>3, <3>6, <5>1, <5>2
      <4>3. spans[q][i].at # "queued"
        <5>1. ASSUME spans[q][i].at = "queued" PROVE FALSE
          <6>1. PICK a \in DOMAIN queue : queue[a] = <<q, i>>
            BY <1>4, <3>1, <5>1 DEF QueueAccounted
          <6>2. a \in Nat /\ a >= 1
            <7>1. DOMAIN queue = 1..Len(queue)
              BY DEF TypeOK
            <7>2. QED
              BY <6>1, <7>1
          <6>3. queue[a][1] = q /\ queue[a][2] = i
            BY <6>1
          <6>4. queue[1] = <<queue[a][1], spans[queue[a][1]][queue[a][2]].parent>>
            BY <3>2, <3>6, <6>3
          <6>5. a < 1
            BY <3>2, <6>4 DEF QueueInv
          <6>6. QED
            BY <6>2, <6>5
        <5>2. QED
          BY <5>1
      <4>4. QED
        BY <1>6, <3>1, <4>1, <4>2, <4>3
    <3>7. QED
      BY <3>4, <3>5, <3>6
  <2>4. QED
    BY <2>2, <2>3
<1>9. ASSUME NEW r \in Requests, Arrived(r) PROVE Good(spans'[q], i)
  <2>1. CASE q = r
    <3>1. spans'[q][i].parent = 0
      <4>1. spans'[q][i] = NewSpan(0)
        BY <1>2, <1>9, <2>1 DEF Arrived
      <4>2. QED
        BY <4>1 DEF NewSpan
    <3>2. QED
      BY <1>2, <3>1
  <2>2. CASE q # r
    BY <1>1, <1>9, <2>2 DEF Arrived
  <2>3. QED
    BY <2>1, <2>2
<1>10. ASSUME NEW r \in Requests, StepOf(r) PROVE Good(spans'[q], i)
  <2>1. /\ \A x \in Requests \ {r} : stack'[x] = stack[x] /\ spans'[x] = spans[x]
        /\ stack[r] # <<>>
    BY <1>10, StepArrived
  <2>2. CASE q # r
    BY <1>1, <2>1, <2>2
  <2>3. CASE q = r /\ CallMade(r)
    <3> DEFINE s == Top(r).span
    <3>1. /\ Len(spans'[q]) = m + 1 /\ \A j \in 1..m : spans'[q][j] = spans[q][j]
          /\ spans'[q][m + 1].parent = s
          /\ spans'[q][m + 1].at = "open"
      BY <2>3 DEF CallMade, NewSpan
    <3>2. s \in 2..m /\ spans[q][s].at = "open" /\ m \in Nat
      BY <1>4, <2>3, CallerOpen
    <3>3. i \in 1..m \/ i = m + 1
      <4> HIDE DEF m
      <4>1. QED
        BY <1>2, <3>1, <3>2
    <3>4. CASE i \in 1..m
      <4>1. spans'[q][i] = spans[q][i] /\ (p # 0 => spans'[q][p] = spans[q][p])
        BY <1>6, <3>1, <3>4
      <4>2. Good(spans[q], i)
        BY <1>5, <3>4
      <4>3. QED
        BY <4>1, <4>2
    <3>5. CASE i = m + 1
      <4>1. s < i /\ s \in 1..m
        <5> HIDE DEF m, s
        <5>1. QED
          BY <3>2, <3>5
      <4>2. spans'[q][s].at = "open"
        BY <3>1, <3>2, <4>1
      <4>3. QED
        BY <3>1, <3>5, <4>1, <4>2
    <3>6. QED
      BY <3>3, <3>4, <3>5
  <2>4. CASE q = r /\ ~CallMade(r)
    <3> DEFINE s == Top(r).span
    <3>1. s \in 0..m /\ \E e : Ended(q, s, e)
      BY <1>10, <2>4, EndSteps
    <3>2. PICK e : Ended(q, s, e)
      BY <3>1
    <3>3. i \in 1..m
      BY <1>2, <3>2 DEF Ended
    <3>4. spans[q][i].at = "open" /\ p # 0 => p # s
      BY <1>4, <2>1, <2>4, <3>3, NoOpenChild
    <3> HIDE DEF s
    <3>5. \A j \in 1..m :
            /\ spans'[q][j].parent = spans[q][j].parent
            /\ spans'[q][j].at = "open" <=> spans[q][j].at = "open" /\ j # s
            /\ spans'[q][j].at = "queued" =>
                 spans[q][j].at = "queued" \/ (j = s /\ spans[q][j].at = "open")
            /\ spans'[q][j].at = "exported" => spans[q][j].at = "exported"
      BY <3>1, <3>2, EndedFacts
    <3>6. Good(spans[q], i) /\ spans'[q][i].parent = p
      BY <1>5, <3>3, <3>5
    <3>7. p # 0 /\ spans'[q][i].at = "open" => spans'[q][p].at = "open"
      <4>1. ASSUME p # 0, spans'[q][i].at = "open"
            PROVE  spans'[q][p].at = "open"
        <5>1. spans[q][i].at = "open" /\ p # s /\ p \in 1..m
          BY <1>6, <3>3, <3>4, <3>5, <4>1
        <5>2. spans[q][p].at = "open"
          BY <3>6, <4>1, <5>1
        <5>3. QED
          BY <3>5, <5>1, <5>2
      <4>2. QED
        BY <4>1
    <3>8. p # 0 /\ spans'[q][i].at = "queued" => spans'[q][p].at # "exported"
      <4>1. ASSUME p # 0, spans'[q][i].at = "queued",
                   spans'[q][p].at = "exported"
            PROVE  FALSE
        <5>1. p \in 1..m /\ spans[q][p].at = "exported"
          BY <1>6, <3>3, <3>5, <4>1
        <5>2. spans[q][i].at \in {"queued", "open"}
          BY <3>3, <3>5, <4>1
        <5>3. QED
          BY <3>6, <4>1, <5>1, <5>2
      <4>2. QED
        BY <4>1
    <3>9. QED
      BY <1>6, <3>3, <3>6, <3>7, <3>8
  <2>5. QED
    BY <2>2, <2>3, <2>4
<1>11. QED
  BY <1>3, <1>7, <1>8, <1>9, <1>10 DEF Steps

\* What the queue names.
LEMMA QueueEntry ==
  ASSUME TypeOK, QueueInv, QueueAccounted, NEW a \in DOMAIN queue
  PROVE  \E x \in Requests : \E j \in Nat :
           /\ j \in 1..Len(spans[x])
           /\ queue[a] = <<x, j>> /\ queue[a][1] = x /\ queue[a][2] = j
           /\ spans[x][j].at = "queued" /\ spans[x] # <<>>
<1>1. queue \in Seq(Requests \X Nat) /\ a \in 1..Len(queue)
  BY DEF TypeOK
<1>2. queue[a] \in Requests \X Nat
  BY <1>1, ElementOfSeq
<1>3. PICK x \in Requests, j \in Nat : queue[a] = <<x, j>>
  BY <1>2
<1>4. queue[a][1] = x /\ queue[a][2] = j
  BY <1>3
<1>5. j \in DOMAIN spans[x] /\ DOMAIN spans[x] = 1..Len(spans[x])
  BY <1>3, <1>4 DEF QueueInv, TypeOK
<1>6. spans[x][j].at = "queued"
  BY <1>3, <1>5 DEF QueueAccounted
<1>7. spans[x] # <<>>
  BY <1>5
<1>8. QED
  BY <1>3, <1>4, <1>5, <1>6, <1>7

\* A step that leaves the queue alone, the parents of the spans in it, and what
\* waits, keeps what is known about the queue.
LEMMA QueueKept ==
  ASSUME TypeOK, QueueInv, QueueAccounted, TypeOK', queue' = queue,
         \A x \in Requests : \A j \in 1..Len(spans[x]) :
           spans[x][j].at = "queued" =>
             /\ j \in 1..Len(spans'[x]) /\ spans'[x][j].at = "queued"
             /\ spans'[x][j].parent = spans[x][j].parent,
         \A x \in Requests : \A j \in 1..Len(spans'[x]) :
           spans'[x][j].at = "queued" =>
             j \in 1..Len(spans[x]) /\ spans[x][j].at = "queued"
  PROVE  QueueInv' /\ QueueAccounted'
<1>1. \A x \in Requests : /\ DOMAIN spans[x] = 1..Len(spans[x])
                          /\ DOMAIN spans'[x] = 1..Len(spans'[x])
  BY DEF TypeOK
<1>2. QueueInv'
  <2> SUFFICES ASSUME NEW a \in DOMAIN queue'
               PROVE  /\ queue'[a][2] \in DOMAIN spans'[queue'[a][1]]
                      /\ \A b \in DOMAIN queue' :
                           /\ queue'[b] = <<queue'[a][1],
                                spans'[queue'[a][1]][queue'[a][2]].parent>>
                           => a < b
    BY DEF QueueInv
  <2>1. PICK x \in Requests, j \in Nat :
          /\ j \in 1..Len(spans[x])
          /\ queue[a] = <<x, j>> /\ queue[a][1] = x /\ queue[a][2] = j
          /\ spans[x][j].at = "queued"
    BY QueueEntry
  <2>2. j \in DOMAIN spans'[x] /\ spans'[x][j].parent = spans[x][j].parent
    BY <1>1, <2>1
  <2>3. QED
    BY <2>1, <2>2 DEF QueueInv
<1>3. QueueAccounted'
  <2>1. \A i, j \in DOMAIN queue' : queue'[i] = queue'[j] => i = j
    BY DEF QueueAccounted
  <2>2. ASSUME NEW x \in Requests, NEW i \in DOMAIN spans'[x],
               spans'[x][i].at = "queued"
        PROVE  \E k \in DOMAIN queue' : queue'[k] = <<x, i>>
    <3>1. i \in DOMAIN spans[x] /\ spans[x][i].at = "queued"
      BY <1>1, <2>2
    <3>2. QED
      BY <3>1 DEF QueueAccounted
  <2>3. ASSUME NEW x \in Requests, NEW i \in DOMAIN spans'[x],
               NEW k \in DOMAIN queue', queue'[k] = <<x, i>>
        PROVE  spans'[x][i].at = "queued"
    <3>1. PICK y \in Requests, j \in Nat :
            j \in 1..Len(spans[y]) /\ queue[k] = <<y, j>> /\ spans[y][j].at = "queued"
      BY QueueEntry
    <3>2. x = y /\ i = j
      BY <2>3, <3>1
    <3>3. QED
      BY <3>1, <3>2
  <2>4. QED
    BY <2>1, <2>2, <2>3 DEF QueueAccounted
<1>4. QED
  BY <1>2, <1>3

\* A step that ends a span puts it behind all others, and nothing it hangs
\* under is among them.
LEMMA QueueAppended ==
  ASSUME TypeOK, QueueInv, QueueAccounted, ChildrenLeaveFirst, TypeOK',
         NEW r \in Requests, NEW s \in 1..Len(spans[r]),
         spans[r][s].at = "open", spans'[r][s].at = "queued",
         Len(queue') = Len(queue) + 1, queue'[Len(queue) + 1] = <<r, s>>,
         \A a \in 1..Len(queue) : queue'[a] = queue[a],
         \A x \in Requests : /\ Len(spans'[x]) = Len(spans[x])
                             /\ \A j \in 1..Len(spans[x]) :
                                  /\ spans'[x][j].parent = spans[x][j].parent
                                  /\ x # r \/ j # s => spans'[x][j] = spans[x][j]
  PROVE  QueueInv' /\ QueueAccounted'
<1> DEFINE n == Len(queue)
<1>1. /\ n \in Nat /\ DOMAIN queue = 1..n /\ DOMAIN queue' = 1..n + 1
      /\ \A x \in Requests : /\ DOMAIN spans[x] = 1..Len(spans[x])
                             /\ DOMAIN spans'[x] = 1..Len(spans[x])
  BY DEF TypeOK
<1>2. \A a \in 1..n + 1 : a \in 1..n \/ a = n + 1
  <2> HIDE DEF n
  <2>1. QED
    BY <1>1
<1>3. \A a \in 1..n : queue[a] # <<r, s>> /\ a < n + 1
  <2> TAKE a \in 1..n
  <2>1. PICK x \in Requests, j \in Nat :
          j \in 1..Len(spans[x]) /\ queue[a] = <<x, j>> /\ spans[x][j].at = "queued"
    BY <1>1, QueueEntry
  <2>2. queue[a] # <<r, s>>
    BY <2>1
  <2> HIDE DEF n
  <2>3. QED
    BY <1>1, <2>2
<1>4. QueueInv'
  <2> SUFFICES ASSUME NEW a \in 1..n + 1
               PROVE  /\ queue'[a][2] \in DOMAIN spans'[queue'[a][1]]
                      /\ \A b \in 1..n + 1 :
                           /\ queue'[b] = <<queue'[a][1],
                                spans'[queue'[a][1]][queue'[a][2]].parent>>
                           => a < b
    BY <1>1 DEF QueueInv
  <2>1. CASE a \in 1..n
    <3>1. PICK x \in Requests, j \in Nat :
            /\ j \in 1..Len(spans[x])
            /\ queue[a] = <<x, j>> /\ queue[a][1] = x /\ queue[a][2] = j
            /\ spans[x][j].at = "queued"
      BY <1>1, <2>1, QueueEntry
    <3>2. queue'[a] = queue[a] /\ j \in DOMAIN spans'[x]
          /\ spans'[x][j].parent = spans[x][j].parent
      BY <1>1, <2>1, <3>1
    <3>3. \A b \in 1..n : queue[b] = <<x, spans[x][j].parent>> => a < b
      BY <1>1, <2>1, <3>1 DEF QueueInv
    <3>4. ASSUME NEW b \in 1..n + 1,
                 queue'[b] = <<x, spans[x][j].parent>>
          PROVE  a < b
      <4>1. CASE b \in 1..n
        BY <3>3, <3>4, <4>1
      <4>2. CASE b = n + 1
        BY <1>3, <2>1, <4>2
      <4>3. QED
        BY <1>2, <4>1, <4>2
    <3>5. QED
      BY <3>1, <3>2, <3>4
  <2>2. CASE a = n + 1
    <3>1. queue'[a] = <<r, s>> /\ queue'[a][1] = r /\ queue'[a][2] = s
      BY <2>2
    <3> DEFINE p == spans[r][s].parent
    <3>2. spans'[r][s].parent = p /\ s \in DOMAIN spans'[r]
      BY <1>1
    <3>3. p < s /\ (p # 0 => spans[r][p].at = "open")
      BY <1>1 DEF ChildrenLeaveFirst
    <3> HIDE DEF p
    <3>4. ASSUME NEW b \in 1..n + 1, queue'[b] = <<r, p>> PROVE FALSE
      <4>1. CASE b \in 1..n
        <5>1. PICK x \in Requests, j \in Nat :
                j \in 1..Len(spans[x]) /\ queue[b] = <<x, j>> /\ spans[x][j].at = "queued"
          BY <1>1, <4>1, QueueEntry
        <5>2. x = r /\ j = p /\ j # 0
          BY <3>4, <4>1, <5>1
        <5>3. QED
          BY <3>3, <5>1, <5>2
      <4>2. CASE b = n + 1
        <5>1. <<r, s>> = <<r, p>>
          BY <3>4, <4>2
        <5>2. s = p /\ s \in Nat
          BY <1>1, <5>1 DEF TypeOK
        <5>3. QED
          BY <3>3, <5>2
      <4>3. QED
        BY <1>2, <4>1, <4>2
    <3>5. QED
      BY <3>1, <3>2, <3>4
  <2>3. QED
    BY <1>2, <2>1, <2>2
<1>5. QueueAccounted'
  <2>1. ASSUME NEW a \in 1..n + 1, NEW b \in 1..n + 1, queue'[a] = queue'[b]
        PROVE  a = b
    <3>1. CASE a \in 1..n /\ b \in 1..n
      BY <1>1, <2>1, <3>1 DEF QueueAccounted
    <3>2. CASE a = n + 1 \/ b = n + 1
      BY <1>2, <1>3, <2>1, <3>2
    <3>3. QED
      BY <1>2, <3>1, <3>2
  <2>2. ASSUME NEW x \in Requests, NEW i \in 1..Len(spans[x]),
               spans'[x][i].at = "queued"
        PROVE  \E k \in 1..n + 1 : queue'[k] = <<x, i>>
    <3>1. CASE x = r /\ i = s
      <4>1. n + 1 \in 1..n + 1
        <5> HIDE DEF n
        <5>1. QED
          BY <1>1
      <4>2. QED
        BY <3>1, <4>1
    <3>2. CASE x # r \/ i # s
      <4>1. spans[x][i].at = "queued"
        BY <2>2, <3>2
      <4>2. PICK k \in 1..n : queue[k] = <<x, i>>
        <5>1. i \in DOMAIN spans[x]
          BY <1>1
        <5>2. \E k \in DOMAIN queue : queue[k] = <<x, i>>
          BY <4>1, <5>1 DEF QueueAccounted
        <5>3. QED
          BY <1>1, <5>2
      <4>3. k \in 1..n + 1
        <5>1. k \in 1..n
          BY <4>2
        <5> HIDE DEF n
        <5>2. QED
          BY <1>1, <5>1
      <4>4. QED
        BY <4>2, <4>3
    <3>3. QED
      BY <3>1, <3>2
  <2>3. ASSUME NEW x \in Requests, NEW i \in 1..Len(spans[x]),
               NEW k \in 1..n + 1, queue'[k] = <<x, i>>
        PROVE  spans'[x][i].at = "queued"
    <3>1. CASE k \in 1..n
      <4>1. PICK y \in Requests, j \in Nat :
              j \in 1..Len(spans[y]) /\ queue[k] = <<y, j>> /\ spans[y][j].at = "queued"
        <5>1. k \in DOMAIN queue
          BY <1>1, <3>1
        <5>2. QED
          BY <5>1, QueueEntry
      <4>2. x = y /\ i = j /\ (x # r \/ i # s)
        BY <1>3, <2>3, <3>1, <4>1
      <4>3. QED
        BY <4>1, <4>2
    <3>2. CASE k = n + 1
      <4>1. x = r /\ i = s
        BY <2>3, <3>2
      <4>2. QED
        BY <4>1
    <3>3. QED
      BY <1>2, <3>1, <3>2
  <2>4. \A a, b \in DOMAIN queue' : queue'[a] = queue'[b] => a = b
    BY <1>1, <2>1
  <2>5. \A x \in Requests : \A i \in DOMAIN spans'[x] :
          spans'[x][i].at = "queued" <=> \E k \in DOMAIN queue' : queue'[k] = <<x, i>>
    <3> TAKE x \in Requests
    <3> TAKE i \in DOMAIN spans'[x]
    <3>1. i \in 1..Len(spans[x]) /\ DOMAIN queue' = 1..n + 1
      BY <1>1
    <3> HIDE DEF n
    <3>2. ASSUME spans'[x][i].at = "queued"
          PROVE  \E k \in DOMAIN queue' : queue'[k] = <<x, i>>
      <4>1. PICK k \in 1..n + 1 : queue'[k] = <<x, i>>
        BY <2>2, <3>1, <3>2
      <4>2. k \in DOMAIN queue'
        BY <3>1
      <4>3. QED
        BY <4>1, <4>2
    <3>3. ASSUME NEW k \in DOMAIN queue', queue'[k] = <<x, i>>
          PROVE  spans'[x][i].at = "queued"
      <4>1. k \in 1..n + 1
        BY <3>1
      <4>2. QED
        BY <2>3, <3>1, <3>3, <4>1
    <3>4. QED
      BY <3>2, <3>3
  <2>6. QED
    BY <2>4, <2>5 DEF QueueAccounted
<1>6. QED
  BY <1>4, <1>5

LEMMA QueueStep ==
  TypeOK /\ FreshInv /\ StackInv /\ FramesInv /\ QueueInv /\ QueueAccounted
    /\ ChildrenLeaveFirst /\ TypeOK' /\ Steps => QueueInv' /\ QueueAccounted'
<1> SUFFICES ASSUME TypeOK, FreshInv, StackInv, FramesInv, QueueInv,
                    QueueAccounted, ChildrenLeaveFirst, TypeOK', Steps
             PROVE  QueueInv' /\ QueueAccounted'
  OBVIOUS
<1>1. \A x \in Requests : /\ DOMAIN spans[x] = 1..Len(spans[x])
                          /\ DOMAIN spans'[x] = 1..Len(spans'[x])
                          /\ Len(spans[x]) \in Nat
  BY DEF TypeOK
<1>2. CASE Quiet
  BY <1>2, QueueKept DEF Quiet
<1>3. CASE Stops
  <2>1. PICK how \in {"exited", "killed"} : Gone(how)
    BY <1>3 DEF Stops
  <2>2. queue' = <<>> /\ DOMAIN queue' = {}
    BY <2>1 DEF Gone
  <2>3. \A x \in Requests : \A i \in DOMAIN spans'[x] : spans'[x][i].at # "queued"
    BY <1>1, <2>1 DEF Gone
  <2>4. QED
    BY <2>2, <2>3 DEF QueueInv, QueueAccounted
<1>4. CASE Exports
  <2>1. PICK h \in Requests, j \in Nat : Exported(h, j)
    BY <1>4 DEF Exports
  <2> DEFINE n == Len(queue)
  <2>2. /\ n \in Nat \ {0} /\ DOMAIN queue = 1..n /\ DOMAIN queue' = 1..n - 1
        /\ queue[1] = <<h, j>> /\ \A a \in 1..n - 1 : queue'[a] = queue[a + 1]
    <3>1. queue' \in Seq(Requests \X Nat) /\ Len(queue') = n - 1
      BY <2>1 DEF Exported
    <3>2. DOMAIN queue' = 1..n - 1
      BY <3>1
    <3>3. QED
      BY <2>1, <3>2 DEF Exported, TypeOK
  <2>3. /\ 1 \in 1..n /\ \A a \in 1..n - 1 : a + 1 \in 1..n /\ a + 1 # 1
        /\ \A a \in 1..n : a = 1 \/ (a - 1 \in 1..n - 1 /\ a - 1 + 1 = a)
        /\ \A a, b \in 1..n - 1 : /\ a + 1 < b + 1 => a < b
                                  /\ a + 1 = b + 1 => a = b
    <3>1. n \in Nat \ {0}
      BY <2>2
    <3> HIDE DEF n
    <3>2. QED
      BY <3>1
  <2>4. \A x \in Requests : \A i \in 1..Len(spans[x]) :
          /\ spans'[x][i].parent = spans[x][i].parent
          /\ i \in DOMAIN spans'[x]
          /\ x # h \/ i # j => spans'[x][i] = spans[x][i]
    <3> TAKE x \in Requests
    <3> TAKE i \in 1..Len(spans[x])
    <3>1. Len(spans'[x]) = Len(spans[x])
      BY <2>1 DEF Exported
    <3>2. x # h \/ i # j => spans'[x][i] = spans[x][i]
      BY <2>1 DEF Exported
    <3>3. x = h /\ i = j => spans'[x][i].parent = spans[x][i].parent
      BY <2>1 DEF Exported
    <3>4. QED
      BY <1>1, <3>1, <3>2, <3>3
  <2>5. spans'[h][j].at = "exported"
        /\ \A x \in Requests : DOMAIN spans'[x] = 1..Len(spans[x])
    BY <1>1, <2>1 DEF Exported
  <2>6. QueueInv'
    <3> SUFFICES ASSUME NEW a \in 1..n - 1
                 PROVE  /\ queue'[a][2] \in DOMAIN spans'[queue'[a][1]]
                        /\ \A b \in 1..n - 1 :
                             /\ queue'[b] = <<queue'[a][1],
                                  spans'[queue'[a][1]][queue'[a][2]].parent>>
                             => a < b
      BY <2>2 DEF QueueInv
    <3>1. a + 1 \in DOMAIN queue /\ queue'[a] = queue[a + 1]
      BY <2>2, <2>3
    <3>2. PICK x \in Requests, i \in Nat :
            /\ i \in 1..Len(spans[x])
            /\ queue[a + 1] = <<x, i>> /\ queue[a + 1][1] = x
            /\ queue[a + 1][2] = i
      BY <3>1, QueueEntry
    <3>3. \A b \in 1..n : queue[b] = <<x, spans[x][i].parent>> => a + 1 < b
      BY <2>2, <3>1, <3>2 DEF QueueInv
    <3>4. \A b \in 1..n - 1 : queue'[b] = <<x, spans[x][i].parent>> => a < b
      BY <2>2, <2>3, <3>3
    <3>5. QED
      BY <2>4, <3>1, <3>2, <3>4
  <2>7. \A a, b \in DOMAIN queue' : queue'[a] = queue'[b] => a = b
    <3> SUFFICES ASSUME NEW a \in 1..n - 1, NEW b \in 1..n - 1,
                        queue'[a] = queue'[b]
                 PROVE  a = b
      BY <2>2
    <3>1. /\ a + 1 \in DOMAIN queue /\ b + 1 \in DOMAIN queue
          /\ queue[a + 1] = queue[b + 1]
      BY <2>2, <2>3
    <3>2. a + 1 = b + 1
      BY <3>1 DEF QueueAccounted
    <3>3. QED
      BY <2>3, <3>2
  <2>8. ASSUME NEW x \in Requests, NEW i \in 1..Len(spans[x]),
               spans'[x][i].at = "queued"
        PROVE  \E k \in 1..n - 1 : queue'[k] = <<x, i>>
    <3>1. (x # h \/ i # j) /\ spans[x][i].at = "queued"
      BY <2>4, <2>5, <2>8
    <3>2. PICK k \in 1..n : queue[k] = <<x, i>>
      <4>1. i \in DOMAIN spans[x]
        BY <1>1
      <4>2. \E k \in DOMAIN queue : queue[k] = <<x, i>>
        BY <3>1, <4>1 DEF QueueAccounted
      <4>3. QED
        BY <2>2, <4>2
    <3>3. k # 1
      BY <2>2, <3>1, <3>2
    <3>4. k - 1 \in 1..n - 1 /\ queue'[k - 1] = <<x, i>>
      BY <2>2, <2>3, <3>2, <3>3
    <3>5. QED
      BY <3>4
  <2>9. ASSUME NEW x \in Requests, NEW i \in 1..Len(spans[x]),
               NEW k \in 1..n - 1, queue'[k] = <<x, i>>
        PROVE  spans'[x][i].at = "queued"
    <3>1. k + 1 \in DOMAIN queue /\ k + 1 # 1 /\ queue[k + 1] = <<x, i>>
          /\ 1 \in DOMAIN queue
      BY <2>2, <2>3, <2>9
    <3>2. <<x, i>> # <<h, j>>
      BY <2>2, <3>1 DEF QueueAccounted
    <3>3. i \in DOMAIN spans[x] /\ spans[x][i].at = "queued"
      <4>1. i \in DOMAIN spans[x]
        BY <1>1
      <4>2. QED
        BY <3>1, <4>1 DEF QueueAccounted
    <3>4. x # h \/ i # j
      BY <3>2
    <3>5. QED
      BY <2>4, <3>3, <3>4
  <2>10. \A x \in Requests : \A i \in DOMAIN spans'[x] :
           spans'[x][i].at = "queued" <=>
             \E k \in DOMAIN queue' : queue'[k] = <<x, i>>
    <3> TAKE x \in Requests
    <3> TAKE i \in DOMAIN spans'[x]
    <3>1. i \in 1..Len(spans[x])
      BY <2>5
    <3>2. spans'[x][i].at = "queued" =>
            \E k \in DOMAIN queue' : queue'[k] = <<x, i>>
      BY <2>2, <2>8, <3>1
    <3>3. (\E k \in DOMAIN queue' : queue'[k] = <<x, i>>) =>
            spans'[x][i].at = "queued"
      BY <2>2, <2>9, <3>1
    <3>4. QED
      BY <3>2, <3>3
  <2>11. QED
    BY <2>6, <2>7, <2>10 DEF QueueAccounted
<1>5. ASSUME NEW r \in Requests, Arrived(r) PROVE QueueInv' /\ QueueAccounted'
  <2>1. /\ spans[r] = <<>> /\ queue' = queue
        /\ \A x \in Requests \ {r} : spans'[x] = spans[x]
    BY <1>5 DEF Arrived, FreshInv
  <2>2. Len(spans[r]) = 0
    BY <2>1
  <2>3. \A j \in 1..Len(spans'[r]) : spans'[r][j].at # "queued"
    BY <1>5 DEF Arrived, NewSpan
  <2>4. \A x \in Requests : \A j \in 1..Len(spans[x]) : x # r
    BY <2>2
  <2>5. QED
    BY <2>1, <2>3, <2>4, QueueKept
<1>6. ASSUME NEW r \in Requests, StepOf(r) PROVE QueueInv' /\ QueueAccounted'
  <2>1. \A x \in Requests \ {r} : spans'[x] = spans[x]
    BY <1>6, StepArrived
  <2> DEFINE m == Len(spans[r])
  <2>2. m \in Nat
    BY <1>1
  <2>3. CASE CallMade(r)
    <3>1. /\ queue' = queue /\ Len(spans'[r]) = m + 1
          /\ \A i \in 1..m : spans'[r][i] = spans[r][i]
          /\ spans'[r][m + 1].at # "queued"
      BY <2>3 DEF CallMade, NewSpan
    <3>2. /\ \A i \in 1..m : i \in 1..m + 1
          /\ \A i \in 1..m + 1 : i \in 1..m \/ i = m + 1
      <4> HIDE DEF m
      <4>1. QED
        BY <2>2
    <3>3. \A j \in 1..m : /\ j \in 1..Len(spans'[r])
                          /\ spans'[r][j].at = spans[r][j].at
                          /\ spans'[r][j].parent = spans[r][j].parent
      BY <3>1, <3>2
    <3>4. \A j \in 1..Len(spans'[r]) :
            spans'[r][j].at = "queued" => j \in 1..m /\ spans[r][j].at = "queued"
      BY <3>1, <3>2
    <3>5. \A x \in Requests : \A j \in 1..Len(spans[x]) :
            spans[x][j].at = "queued" =>
              /\ j \in 1..Len(spans'[x]) /\ spans'[x][j].at = "queued"
              /\ spans'[x][j].parent = spans[x][j].parent
      BY <2>1, <3>3
    <3>6. \A x \in Requests : \A j \in 1..Len(spans'[x]) :
            spans'[x][j].at = "queued" =>
              j \in 1..Len(spans[x]) /\ spans[x][j].at = "queued"
      BY <2>1, <3>4
    <3>7. QED
      BY <3>1, <3>5, <3>6, QueueKept
  <2>4. CASE ~CallMade(r)
    <3> DEFINE s == Top(r).span
    <3>1. s \in 0..m /\ \E e : Ended(r, s, e)
      BY <1>6, <2>4, EndSteps
    <3>2. PICK e : Ended(r, s, e)
      BY <3>1
    <3> HIDE DEF s
    <3>3. Len(spans'[r]) = m
      BY <3>2 DEF Ended
    <3>4. \A j \in 1..m :
            /\ spans'[r][j].parent = spans[r][j].parent
            /\ spans'[r][j].at = "queued" =>
                 spans[r][j].at = "queued" \/ (j = s /\ spans[r][j].at = "open")
            /\ j # s => spans'[r][j] = spans[r][j]
      BY <3>1, <3>2, EndedFacts
    <3>5. CASE queue' = queue
      <4>1. s # 0 /\ spans[r][s].at = "open" => spans'[r][s].at # "queued"
        <5>1. ASSUME s # 0, spans[r][s].at = "open", spans'[r][s].at = "queued"
              PROVE  FALSE
          <6>1. queue' = Append(queue, <<r, s>>)
            BY <3>2, <5>1 DEF Ended
          <6>2. Len(queue') = Len(queue) + 1 /\ Len(queue) \in Nat
            BY <6>1 DEF TypeOK
          <6>3. QED
            BY <3>5, <6>2
        <5>2. QED
          BY <5>1
      <4>2. s # 0 /\ spans[r][s].at # "open" => spans' = spans
        BY <3>2 DEF Ended
      <4>3. \A j \in 1..m : spans'[r][j].at = "queued" <=> spans[r][j].at = "queued"
        <5> TAKE j \in 1..m
        <5>1. CASE j # s
          BY <3>4, <5>1
        <5>2. CASE j = s
          <6>1. s # 0
            BY <2>2, <5>2
          <6>2. CASE spans[r][s].at = "open"
            BY <4>1, <5>2, <6>1, <6>2
          <6>3. CASE spans[r][s].at # "open"
            BY <4>2, <5>2, <6>1, <6>3
          <6>4. QED
            BY <6>2, <6>3
        <5>3. QED
          BY <5>1, <5>2
      <4>4. \A x \in Requests : \A j \in 1..Len(spans[x]) :
              spans[x][j].at = "queued" =>
                /\ j \in 1..Len(spans'[x]) /\ spans'[x][j].at = "queued"
                /\ spans'[x][j].parent = spans[x][j].parent
        BY <2>1, <3>3, <3>4, <4>3
      <4>5. \A x \in Requests : \A j \in 1..Len(spans'[x]) :
              spans'[x][j].at = "queued" =>
                j \in 1..Len(spans[x]) /\ spans[x][j].at = "queued"
        BY <2>1, <3>3, <4>3
      <4>6. QED
        BY <3>5, <4>4, <4>5, QueueKept
    <3>6. CASE queue' # queue
      <4>1. /\ s # 0 /\ spans[r][s].at = "open" /\ spans'[r][s].at = "queued"
            /\ Len(queue') = Len(queue) + 1 /\ queue'[Len(queue) + 1] = <<r, s>>
            /\ \A a \in 1..Len(queue) : queue'[a] = queue[a]
        BY <3>1, <3>2, <3>6, QueueShape
      <4>2. s \in 1..Len(spans[r])
        BY <2>2, <3>1, <4>1
      <4>3. \A x \in Requests : /\ Len(spans'[x]) = Len(spans[x])
                                /\ \A j \in 1..Len(spans[x]) :
                                     /\ spans'[x][j].parent = spans[x][j].parent
                                     /\ x # r \/ j # s =>
                                          spans'[x][j] = spans[x][j]
        BY <2>1, <3>3, <3>4
      <4>4. QED
        BY <4>1, <4>2, <4>3, QueueAppended
    <3>7. QED
      BY <3>5, <3>6
  <2>5. QED
    BY <2>3, <2>4
<1>7. QED
  BY <1>2, <1>3, <1>4, <1>5, <1>6 DEF Steps

\* The queue is empty once the process is gone, and nothing was lost unless it
\* was killed.
LEMMA PhaseStep ==
  TypeOK /\ FreshInv /\ StackInv /\ FramesInv /\ QueueInv /\ QueueAccounted
    /\ PhaseInv /\ TypeOK' /\ Steps => PhaseInv'
<1> SUFFICES ASSUME TypeOK, FreshInv, StackInv, FramesInv, QueueInv,
                    QueueAccounted, PhaseInv, TypeOK', Steps
             PROVE  PhaseInv'
  OBVIOUS
<1>1. \A x \in Requests : /\ DOMAIN spans[x] = 1..Len(spans[x])
                          /\ DOMAIN spans'[x] = 1..Len(spans'[x])
                          /\ Len(spans[x]) \in Nat
  BY DEF TypeOK
<1>2. Running => \A x \in Requests : \A i \in 1..Len(spans[x]) :
                   spans[x][i].at # "lost"
  BY <1>1 DEF Running, PhaseInv
<1>3. CASE Quiet
  <2>1. phase = "starting" => queue = <<>>
    <3>1. ASSUME phase = "starting", queue # <<>> PROVE FALSE
      <4>1. 1 \in DOMAIN queue
        BY <3>1, EmptySeq, LenProperties DEF TypeOK
      <4>2. PICK x \in Requests : spans[x] # <<>>
        BY <4>1, QueueEntry
      <4>3. QED
        BY <3>1, <4>2 DEF FreshInv
    <3>2. QED
      BY <3>1
  <2>2. \A x \in Requests : \A i \in DOMAIN spans[x] :
          spans[x][i].at = "lost" => phase = "killed"
    BY DEF PhaseInv
  <2>3. phase = "killed" => phase' = "killed"
    BY <1>3 DEF Quiet
  <2>4. phase' \in {"exited", "killed"} => queue' = <<>>
    BY <1>3, <2>1 DEF Quiet, PhaseInv
  <2>5. QED
    BY <1>3, <2>2, <2>3, <2>4 DEF Quiet, PhaseInv
<1>4. CASE Stops
  <2>1. PICK how \in {"exited", "killed"} :
          Gone(how) /\ Running /\ (how = "exited" => queue = <<>>)
    BY <1>4 DEF Stops
  <2>2. CASE how = "killed"
    BY <2>1, <2>2 DEF Gone, PhaseInv
  <2>3. CASE how = "exited"
    <3>1. queue = <<>> /\ DOMAIN queue = {}
      BY <2>1, <2>3
    <3>2. \A x \in Requests : \A i \in 1..Len(spans[x]) :
            spans[x][i].at # "queued"
      BY <1>1, <3>1 DEF QueueAccounted
    <3>3. \A x \in Requests : \A i \in DOMAIN spans'[x] :
            spans'[x][i].at # "lost"
      BY <1>1, <1>2, <2>1, <3>2 DEF Gone
    <3>4. QED
      BY <2>1, <3>3 DEF Gone, PhaseInv
  <2>4. QED
    BY <2>2, <2>3
<1>5. CASE Exports
  <2>1. PICK h \in Requests, j \in Nat : Exported(h, j)
    BY <1>5 DEF Exports
  <2>2. Running /\ phase' = phase
    BY <1>5, <2>1 DEF Exports, Exported
  <2>3. \A x \in Requests : \A i \in 1..Len(spans[x]) :
          spans'[x][i].at = "lost" => spans[x][i].at = "lost"
    <3> TAKE x \in Requests
    <3> TAKE i \in 1..Len(spans[x])
    <3>1. CASE x = h /\ i = j
      BY <2>1, <3>1 DEF Exported
    <3>2. CASE x # h \/ i # j
      <4>1. spans'[x][i] = spans[x][i]
        BY <2>1, <3>2 DEF Exported
      <4>2. QED
        BY <4>1
    <3>3. QED
      BY <3>1, <3>2
  <2>4. \A x \in Requests : Len(spans'[x]) = Len(spans[x])
    BY <2>1 DEF Exported
  <2>5. QED
    BY <1>1, <1>2, <2>2, <2>3, <2>4 DEF PhaseInv, Running
<1>6. ASSUME NEW r \in Requests, Arrived(r) PROVE PhaseInv'
  <2>1. Running /\ phase' = phase
    BY <1>6 DEF Arrived, Running
  <2>2. \A i \in 1..Len(spans'[r]) : spans'[r][i].at # "lost"
    BY <1>6 DEF Arrived, NewSpan
  <2>3. \A x \in Requests \ {r} : spans'[x] = spans[x]
    BY <1>6 DEF Arrived
  <2>4. QED
    BY <1>1, <1>2, <2>1, <2>2, <2>3 DEF PhaseInv, Running
<1>7. ASSUME NEW r \in Requests, StepOf(r) PROVE PhaseInv'
  <2>1. Running /\ phase' = phase
        /\ \A x \in Requests \ {r} : spans'[x] = spans[x]
    BY <1>7, StepArrived DEF StepOf
  <2>2. \A i \in 1..Len(spans'[r]) : spans'[r][i].at # "lost"
    <3> TAKE i \in 1..Len(spans'[r])
    <3>1. CASE CallMade(r)
      <4>1. i \in 1..Len(spans[r]) \/ i = Len(spans[r]) + 1
        <5> DEFINE m == Len(spans[r])
        <5>1. m \in Nat /\ i \in 1..m + 1
          BY <1>1, <3>1 DEF CallMade
        <5> HIDE DEF m
        <5>2. i \in 1..m \/ i = m + 1
          BY <5>1
        <5>3. QED
          BY <5>2 DEF m
      <4>2. i \in 1..Len(spans[r]) => spans'[r][i] = spans[r][i]
        BY <3>1 DEF CallMade
      <4>3. spans'[r][Len(spans[r]) + 1].at # "lost"
        BY <3>1 DEF CallMade, NewSpan
      <4>4. QED
        BY <1>2, <2>1, <4>1, <4>2, <4>3
    <3>2. CASE ~CallMade(r)
      <4> DEFINE s == Top(r).span
      <4>1. s \in 0..Len(spans[r]) /\ \E e : Ended(r, s, e)
        BY <1>7, <3>2, EndSteps
      <4>2. PICK e : Ended(r, s, e)
        BY <4>1
      <4> HIDE DEF s
      <4>3. i \in 1..Len(spans[r])
        BY <4>2 DEF Ended
      <4>4. spans'[r][i].at \in {"exported", "lost"} =>
              spans'[r][i].at = spans[r][i].at
        BY <4>1, <4>2, <4>3, EndedFacts
      <4>5. QED
        BY <1>2, <2>1, <4>3, <4>4
    <3>3. QED
      BY <3>1, <3>2
  <2>3. QED
    BY <1>1, <1>2, <2>1, <2>2 DEF PhaseInv, Running
<1>8. QED
  BY <1>3, <1>4, <1>5, <1>6, <1>7 DEF Steps

\* A request is answered by its handler only, once it has returned.
LEMMA AnswerStep ==
  TypeOK /\ FreshInv /\ AnswerInv /\ FibonacciCorrect /\ TypeOK' /\ Steps
    => AnswerInv' /\ FibonacciCorrect'
<1> DEFINE Good(q) ==
             /\ answer'[q].status = 500 => asked'[q].path # "/ping"
             /\ answer'[q].value # Bad => /\ answer'[q].status = 200
                                          /\ answer'[q].value = Fib[asked'[q].number]
<1> SUFFICES ASSUME TypeOK, FreshInv, AnswerInv, FibonacciCorrect, TypeOK',
                    Steps, NEW q \in Requests
             PROVE  Good(q)
  BY DEF AnswerInv, FibonacciCorrect
<1>1. ASSUME answer'[q] = answer[q], asked'[q] = asked[q] PROVE Good(q)
  BY <1>1 DEF AnswerInv, FibonacciCorrect
<1>2. CASE Quiet \/ Stops \/ Exports
  BY <1>1, <1>2 DEF Quiet, Stops, Gone, Exports, Exported
<1>3. ASSUME NEW r \in Requests, Arrived(r) PROVE Good(q)
  <2>1. CASE q = r
    <3>1. answer'[r] = NoAnswer
      BY <1>3 DEF Arrived, FreshInv
    <3>2. QED
      BY <2>1, <3>1 DEF NoAnswer
  <2>2. CASE q # r
    BY <1>1, <1>3, <2>2 DEF Arrived, TypeOK
  <2>3. QED
    BY <2>1, <2>2
<1>4. ASSUME NEW r \in Requests, StepOf(r) PROVE Good(q)
  <2>1. asked' = asked
    BY <1>4, StepArrived
  <2>2. CASE Handles(r)
    <3>1. CASE q = r
      BY <2>1, <2>2, <3>1 DEF Handles
    <3>2. CASE q # r
      <4> DEFINE a == answer'[r]
      <4>1. answer' = [answer EXCEPT ![r] = a]
        BY <2>2 DEF Handles
      <4> HIDE DEF a
      <4>2. answer'[q] = answer[q]
        BY <3>2, <4>1 DEF TypeOK
      <4>3. QED
        BY <1>1, <2>1, <4>2
    <3>3. QED
      BY <3>1, <3>2
  <2>3. CASE ~Handles(r)
    <3>1. UNCHANGED answer
      BY <1>4, <2>3 DEF StepOf, CallMade, Returned, Panics, Finished
    <3>2. QED
      BY <1>1, <2>1, <3>1
  <2>4. QED
    BY <2>2, <2>3
<1>5. QED
  BY <1>2, <1>3, <1>4 DEF Steps

\* A request answered 500 leaves with an error in the server's span, which is
\* still open when the middleware ends it: only a ping ends it earlier.
LEMMA ErrorStep ==
  TypeOK /\ FreshInv /\ StackInv /\ FramesInv /\ AnswerInv /\ ServerErrorTraced
    /\ TypeOK' /\ FreshInv' /\ Steps => ServerErrorTraced'
<1> SUFFICES ASSUME TypeOK, FreshInv, StackInv, FramesInv, AnswerInv,
                    ServerErrorTraced, TypeOK', FreshInv', Steps,
                    NEW q \in Requests,
                    Running', stack'[q] = <<>>, answer'[q].status = 500
             PROVE  \E i \in DOMAIN spans'[q] : spans'[q][i].error
  BY DEF ServerErrorTraced
<1>1. ASSUME Running, stack'[q] = stack[q], spans'[q] = spans[q],
             answer'[q] = answer[q]
      PROVE  \E i \in DOMAIN spans'[q] : spans'[q][i].error
  BY <1>1 DEF ServerErrorTraced
<1>2. CASE Quiet
  <2>1. phase # "starting"
    <3>1. phase = "starting" => answer[q].status = 0
      BY DEF FreshInv, NoAnswer
    <3>2. QED
      BY <1>2, <3>1 DEF Quiet
  <2>2. Running
    BY <1>2, <2>1 DEF Quiet, Running
  <2>3. QED
    BY <1>1, <1>2, <2>2 DEF Quiet
<1>3. CASE Stops
  BY <1>3 DEF Stops, Gone, Running
<1>4. CASE Exports
  <2>1. PICK h \in Requests, j \in Nat : Exported(h, j) /\ Running
    BY <1>4 DEF Exports
  <2>2. stack'[q] = stack[q] /\ answer'[q] = answer[q]
    BY <2>1 DEF Exported
  <2>3. PICK i \in DOMAIN spans[q] : spans[q][i].error
    BY <2>1, <2>2 DEF ServerErrorTraced
  <2>4. i \in DOMAIN spans'[q] /\ i \in 1..Len(spans[q])
    <3>1. DOMAIN spans[q] = 1..Len(spans[q])
      BY DEF TypeOK
    <3>2. DOMAIN spans'[q] = 1..Len(spans'[q])
      BY <2>1 DEF Exported
    <3>3. Len(spans'[q]) = Len(spans[q])
      <4>1. CASE q = h
        BY <2>1, <4>1 DEF Exported
      <4>2. CASE q # h
        BY <2>1, <4>2 DEF Exported
      <4>3. QED
        BY <4>1, <4>2
    <3>4. i \in DOMAIN spans[q]
      BY <2>3
    <3>5. QED
      BY <3>1, <3>2, <3>3, <3>4
  <2>5. spans'[q][i].error = spans[q][i].error
    <3>1. CASE q = h /\ i = j
      BY <2>1, <3>1 DEF Exported
    <3>2. CASE q # h \/ i # j
      <4>1. spans'[q][i] = spans[q][i]
        BY <2>1, <2>4, <3>2 DEF Exported
      <4>2. QED
        BY <4>1
    <3>3. QED
      BY <3>1, <3>2
  <2>6. QED
    BY <2>3, <2>4, <2>5
<1>5. ASSUME NEW r \in Requests, Arrived(r)
      PROVE  \E i \in DOMAIN spans'[q] : spans'[q][i].error
  <2>1. q # r
    BY <1>5 DEF Arrived
  <2>2. Running /\ stack'[q] = stack[q] /\ spans'[q] = spans[q]
        /\ answer'[q] = answer[q]
    BY <1>5, <2>1 DEF Arrived, Running
  <2>3. QED
    BY <1>1, <2>2
<1>6. ASSUME NEW r \in Requests, StepOf(r)
      PROVE  \E i \in DOMAIN spans'[q] : spans'[q][i].error
  <2>1. /\ \A x \in Requests \ {r} : stack'[x] = stack[x] /\ spans'[x] = spans[x]
        /\ Running
    BY <1>6, StepArrived DEF StepOf
  <2>2. CASE q # r
    <3>1. answer'[q] = answer[q]
      <4>1. CASE Handles(r)
        <5> DEFINE a == answer'[r]
        <5>1. answer' = [answer EXCEPT ![r] = a]
          BY <4>1 DEF Handles
        <5> HIDE DEF a
        <5>2. QED
          BY <2>2, <5>1 DEF TypeOK
      <4>2. CASE ~Handles(r)
        BY <1>6, <4>2 DEF StepOf, CallMade, Returned, Panics, Finished
      <4>3. QED
        BY <4>1, <4>2
    <3>2. QED
      BY <1>1, <2>1, <2>2, <3>1
  <2>3. CASE q = r
    <3>1. Len(stack'[r]) = 0
      BY <2>3
    <3>2. ~CallMade(r)
      BY <3>1 DEF CallMade, TypeOK
    <3>3. ASSUME Returned(r) PROVE FALSE
      <4> DEFINE n == Len(stack[r])
      <4>1. n \in Nat /\ n > 2 /\ Len(stack'[r]) = n - 1
        BY <3>3 DEF Returned
      <4> HIDE DEF n
      <4>2. n - 1 = 0
        BY <3>1, <4>1
      <4>3. QED
        BY <4>1, <4>2
    <3>4. ~Handles(r) /\ ~Panics(r)
      <4>1. ASSUME NEW e, Leaves(r, e) PROVE FALSE
        BY <3>1, <4>1 DEF Leaves
      <4>2. QED
        BY <4>1 DEF Handles, Panics
    <3>5. Finished(r)
      BY <1>6, <3>2, <3>3, <3>4 DEF StepOf
    <3>6. /\ Len(stack[r]) = 1 /\ 1 \in 1..Len(spans[r])
          /\ answer[r].status = 500
          /\ Ended(r, 1, answer[r].status >= 500)
      BY <2>3, <3>5 DEF Finished
    <3>7. 1 \in DOMAIN stack[r] /\ asked[r].path # "/ping"
      BY <2>3, <3>6 DEF AnswerInv, TypeOK
    <3>8. Called(r, 1) /\ Spanned(r, 1)
      BY <3>7, SpansOfStack
    <3>9. spans[r][1].at = "open"
      <4>1. stack[r][1].span = 1
        BY <3>8 DEF Called, Frame
      <4>2. QED
        BY <3>7, <3>8, <4>1 DEF Spanned
    <3>10. spans'[r][1].error = (answer[r].status >= 500)
      BY <3>6, <3>9 DEF Ended
    <3>11. 500 >= 500
      OBVIOUS
    <3>12. spans'[r][1].error
      BY <3>6, <3>10, <3>11
    <3>13. 1 \in DOMAIN spans'[r]
      BY <3>6 DEF Ended, TypeOK
    <3>14. QED
      BY <2>3, <3>12, <3>13
  <2>4. QED
    BY <2>2, <2>3
<1>7. QED
  BY <1>2, <1>3, <1>4, <1>5, <1>6 DEF Steps
-----------------------------------------------------------------------------
LEMMA TracingInvInit == Init => TracingInv
<1> SUFFICES ASSUME Init PROVE TracingInv
  OBVIOUS
<1>1. /\ phase = "starting" /\ queue = <<>>
      /\ \A r \in Requests : /\ asked[r] = NoAsk /\ stack[r] = <<>>
                             /\ answer[r] = NoAnswer /\ spans[r] = <<>>
  BY DEF Init
<1>2. TypeOK
  <2>1. stack \in [Requests -> Seq(Frames)] /\ spans \in [Requests -> Seq(SpanRecord)]
    BY EmptySeq DEF Init
  <2>2. queue \in Seq(Requests \X Nat) /\ Len(queue) <= QueueSize
    BY <1>1, EmptySeq
  <2>3. answer \in [Requests -> [status : {0, 200, 400, 401, 500},
                                 value : (-Word..Word - 1) \cup {Bad}]]
    BY DEF Init, NoAnswer
  <2>4. QED
    BY <1>1, <2>1, <2>2, <2>3 DEF Init, TypeOK
<1>3. DOMAIN queue = {} /\ \A r \in Requests : /\ DOMAIN stack[r] = {}
                                               /\ DOMAIN spans[r] = {}
  BY <1>1
<1>4. FreshInv
  BY <1>1 DEF FreshInv
<1>5. StackInv /\ ResultsInv /\ FramesInv /\ OpenInv /\ QueueInv
      /\ ChildrenLeaveFirst /\ QueueAccounted
  BY <1>3 DEF StackInv, ResultsInv, FramesInv, OpenInv, QueueInv,
              ChildrenLeaveFirst, QueueAccounted
<1>6. PhaseInv /\ AnswerInv /\ FibonacciCorrect /\ ServerErrorTraced
  BY <1>1, <1>3 DEF PhaseInv, AnswerInv, FibonacciCorrect, ServerErrorTraced,
                    NoAnswer
<1>7. QED
  BY <1>2, <1>4, <1>5, <1>6 DEF TracingInv

LEMMA TracingInvStep == TracingInv /\ [Next]_vars => TracingInv'
<1> SUFFICES ASSUME TracingInv, [Next]_vars PROVE TracingInv'
  OBVIOUS
<1>1. Steps
  BY StepShapes
<1>2. /\ TypeOK /\ FreshInv /\ StackInv /\ ResultsInv /\ FramesInv /\ OpenInv
      /\ QueueInv /\ PhaseInv /\ AnswerInv /\ FibonacciCorrect
      /\ ChildrenLeaveFirst /\ QueueAccounted /\ ServerErrorTraced
  BY DEF TracingInv
<1>3. TypeOK'
  BY <1>1, <1>2, TypeStep
<1>4. FreshInv' /\ StackInv'
  BY <1>1, <1>2, <1>3, FreshStep, StackStep
<1>5. ResultsInv' /\ FramesInv' /\ OpenInv'
  BY <1>1, <1>2, <1>3, <1>4, ResultsStep, FramesStep, OpenStep
<1>6. ChildrenLeaveFirst'
  BY <1>1, <1>2, <1>3, ChildrenStep
<1>7. QueueInv' /\ QueueAccounted'
  BY <1>1, <1>2, <1>3, QueueStep
<1>8. PhaseInv' /\ AnswerInv' /\ FibonacciCorrect' /\ ServerErrorTraced'
  BY <1>1, <1>2, <1>3, <1>4, PhaseStep, AnswerStep, ErrorStep
<1>9. QED
  BY <1>3, <1>4, <1>5, <1>6, <1>7, <1>8 DEF TracingInv
-----------------------------------------------------------------------------
\* The inductive invariant holds in every reachable state.
THEOREM TracingInvariant == Spec => []TracingInv
BY TracingInvInit, TracingInvStep, PTL DEF Spec

\* Every variable keeps its type: a computed number fits in an int, and the
\* queue never holds more than it has room for.
THEOREM TracingTypeCorrect == Spec => []TypeOK
<1>1. TracingInv => TypeOK
  BY DEF TracingInv
<1>2. QED
  BY <1>1, TracingInvariant, PTL

\* /fibonacci answers the Fibonacci number of its parameter in int arithmetic,
\* for every parameter and every width of int.
THEOREM FibonacciCorrectAlways == Spec => []FibonacciCorrect
<1>1. TracingInv => FibonacciCorrect
  BY DEF TracingInv
<1>2. QED
  BY <1>1, TracingInvariant, PTL

\* A request that has returned, or panicked, has no span open.
THEOREM NoSpanLeftOpenCorrect == Spec => []NoSpanLeftOpen
<1>1. TracingInv => NoSpanLeftOpen
  <2> SUFFICES ASSUME TracingInv, NEW r \in Requests, stack[r] = <<>>,
                      NEW i \in DOMAIN spans[r]
               PROVE  spans[r][i].at # "open"
    BY DEF NoSpanLeftOpen
  <2>1. DOMAIN stack[r] = {}
    OBVIOUS
  <2>2. QED
    BY <2>1 DEF TracingInv, OpenInv
<1>2. QED
  BY <1>1, TracingInvariant, PTL

\* A collector sees children before the span they hang under.
THEOREM ChildrenLeaveFirstCorrect == Spec => []ChildrenLeaveFirst
<1>1. TracingInv => ChildrenLeaveFirst
  BY DEF TracingInv
<1>2. QED
  BY <1>1, TracingInvariant, PTL

\* The queue holds each span that waits, once, although the server span of a
\* ping is ended twice.
THEOREM QueueAccountedCorrect == Spec => []QueueAccounted
<1>1. TracingInv => QueueAccounted
  BY DEF TracingInv
<1>2. QED
  BY <1>1, TracingInvariant, PTL

\* A request answered 500 has an error in one of its spans.
THEOREM ServerErrorTracedCorrect == Spec => []ServerErrorTraced
<1>1. TracingInv => ServerErrorTraced
  BY DEF TracingInv
<1>2. QED
  BY <1>1, TracingInvariant, PTL

\* If main returns, every span that was queued has been sent.
THEOREM CleanExitSendsSpansCorrect == Spec => []CleanExitSendsSpans
<1>1. TracingInv => CleanExitSendsSpans
  BY DEF TracingInv, PhaseInv, CleanExitSendsSpans
<1>2. QED
  BY <1>1, TracingInvariant, PTL
-----------------------------------------------------------------------------
LEMMA EndedMoves ==
  ASSUME TypeOK, NEW r \in Requests, NEW i \in 0..Len(spans[r]), NEW e,
         Ended(r, i, e), NEW j \in 1..Len(spans[r])
  PROVE  /\ spans[r][j].at # "open" => spans'[r][j].error = spans[r][j].error
         /\ Moves(spans[r][j].at, spans'[r][j].at)
<1>1. CASE j # i
  <2>1. spans'[r][j] = spans[r][j]
    BY <1>1 DEF Ended
  <2>2. QED
    BY <2>1 DEF Moves
<1>2. CASE j = i /\ spans[r][j].at # "open"
  <2>1. spans' = spans
    BY <1>2 DEF Ended
  <2>2. QED
    BY <2>1 DEF Moves
<1>3. CASE j = i /\ spans[r][j].at = "open"
  <2>1. spans'[r][i].at \in {"queued", "dropped"}
    BY <1>3 DEF Ended
  <2>2. QED
    BY <1>3, <2>1 DEF Moves
<1>4. QED
  BY <1>1, <1>2, <1>3

\* The step of a request that ends at most one span.
LEMMA EndedSpansMove ==
  ASSUME TypeOK, NEW r \in Requests, NEW i \in 0..Len(spans[r]), NEW e,
         Ended(r, i, e)
  PROVE  SpansMove
<1> SUFFICES ASSUME NEW q \in Requests, NEW j \in DOMAIN spans[q]
             PROVE  /\ j \in DOMAIN spans'[q]
                    /\ spans'[q][j].parent = spans[q][j].parent
                    /\ spans[q][j].at # "open" => spans'[q][j].error = spans[q][j].error
                    /\ Moves(spans[q][j].at, spans'[q][j].at)
  BY DEF SpansMove
<1>1. CASE q # r
  <2>1. spans'[q] = spans[q]
    BY <1>1 DEF Ended
  <2>2. QED
    BY <2>1 DEF Moves
<1>2. CASE q = r
  <2>1. DOMAIN spans[r] = 1..Len(spans[r])
    BY DEF TypeOK
  <2>2. DOMAIN spans'[r] = 1..Len(spans'[r]) /\ Len(spans'[r]) = Len(spans[r])
    BY DEF Ended
  <2>3. j \in 1..Len(spans[r]) /\ j \in DOMAIN spans'[r]
    BY <1>2, <2>1, <2>2
  <2>4. QED
    BY <1>2, <2>3, EndedMoves, EndedFacts
<1>3. QED
  BY <1>1, <1>2

LEMMA SpansStep ==
  ASSUME TracingInv, Steps
  PROVE  SpansMove
<1>1. /\ TypeOK /\ FreshInv /\ StackInv /\ FramesInv /\ QueueInv /\ QueueAccounted
      /\ \A r \in Requests : DOMAIN spans[r] = 1..Len(spans[r]) /\ Len(spans[r]) \in Nat
  BY DEF TracingInv, TypeOK
<1>2. CASE Quiet
  BY <1>2 DEF Quiet, SpansMove, Moves
<1>3. CASE Stops
  <2>1. PICK how : Gone(how)
    BY <1>3 DEF Stops
  <2>2. \A r \in Requests : DOMAIN spans'[r] = DOMAIN spans[r]
    <3> TAKE r \in Requests
    <3>1. DOMAIN spans'[r] = 1..Len(spans'[r]) /\ Len(spans'[r]) = Len(spans[r])
      BY <2>1 DEF Gone
    <3>2. QED
      BY <1>1, <3>1
  <2>3. QED
    BY <1>1, <2>1, <2>2 DEF Gone, SpansMove
<1>4. CASE Exports
  <2>1. PICK h \in Requests, j \in Nat : Exported(h, j)
    BY <1>4 DEF Exports
  <2>2. spans[h][j].at = "queued"
    <3>1. 1 \in DOMAIN queue
      BY <1>1, <2>1 DEF Exported, TypeOK
    <3>2. PICK x \in Requests, k \in Nat :
            queue[1] = <<x, k>> /\ spans[x][k].at = "queued"
      BY <1>1, <3>1, QueueEntry
    <3>3. x = h /\ k = j
      BY <2>1, <3>2 DEF Exported
    <3>4. QED
      BY <3>2, <3>3
  <2>3. SUFFICES ASSUME NEW q \in Requests, NEW i \in DOMAIN spans[q]
        PROVE  /\ i \in DOMAIN spans'[q]
               /\ spans'[q][i].parent = spans[q][i].parent
               /\ spans[q][i].at # "open" => spans'[q][i].error = spans[q][i].error
               /\ Moves(spans[q][i].at, spans'[q][i].at)
    BY DEF SpansMove
  <2>4. CASE q # h
    <3>1. spans'[q] = spans[q]
      BY <2>1, <2>4 DEF Exported
    <3>2. QED
      BY <3>1 DEF Moves
  <2>5. CASE q = h
    <3>1. DOMAIN spans'[h] = 1..Len(spans'[h]) /\ Len(spans'[h]) = Len(spans[h])
      BY <2>1 DEF Exported
    <3>2. i \in 1..Len(spans[h]) /\ i \in DOMAIN spans'[h]
      BY <1>1, <2>5, <3>1
    <3>3. CASE i = j
      BY <2>1, <2>2, <2>5, <3>2, <3>3 DEF Exported, Moves
    <3>4. CASE i # j
      <4>1. spans'[h][i] = spans[h][i]
        BY <2>1, <3>2, <3>4 DEF Exported
      <4>2. QED
        BY <2>5, <3>2, <4>1 DEF Moves
    <3>5. QED
      BY <3>3, <3>4
  <2>6. QED
    BY <2>4, <2>5
<1>5. ASSUME NEW r \in Requests, Arrived(r)
      PROVE  SpansMove
  <2>1. spans[r] = <<>> /\ DOMAIN spans[r] = {}
    BY <1>1, <1>5 DEF Arrived, FreshInv
  <2>2. \A q \in Requests \ {r} : spans'[q] = spans[q]
    BY <1>5 DEF Arrived
  <2>3. QED
    BY <2>1, <2>2 DEF SpansMove, Moves
<1>6. ASSUME NEW r \in Requests, CallMade(r)
      PROVE  SpansMove
  <2>1. \A q \in Requests \ {r} : spans'[q] = spans[q]
    BY <1>6 DEF CallMade
  <2>2. \A i \in 1..Len(spans[r]) : spans'[r][i] = spans[r][i] /\ i \in DOMAIN spans'[r]
    <3> TAKE i \in 1..Len(spans[r])
    <3>1. spans'[r][i] = spans[r][i]
      BY <1>6 DEF CallMade
    <3>2. DOMAIN spans'[r] = 1..Len(spans'[r]) /\ Len(spans'[r]) = Len(spans[r]) + 1
      BY <1>6 DEF CallMade
    <3> DEFINE n == Len(spans[r])
    <3>3. n \in Nat /\ i \in 1..n /\ DOMAIN spans'[r] = 1..n + 1
      BY <1>1, <3>2
    <3> HIDE DEF n
    <3>4. i \in DOMAIN spans'[r]
      BY <3>3
    <3>5. QED
      BY <3>1, <3>4
  <2>3. QED
    BY <1>1, <2>1, <2>2 DEF SpansMove, Moves
<1>7. ASSUME NEW r \in Requests, Returned(r) \/ Handles(r) \/ Panics(r) \/ Finished(r)
      PROVE  SpansMove
  <2>1. \E i \in 0..Len(spans[r]) : \E e \in BOOLEAN : Ended(r, i, e)
    <3>1. CASE Returned(r)
      BY <3>1 DEF Returned
    <3>2. CASE Handles(r) \/ Panics(r)
      <4>1. PICK e \in BOOLEAN : Leaves(r, e)
        <5>1. Panics(r) => Leaves(r, FALSE) /\ FALSE \in BOOLEAN
          BY DEF Panics
        <5>2. Handles(r) => \E e \in BOOLEAN : Leaves(r, e)
          BY DEF Handles
        <5>3. QED
          BY <3>2, <5>1, <5>2, Zenon
      <4>2. Top(r).span \in 0..Len(spans[r]) /\ Ended(r, Top(r).span, e)
        BY <4>1 DEF Leaves
      <4>3. QED
        BY <4>2, Zenon
    <3>3. CASE Finished(r)
      <4>1. 1 \in 0..Len(spans[r]) /\ Ended(r, 1, answer[r].status >= 500)
        BY <3>3 DEF Finished
      <4> DEFINE e == answer[r].status >= 500
      <4>2. e \in BOOLEAN /\ Ended(r, 1, e)
        BY <4>1
      <4> HIDE DEF e
      <4>3. QED
        BY <4>1, <4>2
    <3>4. QED
      BY <1>7, <3>1, <3>2, <3>3
  <2>2. QED
    BY <1>1, <2>1, EndedSpansMove
<1>8. QED
  BY <1>2, <1>3, <1>4, <1>5, <1>6, <1>7 DEF Steps, StepOf

\* Every span ends once, is sent at most once, and keeps the parent it started
\* under and the error it ended with; no step takes it back or away.
THEOREM SpanEndsOnceCorrect == Spec => SpanEndsOnce
<1>1. TracingInv /\ [Next]_vars => [SpansMove]_vars
  BY StepShapes, SpansStep
<1>2. QED
  BY <1>1, TracingInvariant, PTL DEF Spec, SpanEndsOnce
=============================================================================
