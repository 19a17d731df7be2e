------------------------------ MODULE HttpTap ------------------------------
(***************************************************************************)
(* One request through a stack of the middlewares of src/httptap: the      *)
(* recover handler (recover.go), the access log (access.go) and the        *)
(* payload log (payload.go, interceptor.go), composed with the optional-   *)
(* interface wrappers of rw.go.  The ResponseWriter a handler sees is a    *)
(* chain: one element per middleware, innermost first, and the writer of   *)
(* net/http, the wire, last.  A call enters the chain at its inner end and *)
(* goes outwards until an element absorbs it.  Next to the chain runs      *)
(* `bare', the wire of the same handler without any middleware.            *)
(***************************************************************************)
EXTENDS Integers, Sequences, SequencesExt, FiniteSetsExt

CONSTANTS
    Stacks,     \* the compositions: sequences of middleware kinds, innermost first
    Ops,        \* stack -> what its handler may do besides returning and panicking
    Codes,      \* status codes the handler sends
    Caps,       \* pairs of the payload log's caps on request and response body
    Flushers, Hijackers,    \* whether the wire implements http.Flusher, http.Hijacker
    Panicky,    \* kinds of middleware of which a log sink may panic
    MaxOps,     \* bound on the handler's calls
    MaxWrite    \* bound on the bytes of one Write

Kinds == {"recover", "access", "payload"}
AllOps == {"header", "again", "write", "empty", "set", "late", "delete",
           "read", "flush", "hijack", "hijackLate", "hijackFails"}

ASSUME HttpTapAssumption ==
    /\ Stacks \subseteq Seq(Kinds) /\ \A s \in Stacks : IsInjective(s)
    /\ Ops \in [Stacks -> SUBSET AllOps] /\ Codes \subseteq 100..599 /\ Caps \subseteq Int \X Int
    /\ Flushers \subseteq BOOLEAN /\ Hijackers \subseteq BOOLEAN /\ Panicky \subseteq Kinds
    /\ MaxOps \in Nat /\ MaxWrite \in Nat

VARIABLES
    chain,      \* the ResponseWriters, innermost first, the wire last
    bare,       \* history: the wire of the same handler without middleware
    pc,         \* "handler", "unwind", "done", "aborted" by a panic, or "crashed"
    depth,      \* the middleware that unwinds next
    panicking,  \* "no", "panic", or "abort" for http.ErrAbortHandler
    ending,     \* history: how the handler itself ended, like panicking
    lines,      \* the lines each middleware logged
    lost,       \* history: the middleware whose log sink panicked (0: none)
    read,       \* bytes of the request body the handler has read
    ops         \* calls of the handler so far

vars == <<chain, bare, pc, depth, panicking, ending, lines, lost, read, ops>>

OK == 200
InternalServerError == 500
Fallback == <<0>>       \* the body of the 500; the handler's bytes are 1, 2, ...

-----------------------------------------------------------------------------
Wire(f, h) ==
    [kind |-> "wire", flusher |-> f, hijacker |-> h, headers |-> {"preset"}, sent |-> {},
     hints |-> FALSE, wrote |-> FALSE, code |-> 0, body |-> <<>>,
     hijacked |-> FALSE, misused |-> FALSE]

recoverResponseWriter ==
    [kind |-> "recover", cloned |-> FALSE, headers |-> {}, body |-> <<>>,
     code |-> 0, wrote |-> FALSE, hijacked |-> FALSE]

accessResponseWriter == [kind |-> "access", code |-> 0, wrote |-> FALSE, hijacked |-> FALSE]

newInterceptorWithConfig(maxRequestBody, maxResponseBody) ==
    [kind |-> "payload", code |-> OK, maxRequest |-> maxRequestBody, request |-> 0,
     requestTruncated |-> FALSE, maxResponse |-> maxResponseBody, response |-> <<>>,
     responseTruncated |-> FALSE, hijacked |-> FALSE]

Middlewares(kind) ==
    CASE kind = "recover" -> {recoverResponseWriter}
      [] kind = "access"  -> {accessResponseWriter}
      [] OTHER -> {newInterceptorWithConfig(c[1], c[2]) : c \in Caps}

Init ==
    \E stack \in Stacks, f \in Flushers, h \in Hijackers :
    \E layers \in [DOMAIN stack -> UNION {Middlewares(k) : k \in Kinds}] :
        /\ \A k \in DOMAIN stack : layers[k] \in Middlewares(stack[k])
        /\ chain = Append(layers, Wire(f, h))
        /\ bare = <<Wire(f, h)>>
        /\ pc = "handler" /\ depth = 1 /\ panicking = "no" /\ ending = "no"
        /\ lines = [k \in DOMAIN stack |-> <<>>]
        /\ lost = 0 /\ read = 0 /\ ops = 0

-----------------------------------------------------------------------------
(* The calls of a ResponseWriter, as functions of the chain.               *)

Outermost(ch) == ch[Len(ch)]

\* What a call made at element k reaches: the elements it gets through to.
Reach(ch, k, passes(_)) ==
    {j \in k..Len(ch) : \A i \in k..(j - 1) : passes(ch[i])}

\* net/http: final headers are sent once, 1xx are informational, and nothing
\* may be done with the writer of a hijacked connection.
Commit(w, c) ==
    IF w.hijacked THEN [w EXCEPT !.misused = TRUE]
    ELSE IF w.wrote THEN w
    ELSE IF c < 200 THEN [w EXCEPT !.hints = TRUE]
    ELSE [w EXCEPT !.wrote = TRUE, !.code = c, !.sent = w.headers]

\* WriteHeader of one element: the first code wins, but for the payload log.
OnWriteHeader(w, c) ==
    CASE w.kind = "wire" -> Commit(w, c)
      [] w.kind = "payload" -> [w EXCEPT !.code = c]
      [] OTHER -> IF w.wrote THEN w ELSE [w EXCEPT !.code = c, !.wrote = TRUE]

WriteHeader(ch, k, c) ==
    LET passes(w) == w.kind = "payload" \/ (w.kind = "access" /\ ~w.wrote)
        reached == Reach(ch, k, passes)
    IN  [j \in DOMAIN ch |-> IF j \in reached THEN OnWriteHeader(ch[j], c) ELSE ch[j]]

\* Mutant: a body of exactly the cap counts as truncated.
CaptureTooEager(i, b) ==
    LET remaining == i.maxResponse - Len(i.response)
    IN  CASE i.maxResponse = 0 -> i
          [] i.maxResponse < 0 -> [i EXCEPT !.response = @ \o b]
          [] OTHER -> [i EXCEPT !.response = @ \o SubSeq(b, 1, Min({Len(b), remaining})),
                                !.responseTruncated = @ \/ Len(b) >= remaining]

\* The capture of the payload log: up to the cap, the rest is marked truncated.
Capture(i, b) ==
    LET remaining == i.maxResponse - Len(i.response)
    IN  CASE i.maxResponse = 0 -> i
          [] i.maxResponse < 0 -> [i EXCEPT !.response = @ \o b]
          [] remaining > 0 -> [i EXCEPT !.response = @ \o SubSeq(b, 1, Min({Len(b), remaining})),
                                        !.responseTruncated = @ \/ Len(b) > remaining]
          [] OTHER -> [i EXCEPT !.responseTruncated = TRUE]

\* Mutant: Write implies 204.
OnWriteNoContent(w, b) ==
    CASE w.kind = "payload" -> Capture(w, b)
      [] w.kind = "access" -> OnWriteHeader(w, 204)
      [] w.kind = "recover" -> [OnWriteHeader(w, 204) EXCEPT !.body = @ \o b]
      [] w.kind = "wire" -> [Commit(w, 204) EXCEPT !.body = @ \o b]

\* Write of one element, with the WriteHeader(200) it implies.
OnWrite(w, b) ==
    CASE w.kind = "payload" -> Capture(w, b)
      [] w.kind = "access" -> OnWriteHeader(w, OK)
      [] w.kind = "recover" -> [OnWriteHeader(w, OK) EXCEPT !.body = @ \o b]
      [] OTHER -> IF w.hijacked THEN Commit(w, OK)
                  ELSE [Commit(w, OK) EXCEPT !.body = @ \o b]

Write(ch, k, b) ==
    LET passes(w) == w.kind # "recover"
        reached == Reach(ch, k, passes)
    IN  [j \in DOMAIN ch |-> IF j \in reached THEN OnWrite(ch[j], b) ELSE ch[j]]

\* Mutant: the recover handler passes Header() on.
HeaderOfWire(ch, k) == Len(ch)

\* The element whose header map Header() returns; the recover handler's is a
\* copy of the wire's, made by the first call.
HeaderOwner(ch, k) == Min({j \in k..Len(ch) : ch[j].kind \in {"recover", "wire"}})

Header(ch, k) ==
    LET o == HeaderOwner(ch, k)
    IN  IF ch[o].kind = "recover" /\ ~ch[o].cloned
        THEN [ch EXCEPT ![o].cloned = TRUE, ![o].headers = Outermost(ch).headers]
        ELSE ch

SetHeaders(ch, k, add, del) ==
    [Header(ch, k) EXCEPT ![HeaderOwner(ch, k)].headers = (@ \cup add) \ del]

\* Flush of every wrapper is the Flush of the wire: no element sees it.
Flush(ch) == [ch EXCEPT ![Len(ch)] = Commit(@, OK)]

\* Mutant: only the innermost wrapper marks its element.
HijackMarkingInner(ch, ok) ==
    [j \in DOMAIN ch |-> IF j = Len(ch) THEN [ch[j] EXCEPT !.hijacked = ok]
                         ELSE [ch[j] EXCEPT !.hijacked = @ \/ j = 1]]

\* Every wrapper marks its element, then asks the next.
Hijack(ch, ok) ==
    [j \in DOMAIN ch |-> IF j < Len(ch) THEN [ch[j] EXCEPT !.hijacked = TRUE]
                         ELSE [ch[j] EXCEPT !.hijacked = ok]]

\* A read of the request body of n > 0 bytes, teed into every capped writer.
Read(ch, n) ==
    LET tee(i) ==
            LET remaining == i.maxRequest - i.request
            IN  CASE i.maxRequest = 0 -> i
                  [] i.maxRequest < 0 -> [i EXCEPT !.request = @ + n]
                  [] OTHER -> [i EXCEPT !.request = @ + Min({n, remaining}),
                                        !.requestTruncated = @ \/ n > remaining]
    IN  [j \in DOMAIN ch |-> IF ch[j].kind = "payload" THEN tee(ch[j]) ELSE ch[j]]

-----------------------------------------------------------------------------
(* The handler.                                                            *)

Stack == [k \in 1..(Len(chain) - 1) |-> chain[k].kind]

\* One call on the handler's ResponseWriter; one that has hijacked the
\* connection makes no more of them.
Call(op) ==
    /\ pc = "handler" /\ op \in Ops[Stack] /\ ops < MaxOps /\ ~Outermost(chain).hijacked
    /\ ops' = ops + 1
    /\ UNCHANGED <<pc, depth, panicking, ending, lines, lost>>

\* The code the handler has sent counts from the first final one.
CallWriteHeader ==
    /\ Call(IF bare[1].wrote THEN "again" ELSE "header")
    /\ \E c \in Codes :
        /\ chain' = WriteHeader(chain, 1, c)
        /\ bare' = WriteHeader(bare, 1, c)
    /\ UNCHANGED read

CallWrite ==
    \E n \in 0..MaxWrite :
        LET b == [i \in 1..n |-> Len(bare[1].body) + i]
        IN  /\ Call(IF n = 0 THEN "empty" ELSE "write")
            /\ chain' = Write(chain, 1, b)
            /\ bare' = Write(bare, 1, b)
            /\ UNCHANGED read

EditHeader(add, del) ==
    /\ chain' = SetHeaders(chain, 1, add, del)
    /\ bare' = SetHeaders(bare, 1, add, del)
    /\ UNCHANGED read

CallHeader ==
    \/ Call(IF bare[1].wrote THEN "late" ELSE "set") /\ EditHeader({"own"}, {})
    \/ ~bare[1].wrote /\ Call("delete") /\ EditHeader({}, {"preset"})

CallRead ==
    /\ Call("read")
    /\ \E n \in 1..MaxWrite : read' = read + n /\ chain' = Read(chain, n)
    /\ UNCHANGED bare

\* A handler finds the optional interfaces that the wire implements.
CallFlush ==
    /\ Outermost(chain).flusher
    /\ Call("flush")
    /\ chain' = Flush(chain) /\ bare' = Flush(bare)
    /\ UNCHANGED read

CallHijack ==
    /\ Outermost(chain).hijacker
    /\ \E ok \in BOOLEAN :
        /\ Call(IF ~ok THEN "hijackFails" ELSE IF bare[1].wrote THEN "hijackLate" ELSE "hijack")
        /\ chain' = Hijack(chain, ok) /\ bare' = Hijack(bare, ok)
    /\ UNCHANGED read

\* next returns or panics.
End ==
    /\ pc = "handler" /\ pc' = "unwind"
    /\ \E how \in {"no", "panic", "abort"} : panicking' = how /\ ending' = how
    /\ UNCHANGED <<chain, bare, depth, lines, lost, read, ops>>

-----------------------------------------------------------------------------
(* The middlewares, innermost first, after next.                           *)

Unwinding(kind) ==
    /\ pc = "unwind" /\ depth < Len(chain) /\ chain[depth].kind = kind
    /\ depth' = depth + 1
    /\ UNCHANGED <<bare, pc, ending, lost, read, ops>>

Logs(line) == lines' = [lines EXCEPT ![depth] = Append(@, line)]

\* The sink of a middleware's log panics; once in a request.
SinkPanic(kind) ==
    /\ pc = "unwind" /\ depth < Len(chain) /\ chain[depth].kind = kind
    /\ kind \in Panicky /\ lost = 0
    /\ lost' = depth
    /\ UNCHANGED <<bare, ending, read, ops>>

\* In the goroutine of the request, which goes on unwinding with that panic.
PanicsInline(kind) ==
    /\ SinkPanic(kind)
    /\ depth' = depth + 1 /\ panicking' = "panic"
    /\ UNCHANGED pc

\* In a goroutine of the log call, where nothing recovers it: the process ends.
PanicsAside(kind) ==
    /\ SinkPanic(kind)
    /\ pc' = "crashed"
    /\ UNCHANGED <<depth, panicking, lines>>

\* Mutant: the buffered status is not sent.
flushBodyTo(ch, k) ==
    Write(IF ch[k].cloned THEN SetHeaders(ch, k + 1, ch[k].headers, {}) ELSE ch, k + 1, ch[k].body)

flushTo(ch, k) ==
    LET rrw == ch[k]
        headed == IF rrw.cloned THEN SetHeaders(ch, k + 1, rrw.headers, {}) ELSE ch
        coded == IF rrw.wrote THEN WriteHeader(headed, k + 1, rrw.code) ELSE headed
    IN  Write(coded, k + 1, rrw.body)

RecoverClean ==
    /\ Unwinding("recover") /\ panicking = "no"
    /\ chain' = IF chain[depth].hijacked THEN chain ELSE flushTo(chain, depth)
    /\ UNCHANGED <<panicking, lines>>

RecoverPanic ==
    /\ Unwinding("recover") /\ panicking = "panic"
    /\ Logs([code |-> InternalServerError])
    /\ chain' = IF chain[depth].hijacked THEN chain
                ELSE Write(WriteHeader(SetHeaders(chain, depth + 1, {"fallback"}, {}),
                                       depth + 1, InternalServerError),
                           depth + 1, Fallback)
    /\ panicking' = "no"

\* Mutant: the buffered response is flushed by a defer of its own.
RecoverSinkPanicsFlushing ==
    /\ panicking = "panic" /\ PanicsInline("recover")
    /\ chain' = flushTo(chain, depth)
    /\ UNCHANGED lines

\* WriteLog panics for a single sink, and ends the process for several; the 500
\* is still to be written then.
RecoverSinkPanics ==
    /\ panicking = "panic"
    /\ (PanicsInline("recover") /\ UNCHANGED lines) \/ PanicsAside("recover")
    /\ UNCHANGED chain

\* Mutant: http.ErrAbortHandler is swallowed.
RecoverSwallowsAbort ==
    /\ Unwinding("recover") /\ panicking = "abort"
    /\ panicking' = "no"
    /\ UNCHANGED <<chain, lines>>

RecoverAbort ==
    /\ Unwinding("recover") /\ panicking = "abort"
    /\ UNCHANGED <<chain, panicking, lines>>

\* Mutant: the line is not deferred.
AccessReturnClean ==
    /\ Unwinding("access")
    /\ IF panicking = "no" THEN Logs([code |-> chain[depth].code]) ELSE UNCHANGED lines
    /\ UNCHANGED <<chain, panicking>>

\* The deferred line is written whatever happened.
AccessReturn ==
    /\ Unwinding("access")
    /\ Logs([code |-> chain[depth].code])
    /\ UNCHANGED <<chain, panicking>>

AccessSinkPanics ==
    /\ PanicsInline("access")
    /\ UNCHANGED <<chain, lines>>

\* The trailing flush is skipped by a panic, the deferred log is not; it shows
\* the headers, which makes a recover handler outside copy them.
PayloadEnd ==
    chain' = Header(IF panicking = "no" /\ ~chain[depth].hijacked /\ Outermost(chain).flusher
                    THEN Flush(chain) ELSE chain,
                    depth + 1)

PayloadLine ==
    LET i == chain[depth]
    IN  Logs([code |-> i.code, max |-> i.maxResponse, response |-> i.response,
              truncated |-> i.responseTruncated, maxRequest |-> i.maxRequest,
              request |-> i.request, requestTruncated |-> i.requestTruncated])

PayloadReturn ==
    /\ Unwinding("payload")
    /\ PayloadEnd /\ PayloadLine
    /\ UNCHANGED panicking

\* The summary goes to a writer of its own, beside the goroutine that logs.
PayloadSinkPanics ==
    /\ (PanicsInline("payload") /\ PayloadLine) \/ PanicsAside("payload")
    /\ PayloadEnd

\* net/http: an implicit 200 ends a response that has none, a panic the connection.
Serve ==
    LET finish(ch) == IF Outermost(ch).hijacked THEN ch ELSE Flush(ch)
    IN  /\ pc = "unwind" /\ depth = Len(chain)
        /\ IF panicking = "no"
           THEN pc' = "done" /\ chain' = finish(chain) /\ bare' = finish(bare)
           ELSE pc' = "aborted" /\ UNCHANGED <<chain, bare>>
        /\ UNCHANGED <<depth, panicking, ending, lines, lost, read, ops>>

Next ==
    \/ CallWriteHeader \/ CallWrite \/ CallHeader \/ CallRead \/ CallFlush \/ CallHijack
    \/ End
    \/ RecoverClean \/ RecoverPanic \/ RecoverAbort \/ AccessReturn \/ PayloadReturn
    \/ RecoverSinkPanics \/ AccessSinkPanics \/ PayloadSinkPanics
    \/ Serve

Spec == Init /\ [][Next]_vars

-----------------------------------------------------------------------------
Middleware == 1..(Len(chain) - 1)
Lost(kind) == lost > 0 /\ chain[lost].kind = kind
Has(kind) == \E k \in Middleware : chain[k].kind = kind
wire == Outermost(chain)
Ended == pc \in {"done", "aborted"}

\* The elements whose calls reach the wire: no recover handler is outside them.
Outside == {k \in Middleware : \A j \in Middleware : j > k => chain[j].kind # "recover"}

\* What the client can tell of a response.
Seen(w) == <<w.code, w.sent, w.hints, w.body, w.hijacked>>
Reply500 == <<InternalServerError, {"preset", "fallback"}, FALSE, Fallback, FALSE>>
NoReply == <<0, {}, FALSE, <<>>, FALSE>>

\* Every variable has its type.
TypeOK ==
    /\ pc \in {"handler", "unwind", "done", "aborted", "crashed"}
    /\ depth \in 1..Len(chain)
    /\ {panicking, ending} \subseteq {"no", "panic", "abort"}
    /\ \A k \in Middleware : chain[k].kind \in Kinds /\ chain[k].code \in Codes \cup {0, OK, InternalServerError}
    /\ wire.kind = "wire" /\ bare[1].kind = "wire" /\ Len(bare) = 1
    /\ DOMAIN lines = Middleware
    /\ lost \in 0..(Len(chain) - 1) /\ read \in Nat /\ ops \in 0..MaxOps

\* "On a clean return from next, the response is flushed to the underlying
\* ResponseWriter as if no middleware were present" (NewRecoverHandler), and
\* the logs leave the response alone too.
Transparent == pc = "done" /\ ending = "no" /\ lost = 0 => Seen(wire) = Seen(bare[1])

\* A panic below a recover handler, however far the response had got, gives the
\* client the fallback 500 and nothing of the handler's response, and the
\* request ends normally; only a hijacked connection is left alone.  A log
\* sink that panics as well changes nothing unless it is the recover handler's.
PanicGives500 ==
    Ended /\ ending = "panic" /\ Has("recover") /\ ~Lost("recover") =>
        /\ lost = 0 => pc = "done"
        /\ IF wire.hijacked THEN wire.code = bare[1].code /\ wire.body = bare[1].body
           ELSE Seen(wire) = Reply500

\* Whatever panics, the handler or the sink of a log, and wherever that leaves
\* the request: with a recover handler in the stack the client sees the whole
\* response of a handler that returned, or the 500, or nothing, and never a mix.
AllOrNothing ==
    pc \in {"done", "aborted", "crashed"} /\ Has("recover") /\ ~wire.hijacked =>
        \/ Seen(wire) \in {Reply500, NoReply}
        \/ ending = "no" /\ Seen(wire) = Seen(Flush(bare)[1])

\* http.ErrAbortHandler goes through every middleware to the server: below a
\* recover handler nothing of the response is sent and nothing logged by it.
AbortPassesThrough ==
    Ended /\ ending = "abort" /\ lost = 0 =>
        /\ pc = "aborted"
        /\ \A k \in Middleware : chain[k].kind = "recover" =>
             /\ lines[k] = <<>>
             /\ ~wire.wrote /\ wire.body = <<>> /\ wire.sent = {}

\* No middleware writes to or flushes a connection the handler has hijacked.
HijackRespected == ~wire.misused

\* However the handler ends, the access and the payload log write one line
\* each, also when the sink of another log panics, and its status is the one
\* the client was sent; 0 in the access log stands for a response nobody wrote
\* anything of.
StatusLogged ==
    Ended => \A k \in Middleware \ {lost} : chain[k].kind # "recover" =>
        /\ Len(lines[k]) = 1
        /\ k \in Outside /\ wire.wrote => lines[k][1].code \in {0, wire.code}
        /\ k \in Outside /\ lines[k][1].code = 0 => wire.code \in {0, OK} /\ wire.body = <<>>

\* The payload log shows the bytes that went by, in order and up to the caps,
\* and marks a body truncated exactly if a byte of it is missing.
CaptureExact ==
    Ended => \A k \in Outside \ {lost} : chain[k].kind = "payload" =>
        LET line == lines[k][1]
        IN  /\ line.max > 0 =>
                 /\ line.response = SubSeq(wire.body, 1, Min({line.max, Len(wire.body)}))
                 /\ line.truncated <=> Len(wire.body) > line.max
            /\ line.max < 0 => line.response = wire.body
            /\ line.maxRequest > 0 =>
                 /\ line.request = Min({line.maxRequest, read})
                 /\ line.requestTruncated <=> read > line.maxRequest

-----------------------------------------------------------------------------
(* The compositions and handlers for which the code carries the properties  *)
(* through.                                                                 *)

\* A recover handler is not composed around a handler that streams: a flush goes
\* past what is buffered (rw.go 29).
NoStreaming == \A s \in Stacks : "recover" \in Range(s) => "flush" \notin Ops[s]

\* A handler below a recover handler hijacks before it has sent a status, and with
\* success: the recover handler takes any attempt for a hijack (rw.go 41).
NoLateHijack ==
    \A s \in Stacks : "recover" \in Range(s) => Ops[s] \cap {"hijackFails", "hijackLate"} = {}

\* Below a recover handler the headers are complete when the status is sent, and no
\* header of an outer middleware is deleted (recover.go 136 adds to the headers).
SettledHeaders == \A s \in Stacks : "recover" \in Range(s) => Ops[s] \cap {"late", "delete"} = {}

\* A handler sends no informational status.
FinalCodes == \A c \in Codes : c >= 200

\* No payload log is inside a recover handler, where its flush goes past the buffer.
NoPayloadInside ==
    \A s \in Stacks : \A i, j \in DOMAIN s : s[j] = "recover" /\ i < j => s[i] # "payload"

\* A handler that writes below a payload log writes at least a byte: that log marks a body
\* of exactly its cap truncated by an empty write (interceptor.go 120).
NoEmptyWrites == \A s \in Stacks : "payload" \in Range(s) => "empty" \notin Ops[s]

\* Where no recover handler buffers, a handler sends a second status only if no payload log
\* takes it for the status (interceptor.go 136) and no flush has sent one that the access log
\* did not see (rw.go 29).
OneStatus ==
    \A s \in Stacks : "again" \in Ops[s] =>
        "recover" \in Range(s) \/ ("payload" \notin Range(s) /\ "flush" \notin Ops[s])

\* What a tidy deployment is: the compositions and handlers for which the buffered
\* response is the handler's own.
Tidy == NoStreaming /\ NoLateHijack /\ SettledHeaders /\ FinalCodes /\ NoPayloadInside
=============================================================================
