--------------------------- MODULE HttpTapProofs ---------------------------
(* What is proved of HttpTap for every set of stacks, status codes and     *)
(* caps, and any number and length of the handler's calls.                 *)
EXTENDS HttpTap, Extrema, SequenceTheorems, TLAPS

-----------------------------------------------------------------------------
(* The elements of a chain *)

Statuses == Codes \cup {0, OK, InternalServerError}
Endings == {"no", "panic", "abort"}
HeaderSets == SUBSET {"preset", "own", "fallback"}

Wires ==
    [kind : {"wire"}, flusher : BOOLEAN, hijacker : BOOLEAN, headers : HeaderSets,
     sent : HeaderSets, hints : BOOLEAN, wrote : BOOLEAN, code : Statuses, body : Seq(Nat),
     hijacked : BOOLEAN, misused : BOOLEAN]
RecoverWriters ==
    [kind : {"recover"}, cloned : BOOLEAN, headers : HeaderSets, body : Seq(Nat),
     code : Statuses, wrote : BOOLEAN, hijacked : BOOLEAN]
AccessWriters == [kind : {"access"}, code : Statuses, wrote : BOOLEAN, hijacked : BOOLEAN]
PayloadWriters ==
    [kind : {"payload"}, code : Statuses, maxRequest : Int, request : Nat,
     requestTruncated : BOOLEAN, maxResponse : Int, response : Seq(Nat),
     responseTruncated : BOOLEAN, hijacked : BOOLEAN]

Layers == RecoverWriters \cup AccessWriters \cup PayloadWriters
Writers == Layers \cup Wires

\* A chain is the middlewares' writers and the wire.
IsChain(ch) ==
    /\ ch \in Seq(Writers) /\ Len(ch) >= 1
    /\ \A k \in 1..(Len(ch) - 1) : ch[k] \in Layers
    /\ ch[Len(ch)] \in Wires

\* What the parameters are.
LEMMA Params ==
    /\ \A s \in Stacks : s \in Seq(Kinds) /\ IsInjective(s)
    /\ Ops \in [Stacks -> SUBSET AllOps] /\ Codes \subseteq 100..599 /\ Caps \subseteq Int \X Int
    /\ Flushers \subseteq BOOLEAN /\ Hijackers \subseteq BOOLEAN /\ Panicky \subseteq Kinds
    /\ MaxOps \in Nat /\ MaxWrite \in Nat
BY HttpTapAssumption

\* Statuses are numbers.
LEMMA StatusType ==
    /\ \A c \in Statuses : c \in Nat
    /\ OK \in Statuses /\ InternalServerError \in Statuses /\ 0 \in Statuses /\ Codes \subseteq Statuses
BY Params DEF Statuses, OK, InternalServerError

\* An element's kind tells which record it is.
LEMMA KindOf ==
    ASSUME NEW w \in Writers
    PROVE  /\ w.kind \in Kinds \cup {"wire"}
           /\ w.kind = "wire" <=> w \in Wires
           /\ w.kind = "recover" <=> w \in RecoverWriters
           /\ w.kind = "access" <=> w \in AccessWriters
           /\ w.kind = "payload" <=> w \in PayloadWriters
           /\ w.kind \in Kinds <=> w \in Layers
           /\ w.code \in Statuses /\ w.hijacked \in BOOLEAN
BY DEF Writers, Layers, Wires, RecoverWriters, AccessWriters, PayloadWriters, Kinds

\* net/http keeps a wire a wire, and does not misuse one that is not hijacked.
LEMMA CommitFacts ==
    ASSUME NEW w \in Wires, NEW c \in Statuses
    PROVE  /\ Commit(w, c) \in Wires
           /\ Commit(w, c).hijacked = w.hijacked /\ Commit(w, c).headers = w.headers
           /\ Commit(w, c).body = w.body
           /\ Commit(w, c).flusher = w.flusher /\ Commit(w, c).hijacker = w.hijacker
           /\ ~ w.hijacked => Commit(w, c).misused = w.misused
BY StatusType DEF Commit, Wires

\* What WriteHeader makes of an element.
LEMMA OnWriteHeaderFacts ==
    ASSUME NEW w \in Writers, NEW c \in Statuses
    PROVE  /\ OnWriteHeader(w, c) \in Writers
           /\ OnWriteHeader(w, c).kind = w.kind /\ OnWriteHeader(w, c).hijacked = w.hijacked
           /\ w.kind = "wire" /\ ~ w.hijacked => OnWriteHeader(w, c).misused = w.misused
<1>1. CASE w.kind = "wire"
  <2>1. w \in Wires /\ OnWriteHeader(w, c) = Commit(w, c)
    BY <1>1, KindOf DEF OnWriteHeader
  <2>2. Commit(w, c) \in Wires
    BY <2>1, CommitFacts
  <2>3. Commit(w, c).kind = "wire"
    BY <2>2 DEF Wires
  <2>4. QED
    BY <1>1, <2>1, <2>2, <2>3, CommitFacts DEF Writers
<1>2. CASE w.kind = "payload"
  <2>1. w \in PayloadWriters /\ OnWriteHeader(w, c) = [w EXCEPT !.code = c]
    BY <1>2, KindOf DEF OnWriteHeader
  <2>2. QED
    BY <1>2, <2>1 DEF Writers, Layers, PayloadWriters
<1>3. CASE w.kind = "access"
  <2>1. w \in AccessWriters
        /\ OnWriteHeader(w, c) = IF w.wrote THEN w ELSE [w EXCEPT !.code = c, !.wrote = TRUE]
    BY <1>3, KindOf DEF OnWriteHeader
  <2>2. QED
    BY <1>3, <2>1 DEF Writers, Layers, AccessWriters
<1>4. CASE w.kind = "recover"
  <2>1. w \in RecoverWriters
        /\ OnWriteHeader(w, c) = IF w.wrote THEN w ELSE [w EXCEPT !.code = c, !.wrote = TRUE]
    BY <1>4, KindOf DEF OnWriteHeader
  <2>2. QED
    BY <1>4, <2>1 DEF Writers, Layers, RecoverWriters
<1>5. QED
  BY <1>1, <1>2, <1>3, <1>4, KindOf DEF Kinds

\* What the payload log keeps of a write.
LEMMA CaptureFacts ==
    ASSUME NEW i \in PayloadWriters, NEW b \in Seq(Nat)
    PROVE  Capture(i, b) \in PayloadWriters /\ Capture(i, b).hijacked = i.hijacked
<1> DEFINE remaining == i.maxResponse - Len(i.response)
           part == SubSeq(b, 1, Min({Len(b), remaining}))
<1>1. remaining \in Int /\ i.response \in Seq(Nat)
  BY DEF PayloadWriters
<1>2. Len(b) \in Nat /\ Len(b) \in Int
  OBVIOUS
<1> HIDE DEF remaining
<1>3. remaining > 0 => part \in Seq(Nat)
  <2>1. PICK m : m = Min({Len(b), remaining})
    OBVIOUS
  <2>2. remaining > 0 => m \in Nat /\ m <= Len(b)
    <3>1. PICK n \in Int : n = Len(b) /\ n >= 0
      BY <1>2
    <3>2. m = IF n <= remaining THEN n ELSE remaining
      BY <1>1, <2>1, <3>1, MinOfTwo
    <3>3. QED
      BY <1>1, <3>1, <3>2
  <2>3. m \in Nat /\ m <= Len(b) => SubSeq(b, 1, m) \in Seq(Nat)
    OBVIOUS
  <2>4. QED
    BY <2>1, <2>2, <2>3
<1>4. /\ i.response \o b \in Seq(Nat)
      /\ remaining > 0 => i.response \o part \in Seq(Nat)
  <2>1. \A p, q \in Seq(Nat) : p \o q \in Seq(Nat)
    OBVIOUS
  <2> HIDE DEF part
  <2>2. QED
    BY <1>1, <1>3, <2>1
<1> HIDE DEF part
<1>5. Capture(i, b) \in
        {i, [i EXCEPT !.response = @ \o b], [i EXCEPT !.responseTruncated = TRUE]}
        \cup IF remaining > 0
             THEN {[i EXCEPT !.response = @ \o part,
                             !.responseTruncated = @ \/ Len(b) > remaining]}
             ELSE {}
  BY DEF Capture, part, remaining
<1>6. QED
  BY <1>1, <1>4, <1>5 DEF PayloadWriters

\* What Write makes of an element.
LEMMA OnWriteFacts ==
    ASSUME NEW w \in Writers, NEW b \in Seq(Nat)
    PROVE  /\ OnWrite(w, b) \in Writers
           /\ OnWrite(w, b).kind = w.kind /\ OnWrite(w, b).hijacked = w.hijacked
           /\ w.kind = "wire" /\ ~ w.hijacked => OnWrite(w, b).misused = w.misused
<1>1. CASE w.kind = "wire"
  <2>1. w \in Wires /\ OnWrite(w, b) = IF w.hijacked THEN Commit(w, OK)
                                       ELSE [Commit(w, OK) EXCEPT !.body = @ \o b]
    BY <1>1, KindOf DEF OnWrite
  <2>2. PICK v \in Wires : v = Commit(w, OK) /\ v.hijacked = w.hijacked
                           /\ (~ w.hijacked => v.misused = w.misused)
    BY <2>1, StatusType, CommitFacts
  <2>3. v.body \o b \in Seq(Nat)
    BY DEF Wires
  <2>4. [v EXCEPT !.body = @ \o b] \in Wires /\ [v EXCEPT !.body = @ \o b].hijacked = v.hijacked
        /\ [v EXCEPT !.body = @ \o b].misused = v.misused
    BY <2>3 DEF Wires
  <2>5. \A u \in Wires : u.kind = "wire" /\ u \in Writers
    BY DEF Writers, Wires
  <2>6. QED
    BY <1>1, <2>1, <2>2, <2>4, <2>5
<1>2. CASE w.kind = "payload"
  <2>1. w \in PayloadWriters /\ OnWrite(w, b) = Capture(w, b)
    BY <1>2, KindOf DEF OnWrite
  <2>2. Capture(w, b) \in PayloadWriters /\ Capture(w, b).hijacked = w.hijacked
    BY <2>1, CaptureFacts
  <2>3. \A u \in PayloadWriters : u.kind = "payload" /\ u \in Writers
    BY DEF Writers, Layers, PayloadWriters
  <2>4. QED
    BY <1>2, <2>1, <2>2, <2>3
<1>3. CASE w.kind = "access"
  <2>1. OnWrite(w, b) = OnWriteHeader(w, OK)
    BY <1>3 DEF OnWrite
  <2>2. QED
    BY <1>3, <2>1, StatusType, OnWriteHeaderFacts
<1>4. CASE w.kind = "recover"
  <2>1. w \in RecoverWriters
        /\ OnWrite(w, b) = [OnWriteHeader(w, OK) EXCEPT !.body = @ \o b]
        /\ OnWriteHeader(w, OK) = IF w.wrote THEN w ELSE [w EXCEPT !.code = OK, !.wrote = TRUE]
    BY <1>4, KindOf DEF OnWrite, OnWriteHeader
  <2>2. PICK v \in RecoverWriters : v = OnWriteHeader(w, OK) /\ v.hijacked = w.hijacked
    BY <2>1, StatusType DEF RecoverWriters
  <2>3. v.body \o b \in Seq(Nat)
    BY DEF RecoverWriters
  <2>4. [v EXCEPT !.body = @ \o b] \in RecoverWriters
        /\ [v EXCEPT !.body = @ \o b].hijacked = v.hijacked
        /\ [v EXCEPT !.body = @ \o b].kind = "recover"
    BY <2>3 DEF RecoverWriters
  <2>5. QED
    BY <1>4, <2>1, <2>2, <2>4 DEF Writers, Layers
<1>5. QED
  BY <1>1, <1>2, <1>3, <1>4, KindOf DEF Kinds

-----------------------------------------------------------------------------
(* The calls of a ResponseWriter *)

\* A chain whose elements keep their kinds is still a chain.
LEMMA ChainKept ==
    ASSUME NEW ch, IsChain(ch), NEW ch2,
           DOMAIN ch2 = DOMAIN ch, ch2 = [j \in DOMAIN ch2 |-> ch2[j]],
           \A j \in 1..Len(ch) : ch2[j] \in Writers /\ ch2[j].kind = ch[j].kind
    PROVE  IsChain(ch2) /\ Len(ch2) = Len(ch)
<1>1. Len(ch) \in Nat /\ DOMAIN ch = 1..Len(ch)
  BY DEF IsChain
<1>2. ch2 \in [1..Len(ch) -> Writers]
  BY <1>1
<1>3. ch2 \in Seq(Writers) /\ Len(ch2) = Len(ch)
  BY <1>1, <1>2
<1>4. \A j \in 1..Len(ch) : ch[j] \in Writers
  BY DEF IsChain
<1>5. \A j \in 1..Len(ch) : /\ ch2[j] \in Layers <=> ch[j] \in Layers
                            /\ ch2[j] \in Wires <=> ch[j] \in Wires
  BY <1>4, KindOf
<1>6. QED
  BY <1>1, <1>3, <1>5 DEF IsChain

\* What is kept of a chain by the calls of a handler that has not hijacked.
Keeps(ch, ch2) ==
    /\ IsChain(ch2) /\ Len(ch2) = Len(ch)
    /\ \A j \in 1..Len(ch) : ch2[j].kind = ch[j].kind /\ ch2[j].hijacked = ch[j].hijacked
    /\ ~ Outermost(ch).hijacked => Outermost(ch2).misused = Outermost(ch).misused

\* The same, element by element.
LEMMA KeepsEach ==
    ASSUME NEW ch, IsChain(ch), NEW ch2,
           DOMAIN ch2 = DOMAIN ch, ch2 = [j \in DOMAIN ch2 |-> ch2[j]],
           \A j \in 1..Len(ch) :
               /\ ch2[j] \in Writers /\ ch2[j].kind = ch[j].kind /\ ch2[j].hijacked = ch[j].hijacked
               /\ ch[j].kind = "wire" /\ ~ ch[j].hijacked => ch2[j].misused = ch[j].misused
    PROVE  Keeps(ch, ch2)
<1>1. IsChain(ch2) /\ Len(ch2) = Len(ch)
  BY ChainKept
<1>2. Len(ch) \in 1..Len(ch) /\ ch[Len(ch)].kind = "wire"
  BY DEF IsChain, Wires
<1>3. QED
  BY <1>1, <1>2 DEF Keeps, Outermost

\* WriteHeader.
LEMMA WriteHeaderKeeps ==
    ASSUME NEW ch, IsChain(ch), NEW k, NEW c \in Statuses
    PROVE  Keeps(ch, WriteHeader(ch, k, c))
<1> DEFINE passes(w) == w.kind = "payload" \/ (w.kind = "access" /\ ~w.wrote)
           reached == Reach(ch, k, passes)
           ch2 == [j \in DOMAIN ch |-> IF j \in reached THEN OnWriteHeader(ch[j], c) ELSE ch[j]]
<1>1. WriteHeader(ch, k, c) = ch2
  BY DEF WriteHeader
<1> HIDE DEF reached
<1>2. \A j \in 1..Len(ch) : ch[j] \in Writers /\ j \in DOMAIN ch
  BY DEF IsChain
<1>3. \A j \in 1..Len(ch) : ch2[j] \in {ch[j], OnWriteHeader(ch[j], c)}
  BY <1>2
<1>4. DOMAIN ch2 = DOMAIN ch /\ ch2 = [j \in DOMAIN ch2 |-> ch2[j]]
  OBVIOUS
<1> HIDE DEF ch2
<1>5. QED
  BY <1>1, <1>2, <1>3, <1>4, OnWriteHeaderFacts, KeepsEach

\* Write.
LEMMA WriteKeeps ==
    ASSUME NEW ch, IsChain(ch), NEW k, NEW b \in Seq(Nat)
    PROVE  Keeps(ch, Write(ch, k, b))
<1> DEFINE passes(w) == w.kind # "recover"
           reached == Reach(ch, k, passes)
           ch2 == [j \in DOMAIN ch |-> IF j \in reached THEN OnWrite(ch[j], b) ELSE ch[j]]
<1>1. Write(ch, k, b) = ch2
  BY DEF Write
<1> HIDE DEF reached
<1>2. \A j \in 1..Len(ch) : ch[j] \in Writers /\ j \in DOMAIN ch
  BY DEF IsChain
<1>3. \A j \in 1..Len(ch) : ch2[j] \in {ch[j], OnWrite(ch[j], b)}
  BY <1>2
<1>4. DOMAIN ch2 = DOMAIN ch /\ ch2 = [j \in DOMAIN ch2 |-> ch2[j]]
  OBVIOUS
<1> HIDE DEF ch2
<1>5. QED
  BY <1>1, <1>2, <1>3, <1>4, OnWriteFacts, KeepsEach

\* An element that keeps its record but for one replaced by its like.
LEMMA KeepsOne ==
    ASSUME NEW ch, IsChain(ch), NEW o \in 1..Len(ch), NEW w,
           w \in Writers, w.kind = ch[o].kind, w.hijacked = ch[o].hijacked,
           ch[o].kind = "wire" /\ ~ ch[o].hijacked => w.misused = ch[o].misused
    PROVE  Keeps(ch, [ch EXCEPT ![o] = w])
<1> DEFINE ch2 == [ch EXCEPT ![o] = w]
<1>1. \A j \in 1..Len(ch) : ch[j] \in Writers /\ j \in DOMAIN ch
  BY DEF IsChain
<1>2. \A j \in 1..Len(ch) : ch2[j] = IF j = o THEN w ELSE ch[j]
  BY <1>1
<1>3. DOMAIN ch2 = DOMAIN ch /\ ch2 = [j \in DOMAIN ch2 |-> ch2[j]]
  OBVIOUS
<1> HIDE DEF ch2
<1>4. Keeps(ch, ch2)
  BY <1>1, <1>2, <1>3, KeepsEach
<1>5. QED
  BY <1>4 DEF ch2

\* Some element has the header map.
LEMMA OwnerFacts ==
    ASSUME NEW ch, IsChain(ch), NEW k \in 1..Len(ch)
    PROVE  /\ HeaderOwner(ch, k) \in k..Len(ch)
           /\ ch[HeaderOwner(ch, k)].kind \in {"recover", "wire"}
           /\ \A j \in k..Len(ch) : ch[j].kind \in {"recover", "wire"} => HeaderOwner(ch, k) <= j
<1> DEFINE T == {j \in k..Len(ch) : ch[j].kind \in {"recover", "wire"}}
<1>1. Len(ch) \in T /\ T \in SUBSET Nat
  BY DEF IsChain, Wires
<1>2. Min(T) \in T /\ \A j \in T : Min(T) <= j
  BY <1>1, LeastNatural DEF Min
<1>3. HeaderOwner(ch, k) = Min(T)
  BY DEF HeaderOwner
<1>4. QED
  BY <1>2, <1>3

\* Header.
LEMMA HeaderKeeps ==
    ASSUME NEW ch, IsChain(ch), NEW k \in 1..Len(ch)
    PROVE  Keeps(ch, Header(ch, k))
<1>1. PICK o \in 1..Len(ch) : o = HeaderOwner(ch, k)
  BY OwnerFacts
<1>2. Keeps(ch, ch)
  BY DEF Keeps
<1>3. CASE ch[o].kind = "recover" /\ ~ ch[o].cloned
  <2>1. ch[o] \in RecoverWriters /\ Outermost(ch).headers \in HeaderSets
    BY <1>3, KindOf DEF IsChain, Outermost, Wires
  <2>2. ASSUME NEW v \in RecoverWriters, NEW hs \in HeaderSets
        PROVE  LET w == [v EXCEPT !.cloned = TRUE, !.headers = hs]
               IN  w \in RecoverWriters /\ w.kind = v.kind /\ w.hijacked = v.hijacked
    BY DEF RecoverWriters
  <2>3. PICK w : /\ w = [ch[o] EXCEPT !.cloned = TRUE, !.headers = Outermost(ch).headers]
                 /\ w \in RecoverWriters /\ w.kind = ch[o].kind /\ w.hijacked = ch[o].hijacked
    BY <2>1, <2>2
  <2>4. Header(ch, k) = [ch EXCEPT ![o] = w]
    BY <1>1, <1>3, <2>3 DEF Header
  <2>5. w \in Writers
    BY <2>3 DEF Writers, Layers
  <2>6. Keeps(ch, [ch EXCEPT ![o] = w])
    BY <1>3, <2>3, <2>5, KeepsOne
  <2>7. QED
    BY <2>4, <2>6
<1>4. CASE ~ (ch[o].kind = "recover" /\ ~ ch[o].cloned)
  BY <1>1, <1>2, <1>4 DEF Header
<1>5. QED
  BY <1>3, <1>4

\* One call after another.
LEMMA KeepsTrans ==
    ASSUME NEW a, NEW b, NEW c, IsChain(a), Keeps(a, b), Keeps(b, c)
    PROVE  Keeps(a, c)
<1>1. Len(a) \in 1..Len(a) /\ Len(b) = Len(a) /\ Len(c) = Len(a)
  BY DEF IsChain, Keeps
<1>2. Outermost(b).hijacked = Outermost(a).hijacked
  BY <1>1 DEF Keeps, Outermost
<1>3. QED
  BY <1>1, <1>2 DEF Keeps

\* Add, Set and Del on the header map.
LEMMA SetHeadersKeeps ==
    ASSUME NEW ch, IsChain(ch), NEW k \in 1..Len(ch), NEW add \in HeaderSets, NEW del \in HeaderSets
    PROVE  Keeps(ch, SetHeaders(ch, k, add, del))
<1>1. PICK o \in 1..Len(ch) : o = HeaderOwner(ch, k) /\ ch[o].kind \in {"recover", "wire"}
  BY OwnerFacts
<1>2. PICK hd : hd = Header(ch, k) /\ Keeps(ch, hd)
  BY HeaderKeeps
<1>3. IsChain(hd) /\ Len(hd) = Len(ch) /\ hd[o].kind = ch[o].kind /\ hd[o] \in Writers
  BY <1>2 DEF Keeps, IsChain
<1>4. ASSUME NEW v \in RecoverWriters \cup Wires
      PROVE  LET w == [v EXCEPT !.headers = (@ \cup add) \ del]
             IN  /\ w \in RecoverWriters \cup Wires /\ w.kind = v.kind /\ w.hijacked = v.hijacked
                 /\ v.kind = "wire" => w.misused = v.misused
  <2>1. CASE v \in RecoverWriters
    BY <2>1 DEF RecoverWriters, HeaderSets
  <2>2. CASE v \in Wires
    BY <2>2 DEF Wires, HeaderSets
  <2>3. QED
    BY <2>1, <2>2
<1>5. hd[o] \in RecoverWriters \cup Wires
  BY <1>1, <1>3, KindOf
<1>6. PICK w : w = [hd[o] EXCEPT !.headers = (@ \cup add) \ del]
  OBVIOUS
<1>7. /\ w \in RecoverWriters \cup Wires /\ w.kind = hd[o].kind /\ w.hijacked = hd[o].hijacked
      /\ hd[o].kind = "wire" => w.misused = hd[o].misused
  BY <1>4, <1>5, <1>6
<1>8. SetHeaders(ch, k, add, del) = [hd EXCEPT ![o] = w]
  BY <1>1, <1>2, <1>6 DEF SetHeaders
<1>9. w \in Writers
  BY <1>7 DEF Writers, Layers
<1>10. Keeps(hd, [hd EXCEPT ![o] = w])
  BY <1>1, <1>3, <1>7, <1>9, KeepsOne
<1>11. QED
  BY <1>2, <1>8, <1>10, KeepsTrans

\* Flush.
LEMMA FlushKeeps ==
    ASSUME NEW ch, IsChain(ch)
    PROVE  Keeps(ch, Flush(ch))
<1>1. PICK o \in 1..Len(ch) : o = Len(ch) /\ ch[o] \in Wires
  BY DEF IsChain
<1>2. PICK w : w = Commit(ch[o], OK)
  OBVIOUS
<1>3. w \in Wires /\ w.hijacked = ch[o].hijacked /\ (~ ch[o].hijacked => w.misused = ch[o].misused)
  BY <1>1, <1>2, CommitFacts, StatusType
<1>4. Flush(ch) = [ch EXCEPT ![o] = w]
  BY <1>1, <1>2 DEF Flush
<1>5. w \in Writers /\ w.kind = ch[o].kind
  BY <1>1, <1>3 DEF Writers, Wires
<1>6. Keeps(ch, [ch EXCEPT ![o] = w])
  BY <1>1, <1>3, <1>5, KeepsOne
<1>7. QED
  BY <1>4, <1>6

\* What the payload log keeps of a read.
Tee(i, n) ==
    LET remaining == i.maxRequest - i.request
    IN  CASE i.maxRequest = 0 -> i
          [] i.maxRequest < 0 -> [i EXCEPT !.request = @ + n]
          [] OTHER -> [i EXCEPT !.request = @ + Min({n, remaining}),
                                !.requestTruncated = @ \/ n > remaining]

\* Its capture grows by what was read, up to the cap.
LEMMA TeeFacts ==
    ASSUME NEW i \in PayloadWriters, NEW n \in Nat
    PROVE  /\ Tee(i, n) \in PayloadWriters /\ Tee(i, n).hijacked = i.hijacked
           /\ Tee(i, n).maxRequest = i.maxRequest
           /\ i.maxRequest > 0 => /\ Tee(i, n).request = IF n <= i.maxRequest - i.request
                                                         THEN i.request + n ELSE i.maxRequest
                                  /\ Tee(i, n).requestTruncated <=>
                                         i.requestTruncated \/ n > i.maxRequest - i.request
<1>1. PICK r \in Int : r = i.maxRequest - i.request
  BY DEF PayloadWriters
<1>a. n \in Int
  OBVIOUS
<1>2. PICK m : m = Min({n, r})
  OBVIOUS
<1>b. Min({n, r}) = IF n <= r THEN n ELSE r
  BY <1>a, MinOfTwo
<1>3. m = IF n <= r THEN n ELSE r
  BY <1>2, <1>b
<1>4. i.request \in Nat /\ i.maxRequest \in Int /\ i.requestTruncated \in BOOLEAN
  BY DEF PayloadWriters
<1>5. CASE i.maxRequest = 0
  BY <1>5 DEF Tee
<1>6. CASE i.maxRequest < 0
  <2>1. PICK q \in Nat : q = i.request + n
    BY <1>4
  <2>2. Tee(i, n) = [i EXCEPT !.request = q]
    BY <1>4, <1>6, <2>1 DEF Tee
  <2>3. Tee(i, n) \in PayloadWriters /\ Tee(i, n).hijacked = i.hijacked
        /\ Tee(i, n).maxRequest = i.maxRequest
    BY <2>2 DEF PayloadWriters
  <2>4. ~ (i.maxRequest > 0)
    BY <1>4, <1>6
  <2>5. QED
    BY <2>3, <2>4
<1>7. CASE i.maxRequest > 0
  <2>1. i.request + m = IF n <= r THEN i.request + n ELSE i.maxRequest
    BY <1>1, <1>3, <1>4
  <2>2. PICK q \in Nat : q = i.request + m
    BY <1>4, <1>7, <2>1
  <2>3. PICK t \in BOOLEAN : t = (i.requestTruncated \/ n > r)
    OBVIOUS
  <2>4. Tee(i, n) = [i EXCEPT !.request = q, !.requestTruncated = t]
    BY <1>1, <1>2, <1>4, <1>7, <2>2, <2>3 DEF Tee
  <2>5. Tee(i, n) \in PayloadWriters /\ Tee(i, n).hijacked = i.hijacked
        /\ Tee(i, n).maxRequest = i.maxRequest /\ Tee(i, n).request = q
        /\ Tee(i, n).requestTruncated = t
    BY <2>4 DEF PayloadWriters
  <2>6. q = IF n <= i.maxRequest - i.request THEN i.request + n ELSE i.maxRequest
    BY <1>1, <2>1, <2>2
  <2>7. QED
    BY <1>1, <2>3, <2>5, <2>6
<1>8. QED
  BY <1>4, <1>5, <1>6, <1>7

\* A read of the request body.
LEMMA ReadKeeps ==
    ASSUME NEW ch, IsChain(ch), NEW n \in Nat
    PROVE  Keeps(ch, Read(ch, n))
<1> DEFINE ch2 == [j \in DOMAIN ch |-> IF ch[j].kind = "payload" THEN Tee(ch[j], n) ELSE ch[j]]
<1>1. Read(ch, n) = ch2
  BY DEF Read, Tee
<1>2. \A j \in 1..Len(ch) : /\ ch[j] \in Writers /\ j \in DOMAIN ch
                            /\ ch[j].kind = "payload" => ch[j] \in PayloadWriters /\ j \in 1..(Len(ch) - 1)
  <2>1. ch[Len(ch)].kind # "payload" /\ Len(ch) \in Nat
    BY DEF IsChain, Wires
  <2>2. QED
    BY <2>1, KindOf DEF IsChain
<1>3. \A j \in 1..Len(ch) : ch2[j] = IF ch[j].kind = "payload" THEN Tee(ch[j], n) ELSE ch[j]
  BY <1>2
<1>4. DOMAIN ch2 = DOMAIN ch /\ ch2 = [j \in DOMAIN ch2 |-> ch2[j]]
  OBVIOUS
<1> HIDE DEF ch2
<1>5. ASSUME NEW j \in 1..Len(ch), ch[j].kind = "payload"
      PROVE  ch2[j] \in Writers /\ ch2[j].kind = "payload" /\ ch2[j].hijacked = ch[j].hijacked
  <2>1. PICK i \in PayloadWriters : i = ch[j]
    BY <1>2, <1>5
  <2>2. ch2[j] = Tee(i, n)
    BY <1>3, <1>5, <2>1
  <2>3. ch2[j] \in PayloadWriters /\ ch2[j].hijacked = ch[j].hijacked
    BY <2>1, <2>2, TeeFacts
  <2>4. QED
    BY <2>3 DEF Writers, Layers, PayloadWriters
<1>6. Keeps(ch, ch2)
  BY <1>2, <1>3, <1>4, <1>5, KeepsEach
<1>7. QED
  BY <1>1, <1>6

\* Hijack: every middleware's element is marked, whether it succeeds or not.
LEMMA HijackFacts ==
    ASSUME NEW ch, IsChain(ch), NEW ok \in BOOLEAN
    PROVE  /\ IsChain(Hijack(ch, ok)) /\ Len(Hijack(ch, ok)) = Len(ch)
           /\ \A j \in 1..Len(ch) : Hijack(ch, ok)[j].kind = ch[j].kind
           /\ \A j \in 1..(Len(ch) - 1) : Hijack(ch, ok)[j].hijacked
           /\ Outermost(Hijack(ch, ok)).hijacked = ok
           /\ Outermost(Hijack(ch, ok)).misused = Outermost(ch).misused
<1> DEFINE ch2 == Hijack(ch, ok)
<1>1. \A j \in 1..Len(ch) : ch[j] \in Writers /\ j \in DOMAIN ch
  BY DEF IsChain
<1>2. \A j \in 1..Len(ch) : ch2[j] = [ch[j] EXCEPT !.hijacked = IF j < Len(ch) THEN TRUE ELSE ok]
  BY <1>1 DEF Hijack
<1>3. ASSUME NEW v \in Writers, NEW h \in BOOLEAN
      PROVE  LET w == [v EXCEPT !.hijacked = h]
             IN  /\ w \in Writers /\ w.kind = v.kind /\ w.hijacked = h
                 /\ v.kind = "wire" => w.misused = v.misused
  <2>1. CASE v \in Wires
    BY <2>1 DEF Writers, Wires
  <2>2. CASE v \in RecoverWriters
    BY <2>2 DEF Writers, Layers, RecoverWriters
  <2>3. CASE v \in AccessWriters
    BY <2>3 DEF Writers, Layers, AccessWriters
  <2>4. CASE v \in PayloadWriters
    BY <2>4 DEF Writers, Layers, PayloadWriters
  <2>5. QED
    BY <2>1, <2>2, <2>3, <2>4 DEF Writers, Layers
<1>4. DOMAIN ch2 = DOMAIN ch /\ ch2 = [j \in DOMAIN ch2 |-> ch2[j]]
  BY DEF Hijack
<1> HIDE DEF ch2
<1>5. ASSUME NEW j \in 1..Len(ch)
      PROVE  /\ ch2[j] \in Writers /\ ch2[j].kind = ch[j].kind
             /\ j < Len(ch) => ch2[j].hijacked
             /\ j = Len(ch) => ch2[j].hijacked = ok
             /\ ch[j].kind = "wire" => ch2[j].misused = ch[j].misused
  <2>1. PICK h \in BOOLEAN : h = IF j < Len(ch) THEN TRUE ELSE ok
    OBVIOUS
  <2>2. Len(ch) \in Nat /\ ~ (Len(ch) < Len(ch))
    BY DEF IsChain
  <2>3. (j < Len(ch) => h) /\ (j = Len(ch) => h = ok)
    BY <2>1, <2>2
  <2>4. ch2[j] = [ch[j] EXCEPT !.hijacked = h] /\ ch[j] \in Writers
    BY <1>1, <1>2, <2>1
  <2>5. QED
    BY <1>3, <2>3, <2>4
<1>6. IsChain(ch2) /\ Len(ch2) = Len(ch)
  BY <1>4, <1>5, ChainKept
<1>7. Len(ch) \in 1..Len(ch) /\ ch[Len(ch)].kind = "wire" /\ Len(ch) \in Nat
  BY DEF IsChain, Wires
<1>8. Outermost(ch2).hijacked = ok /\ Outermost(ch2).misused = Outermost(ch).misused
  BY <1>5, <1>6, <1>7 DEF Outermost
<1>9. \A j \in 1..(Len(ch) - 1) : ch2[j].hijacked
  BY <1>5, <1>7
<1>10. QED
  BY <1>5, <1>6, <1>8, <1>9 DEF ch2

\* It changes nothing but the marks.
LEMMA HijackRecord ==
    ASSUME NEW ch, IsChain(ch), NEW ok \in BOOLEAN
    PROVE  /\ \A j \in 1..(Len(ch) - 1) : Hijack(ch, ok)[j] = [ch[j] EXCEPT !.hijacked = TRUE]
           /\ Outermost(Hijack(ch, ok)) = [Outermost(ch) EXCEPT !.hijacked = ok]
<1>1. Len(ch) \in 1..Len(ch) /\ DOMAIN ch = 1..Len(ch) /\ ~ (Len(ch) < Len(ch)) /\ Len(ch) \in Nat
  BY DEF IsChain
<1>2. Len(Hijack(ch, ok)) = Len(ch)
  BY HijackFacts
<1>3. Hijack(ch, ok)[Len(ch)] = [ch[Len(ch)] EXCEPT !.hijacked = ok]
  BY <1>1 DEF Hijack
<1>4. \A j \in 1..(Len(ch) - 1) : Hijack(ch, ok)[j] = [ch[j] EXCEPT !.hijacked = TRUE]
  <2> SUFFICES ASSUME NEW j \in 1..(Len(ch) - 1) PROVE Hijack(ch, ok)[j] = [ch[j] EXCEPT !.hijacked = TRUE]
    OBVIOUS
  <2>1. j \in DOMAIN ch /\ j < Len(ch)
    BY <1>1
  <2>2. QED
    BY <2>1 DEF Hijack
<1>5. QED
  BY <1>2, <1>3, <1>4 DEF Outermost

-----------------------------------------------------------------------------
(* Types, and hijacked connections *)

Moments == {"handler", "unwind", "done", "aborted", "crashed"}

TypeInv ==
    /\ IsChain(chain) /\ IsChain(bare) /\ Len(bare) = 1
    /\ pc \in Moments /\ depth \in 1..Len(chain)
    /\ panicking \in Endings /\ ending \in Endings
    /\ lines = [k \in 1..(Len(chain) - 1) |-> lines[k]]
    /\ lost \in 0..(Len(chain) - 1) /\ read \in Nat /\ ops \in 0..MaxOps

\* A connection the handler has hijacked is marked in every middleware's element.
HijackInv ==
    /\ ~ wire.misused
    /\ wire.hijacked => \A k \in Middleware : chain[k].hijacked

\* A fresh chain.
LEMMA InitFacts == Init => TypeInv /\ HijackInv
<1> SUFFICES ASSUME Init PROVE TypeInv /\ HijackInv
  OBVIOUS
<1>1. PICK stack \in Stacks, f \in Flushers, h \in Hijackers :
      \E layers \in [DOMAIN stack -> UNION {Middlewares(k) : k \in Kinds}] :
        /\ \A k \in DOMAIN stack : layers[k] \in Middlewares(stack[k])
        /\ chain = Append(layers, Wire(f, h))
        /\ bare = <<Wire(f, h)>>
        /\ pc = "handler" /\ depth = 1 /\ panicking = "no" /\ ending = "no"
        /\ lines = [k \in DOMAIN stack |-> <<>>]
        /\ lost = 0 /\ read = 0 /\ ops = 0
  BY DEF Init
<1>2. PICK layers \in [DOMAIN stack -> UNION {Middlewares(k) : k \in Kinds}] :
        /\ \A k \in DOMAIN stack : layers[k] \in Middlewares(stack[k])
        /\ chain = Append(layers, Wire(f, h))
        /\ bare = <<Wire(f, h)>>
        /\ pc = "handler" /\ depth = 1 /\ panicking = "no" /\ ending = "no"
        /\ lines = [k \in DOMAIN stack |-> <<>>]
        /\ lost = 0 /\ read = 0 /\ ops = 0
  BY <1>1
<1>3. PICK n \in Nat : n = Len(stack) /\ DOMAIN stack = 1..n /\ \A k \in 1..n : stack[k] \in Kinds
  BY Params
<1>4. PICK w : w = Wire(f, h)
  OBVIOUS
<1>5. w \in Wires /\ ~ w.hijacked /\ ~ w.misused
  <2>1. f \in BOOLEAN /\ h \in BOOLEAN /\ <<>> \in Seq(Nat)
    BY Params
  <2>2. QED
    BY <1>4, <2>1, StatusType DEF Wire, Wires, HeaderSets
<1>6. ASSUME NEW k \in Kinds, NEW x \in Middlewares(k) PROVE x \in Layers
  <2>1. CASE k = "recover"
    <3>1. x = recoverResponseWriter
      BY <1>6, <2>1 DEF Middlewares
    <3>2. QED
      BY <3>1, StatusType DEF recoverResponseWriter, Layers, RecoverWriters, HeaderSets
  <2>2. CASE k = "access"
    <3>1. x = accessResponseWriter
      BY <1>6, <2>2 DEF Middlewares
    <3>2. QED
      BY <3>1, StatusType DEF accessResponseWriter, Layers, AccessWriters
  <2>3. CASE k = "payload"
    <3>1. PICK c \in Caps : x = newInterceptorWithConfig(c[1], c[2])
      BY <1>6, <2>3 DEF Middlewares
    <3>2. c[1] \in Int /\ c[2] \in Int
      BY Params
    <3>3. QED
      BY <3>1, <3>2, StatusType DEF newInterceptorWithConfig, Layers, PayloadWriters
  <2>4. QED
    BY <2>1, <2>2, <2>3 DEF Kinds
<1>7. layers \in [1..n -> Layers]
  BY <1>2, <1>3, <1>6
<1>8. layers \in Seq(Writers) /\ Len(layers) = n
  BY <1>7 DEF Writers
<1>9. chain \in Seq(Writers) /\ Len(chain) = n + 1 /\ chain[n + 1] = w /\ \A k \in 1..n : chain[k] = layers[k]
  BY <1>2, <1>4, <1>5, <1>8 DEF Writers
<1>10. IsChain(chain)
  BY <1>5, <1>7, <1>9 DEF IsChain
<1>11. bare \in Seq(Writers) /\ Len(bare) = 1 /\ bare[1] = w
  BY <1>2, <1>4, <1>5 DEF Writers
<1>12. IsChain(bare)
  BY <1>5, <1>11 DEF IsChain
<1>13. HijackInv
  BY <1>5, <1>9 DEF HijackInv, wire, Outermost
<1>14. lines = [k \in 1..(Len(chain) - 1) |-> lines[k]]
  BY <1>2, <1>3, <1>9
<1>15. QED
  BY <1>2, <1>9, <1>10, <1>11, <1>12, <1>13, <1>14, Params DEF TypeInv, Moments, Endings

\* Calls that keep the chain keep hijacked connections untouched.
LEMMA HijackKept ==
    ASSUME TypeInv, HijackInv, Keeps(chain, chain'), ~ wire.hijacked \/ chain' = chain
    PROVE  HijackInv'
<1>1. CASE chain' = chain
  BY <1>1 DEF HijackInv, wire, Outermost, Middleware
<1>2. CASE ~ wire.hijacked
  <2>1. Len(chain) \in 1..Len(chain) /\ Len(chain') = Len(chain)
    BY DEF TypeInv, IsChain, Keeps
  <2>2. chain'[Len(chain')].hijacked = chain[Len(chain)].hijacked
        /\ chain'[Len(chain')].misused = chain[Len(chain)].misused
    BY <1>2, <2>1 DEF Keeps, wire, Outermost
  <2>3. QED
    BY <1>2, <2>2 DEF HijackInv, wire, Outermost
<1>3. QED
  BY <1>1, <1>2

\* One call of the handler.
LEMMA CallTypes ==
    ASSUME TypeInv, HijackInv, NEW op, Call(op), Keeps(chain, chain'), Keeps(bare, bare'), read' \in Nat
    PROVE  TypeInv' /\ HijackInv'
<1>1. /\ ~ wire.hijacked /\ ops' \in 0..MaxOps
      /\ UNCHANGED <<pc, depth, panicking, ending, lines, lost>>
  BY Params DEF Call, wire, TypeInv
<1>2. HijackInv'
  BY <1>1, HijackKept
<1>3. TypeInv'
  BY <1>1 DEF TypeInv, Keeps
<1>4. QED
  BY <1>2, <1>3

\* The handler's calls.
LEMMA CallsKeep ==
    ASSUME TypeInv, HijackInv,
           CallWriteHeader \/ CallWrite \/ CallHeader \/ CallRead \/ CallFlush
    PROVE  /\ Keeps(chain, chain') /\ Keeps(bare, bare') /\ read' \in Nat
           /\ \E op : Call(op)
<1>1. /\ IsChain(chain) /\ IsChain(bare) /\ 1 \in 1..Len(chain) /\ 1 \in 1..Len(bare)
      /\ Keeps(bare, bare) /\ read \in Nat
  BY DEF TypeInv, Keeps, IsChain
<1>2. CASE CallWriteHeader
  <2>1. PICK c \in Codes : chain' = WriteHeader(chain, 1, c) /\ bare' = WriteHeader(bare, 1, c)
    BY <1>2 DEF CallWriteHeader
  <2>2. Keeps(chain, chain') /\ Keeps(bare, bare')
    BY <1>1, <2>1, StatusType, WriteHeaderKeeps
  <2>3. (\E op : Call(op)) /\ read' = read
    BY <1>2 DEF CallWriteHeader
  <2>4. QED
    BY <1>1, <2>2, <2>3
<1>3. CASE CallWrite
  <2>1. PICK n \in 0..MaxWrite :
          LET b == [i \in 1..n |-> Len(bare[1].body) + i]
          IN  /\ Call(IF n = 0 THEN "empty" ELSE "write")
              /\ chain' = Write(chain, 1, b)
              /\ bare' = Write(bare, 1, b)
              /\ UNCHANGED read
    BY <1>3 DEF CallWrite
  <2>2. PICK b : b = [i \in 1..n |-> Len(bare[1].body) + i]
    OBVIOUS
  <2>3. b \in Seq(Nat)
    <3>1. bare[1].body \in Seq(Nat)
      BY DEF TypeInv, IsChain, Wires
    <3>2. n \in Nat /\ b \in [1..n -> Nat]
      BY <2>2, <3>1, Params
    <3>3. QED
      BY <3>2
  <2>4. chain' = Write(chain, 1, b) /\ bare' = Write(bare, 1, b) /\ read' = read /\ \E op : Call(op)
    BY <2>1, <2>2
  <2>5. QED
    BY <1>1, <2>3, <2>4, WriteKeeps
<1>4. CASE CallHeader
  <2>1. PICK add \in HeaderSets, del \in HeaderSets : EditHeader(add, del)
    BY <1>4 DEF CallHeader, HeaderSets
  <2>2. /\ chain' = SetHeaders(chain, 1, add, del) /\ bare' = SetHeaders(bare, 1, add, del)
        /\ read' = read
    BY <2>1 DEF EditHeader
  <2>3. \E op : Call(op)
    BY <1>4 DEF CallHeader
  <2>4. QED
    BY <1>1, <2>2, <2>3, SetHeadersKeeps
<1>5. CASE CallRead
  <2>1. PICK n \in 1..MaxWrite : read' = read + n /\ chain' = Read(chain, n)
    BY <1>5 DEF CallRead
  <2>2. n \in Nat
    BY <2>1, Params
  <2>3. bare' = bare /\ \E op : Call(op)
    BY <1>5 DEF CallRead
  <2>4. QED
    BY <1>1, <2>1, <2>2, <2>3, ReadKeeps
<1>6. CASE CallFlush
  <2>1. chain' = Flush(chain) /\ bare' = Flush(bare) /\ read' = read /\ \E op : Call(op)
    BY <1>6 DEF CallFlush
  <2>2. QED
    BY <1>1, <2>1, FlushKeeps
<1>7. QED
  BY <1>2, <1>3, <1>4, <1>5, <1>6

\* Hijack of the connection, or in vain.
LEMMA CallHijackTypes ==
    ASSUME TypeInv, HijackInv, CallHijack
    PROVE  TypeInv' /\ HijackInv'
<1>1. PICK ok \in BOOLEAN :
        /\ \E op : Call(op)
        /\ chain' = Hijack(chain, ok) /\ bare' = Hijack(bare, ok) /\ read' = read
  BY DEF CallHijack
<1>2. /\ ops' \in 0..MaxOps /\ UNCHANGED <<pc, depth, panicking, ending, lines, lost>>
  BY <1>1, Params DEF Call, TypeInv
<1>3. IsChain(chain) /\ IsChain(bare)
  BY DEF TypeInv
<1>4. /\ IsChain(chain') /\ Len(chain') = Len(chain) /\ IsChain(bare') /\ Len(bare') = Len(bare)
      /\ \A j \in 1..(Len(chain) - 1) : chain'[j].hijacked
      /\ Outermost(chain').misused = Outermost(chain).misused
  BY <1>1, <1>3, HijackFacts
<1>5. TypeInv'
  BY <1>1, <1>2, <1>4 DEF TypeInv
<1>6. HijackInv'
  <2>1. ~ wire'.misused
    BY <1>4 DEF HijackInv, wire
  <2>2. \A k \in Middleware' : chain'[k].hijacked
    BY <1>4 DEF Middleware
  <2>3. QED
    BY <2>1, <2>2 DEF HijackInv
<1>7. QED
  BY <1>5, <1>6

\* Flushing the buffered response outwards.
LEMMA FlushToKeeps ==
    ASSUME NEW ch, IsChain(ch), NEW k \in 1..(Len(ch) - 1), ch[k] \in RecoverWriters
    PROVE  Keeps(ch, flushTo(ch, k))
<1> DEFINE rrw == ch[k]
           headed == IF rrw.cloned THEN SetHeaders(ch, k + 1, rrw.headers, {}) ELSE ch
           coded == IF rrw.wrote THEN WriteHeader(headed, k + 1, rrw.code) ELSE headed
<1>1. flushTo(ch, k) = Write(coded, k + 1, rrw.body)
  BY DEF flushTo
<1>2. /\ rrw.headers \in HeaderSets /\ {} \in HeaderSets /\ rrw.code \in Statuses
      /\ rrw.body \in Seq(Nat) /\ k + 1 \in 1..Len(ch)
  BY DEF RecoverWriters, HeaderSets, IsChain
<1> HIDE DEF rrw
<1>3. Keeps(ch, ch)
  BY DEF Keeps
<1>4. Keeps(ch, headed)
  <2>1. Keeps(ch, SetHeaders(ch, k + 1, rrw.headers, {}))
    BY <1>2, SetHeadersKeeps
  <2>2. QED
    BY <1>3, <2>1
<1> HIDE DEF headed
<1>5. IsChain(headed) /\ Len(headed) = Len(ch)
  BY <1>4 DEF Keeps
<1>6. Keeps(ch, coded)
  <2>1. Keeps(headed, WriteHeader(headed, k + 1, rrw.code))
    BY <1>2, <1>5, WriteHeaderKeeps
  <2>2. QED
    BY <1>4, <2>1, KeepsTrans
<1> HIDE DEF coded
<1>7. IsChain(coded)
  BY <1>6 DEF Keeps
<1>8. Keeps(coded, Write(coded, k + 1, rrw.body))
  BY <1>2, <1>7, WriteKeeps
<1>9. QED
  BY <1>1, <1>6, <1>8, KeepsTrans

\* The fallback of a recovered panic.
LEMMA FallbackKeeps ==
    ASSUME NEW ch, IsChain(ch), NEW k \in 1..Len(ch)
    PROVE  Keeps(ch, Write(WriteHeader(SetHeaders(ch, k, {"fallback"}, {}), k, InternalServerError),
                           k, Fallback))
<1>1. PICK a : a = SetHeaders(ch, k, {"fallback"}, {})
  OBVIOUS
<1>2. PICK b : b = WriteHeader(a, k, InternalServerError)
  OBVIOUS
<1>3. Keeps(ch, a) /\ IsChain(a)
  BY <1>1, SetHeadersKeeps DEF HeaderSets, Keeps
<1>4. Keeps(a, b) /\ IsChain(b)
  BY <1>2, <1>3, StatusType, WriteHeaderKeeps DEF Keeps
<1>5. Fallback \in Seq(Nat)
  BY DEF Fallback
<1>6. Keeps(b, Write(b, k, Fallback))
  BY <1>4, <1>5, WriteKeeps
<1>7. QED
  BY <1>1, <1>2, <1>3, <1>4, <1>6, KeepsTrans

\* Asking for a header map never touches the wire.
LEMMA HeaderSparesWire ==
    ASSUME NEW ch, IsChain(ch), NEW k \in 1..Len(ch)
    PROVE  Outermost(Header(ch, k)) = Outermost(ch)
<1>1. PICK o \in 1..Len(ch) : o = HeaderOwner(ch, k)
  BY OwnerFacts
<1>2. CASE ch[o].kind = "recover" /\ ~ ch[o].cloned
  <2>1. o # Len(ch) /\ Len(ch) \in 1..Len(ch)
    BY <1>2 DEF IsChain, Wires
  <2>2. PICK w : w = [ch[o] EXCEPT !.cloned = TRUE, !.headers = Outermost(ch).headers]
    OBVIOUS
  <2>3. Header(ch, k) = [ch EXCEPT ![o] = w]
    BY <1>1, <1>2, <2>2 DEF Header
  <2>4. Len(Header(ch, k)) = Len(ch)
    BY HeaderKeeps DEF Keeps
  <2>5. [ch EXCEPT ![o] = w][Len(ch)] = ch[Len(ch)]
    BY <2>1 DEF IsChain
  <2>6. QED
    BY <2>3, <2>4, <2>5 DEF Outermost
<1>3. CASE ~ (ch[o].kind = "recover" /\ ~ ch[o].cloned)
  BY <1>1, <1>3 DEF Header
<1>4. QED
  BY <1>2, <1>3

\* What the payload log does to the response after next.
LEMMA PayloadEndKeeps ==
    ASSUME TypeInv, HijackInv, PayloadEnd, depth < Len(chain)
    PROVE  Keeps(chain, chain') /\ HijackInv'
<1> DEFINE flushed == IF panicking = "no" /\ ~chain[depth].hijacked /\ Outermost(chain).flusher
                      THEN Flush(chain) ELSE chain
<1>1. chain' = Header(flushed, depth + 1)
  BY DEF PayloadEnd
<1>2. IsChain(chain) /\ depth + 1 \in 1..Len(chain) /\ depth \in Middleware
  BY DEF TypeInv, Middleware, IsChain
<1>3. Keeps(chain, flushed)
  BY <1>2, FlushKeeps DEF Keeps
<1>4. IsChain(flushed) /\ Len(flushed) = Len(chain)
  BY <1>3 DEF Keeps
<1>5. wire.hijacked => flushed = chain
  BY <1>2 DEF HijackInv
<1> HIDE DEF flushed
<1>6. Keeps(flushed, chain') /\ Outermost(chain') = Outermost(flushed)
  BY <1>1, <1>2, <1>4, HeaderKeeps, HeaderSparesWire
<1>7. Keeps(chain, chain')
  BY <1>2, <1>3, <1>6, KeepsTrans
<1>8. CASE ~ wire.hijacked
  BY <1>7, <1>8, HijackKept
<1>9. CASE wire.hijacked
  <2>1. wire' = wire
    BY <1>5, <1>6, <1>9 DEF wire
  <2>2. \A k \in Middleware' : chain'[k].hijacked = chain[k].hijacked /\ k \in Middleware
    BY <1>2, <1>7 DEF Keeps, Middleware, IsChain
  <2>3. QED
    BY <1>7, <2>1, <2>2 DEF HijackInv
<1>10. QED
  BY <1>7, <1>8, <1>9

\* A line is added to one log.
LEMMA LogsFacts ==
    ASSUME TypeInv, depth < Len(chain), NEW line, Logs(line)
    PROVE  /\ lines' = [k \in 1..(Len(chain) - 1) |-> lines'[k]]
           /\ \A k \in 1..(Len(chain) - 1) : k # depth => lines'[k] = lines[k]
           /\ lines'[depth] = Append(lines[depth], line)
<1>1. depth \in 1..(Len(chain) - 1) /\ DOMAIN lines = 1..(Len(chain) - 1)
  BY DEF TypeInv, IsChain
<1>2. QED
  BY <1>1 DEF Logs

\* One middleware after next returned or panicked.
LEMMA MiddlewareTypes ==
    ASSUME TypeInv, HijackInv,
           \/ RecoverClean \/ RecoverPanic \/ RecoverAbort \/ AccessReturn \/ PayloadReturn
           \/ RecoverSinkPanics \/ AccessSinkPanics \/ PayloadSinkPanics
    PROVE  TypeInv' /\ HijackInv' /\ Keeps(chain, chain')
<1> DEFINE Proceeds == \/ depth' = depth + 1 /\ pc' = pc
                       \/ depth' = depth /\ pc' = "crashed"
<1>1. /\ pc = "unwind" /\ depth < Len(chain) /\ UNCHANGED <<bare, ending, read, ops>>
      /\ Proceeds /\ lost' \in {lost, depth}
      /\ panicking' \in {"no", "panic", panicking}
      /\ \/ lines' = lines
         \/ \E line : Logs(line)
  <2>1. CASE RecoverClean
    BY <2>1 DEF RecoverClean, Unwinding
  <2>2. CASE RecoverPanic
    BY <2>2 DEF RecoverPanic, Unwinding
  <2>3. CASE RecoverAbort
    BY <2>3 DEF RecoverAbort, Unwinding
  <2>4. CASE AccessReturn
    BY <2>4 DEF AccessReturn, Unwinding
  <2>5. CASE PayloadReturn
    BY <2>5 DEF PayloadReturn, PayloadLine, Unwinding
  <2>6. CASE RecoverSinkPanics
    BY <2>6 DEF RecoverSinkPanics, PanicsInline, PanicsAside, SinkPanic
  <2>7. CASE AccessSinkPanics
    BY <2>7 DEF AccessSinkPanics, PanicsInline, SinkPanic
  <2>8. CASE PayloadSinkPanics
    BY <2>8 DEF PayloadSinkPanics, PayloadLine, PanicsInline, PanicsAside, SinkPanic
  <2>9. QED
    BY <2>1, <2>2, <2>3, <2>4, <2>5, <2>6, <2>7, <2>8
<1>2. IsChain(chain) /\ depth \in 1..(Len(chain) - 1) /\ depth + 1 \in 1..Len(chain)
  BY <1>1 DEF TypeInv, IsChain
<1>3. Keeps(chain, chain) /\ (wire.hijacked => chain[depth].hijacked)
  BY <1>2 DEF Keeps, HijackInv, Middleware
<1>4. Keeps(chain, chain') /\ HijackInv'
  <2>1. CASE RecoverClean
    <3>1. chain[depth] \in RecoverWriters /\ chain' = IF chain[depth].hijacked THEN chain ELSE flushTo(chain, depth)
      BY <1>2, <2>1, KindOf DEF RecoverClean, Unwinding, IsChain
    <3>2. Keeps(chain, chain') /\ (~ wire.hijacked \/ chain' = chain)
      BY <1>2, <1>3, <3>1, FlushToKeeps
    <3>3. QED
      BY <3>2, HijackKept
  <2>2. CASE RecoverPanic
    <3>1. chain' = IF chain[depth].hijacked THEN chain
                   ELSE Write(WriteHeader(SetHeaders(chain, depth + 1, {"fallback"}, {}),
                                          depth + 1, InternalServerError), depth + 1, Fallback)
      BY <2>2 DEF RecoverPanic
    <3>2. Keeps(chain, chain') /\ (~ wire.hijacked \/ chain' = chain)
      BY <1>2, <1>3, <3>1, FallbackKeeps
    <3>3. QED
      BY <3>2, HijackKept
  <2>3. CASE PayloadReturn \/ PayloadSinkPanics
    BY <1>1, <2>3, PayloadEndKeeps DEF PayloadReturn, PayloadSinkPanics
  <2>4. CASE RecoverAbort \/ AccessReturn \/ RecoverSinkPanics \/ AccessSinkPanics
    <3>1. chain' = chain
      BY <2>4 DEF RecoverAbort, AccessReturn, RecoverSinkPanics, AccessSinkPanics
    <3>2. QED
      BY <1>3, <3>1, HijackKept
  <2>5. QED
    BY <2>1, <2>2, <2>3, <2>4
<1>5. Len(chain') = Len(chain) /\ IsChain(chain')
  BY <1>4 DEF Keeps
<1>6. lines' = [k \in 1..(Len(chain) - 1) |-> lines'[k]]
  BY <1>1, LogsFacts DEF TypeInv
<1>7. depth' \in 1..Len(chain) /\ pc' \in Moments
  BY <1>1, <1>2 DEF TypeInv, Moments
<1>8. lost' \in 0..(Len(chain) - 1) /\ panicking' \in Endings
  BY <1>1, <1>2 DEF TypeInv, Endings
<1>9. TypeInv'
  BY <1>1, <1>5, <1>6, <1>7, <1>8 DEF TypeInv
<1>10. QED
  BY <1>4, <1>9

\* The end of the request.
LEMMA ServeTypes ==
    ASSUME TypeInv, HijackInv, Serve
    PROVE  TypeInv' /\ HijackInv'
<1> DEFINE finish(ch) == IF Outermost(ch).hijacked THEN ch ELSE Flush(ch)
<1>1. /\ \/ pc' = "done" /\ chain' = finish(chain) /\ bare' = finish(bare)
         \/ pc' = "aborted" /\ chain' = chain /\ bare' = bare
      /\ UNCHANGED <<depth, panicking, ending, lines, lost, read, ops>>
  BY DEF Serve
<1>2. ASSUME NEW ch, IsChain(ch) PROVE Keeps(ch, finish(ch)) /\ Keeps(ch, ch)
  BY <1>2, FlushKeeps DEF Keeps
<1>3. IsChain(chain) /\ IsChain(bare)
  BY DEF TypeInv
<1>4. Keeps(chain, chain') /\ Keeps(bare, bare') /\ (~ wire.hijacked \/ chain' = chain)
  BY <1>1, <1>2, <1>3 DEF wire
<1>5. HijackInv'
  BY <1>4, HijackKept
<1>6. TypeInv'
  BY <1>1, <1>4 DEF TypeInv, Keeps, Moments
<1>7. QED
  BY <1>5, <1>6

\* Every step keeps the types, and hijacked connections untouched.
LEMMA TypeInvStep == TypeInv /\ HijackInv /\ [Next]_vars => TypeInv' /\ HijackInv'
<1> SUFFICES ASSUME TypeInv, HijackInv, [Next]_vars PROVE TypeInv' /\ HijackInv'
  OBVIOUS
<1>1. CASE CallWriteHeader \/ CallWrite \/ CallHeader \/ CallRead \/ CallFlush
  BY <1>1, CallsKeep, CallTypes
<1>2. CASE CallHijack
  BY <1>2, CallHijackTypes
<1>3. CASE End
  <2>1. /\ UNCHANGED <<chain, bare, depth, lines, lost, read, ops>>
        /\ pc' \in Moments /\ panicking' \in Endings /\ ending' \in Endings
    BY <1>3 DEF End, Moments, Endings
  <2>2. QED
    BY <2>1 DEF TypeInv, HijackInv, wire, Outermost, Middleware
<1>4. CASE \/ RecoverClean \/ RecoverPanic \/ RecoverAbort \/ AccessReturn \/ PayloadReturn
           \/ RecoverSinkPanics \/ AccessSinkPanics \/ PayloadSinkPanics
  BY <1>4, MiddlewareTypes
<1>5. CASE Serve
  BY <1>5, ServeTypes
<1>6. CASE UNCHANGED vars
  BY <1>6 DEF vars, TypeInv, HijackInv, wire, Outermost, Middleware
<1>7. QED
  BY <1>1, <1>2, <1>3, <1>4, <1>5, <1>6 DEF Next

\* Both hold in every behaviour.
LEMMA TypeInvAlways == Spec => [](TypeInv /\ HijackInv)
<1>1. Init => TypeInv /\ HijackInv
  BY InitFacts
<1>2. QED
  BY <1>1, TypeInvStep, PTL DEF Spec

\* In every stack, and for every handler, the writers keep their types.
THEOREM TypeCorrect == Spec => []TypeOK
<1>1. TypeInv => TypeOK
  <2> SUFFICES ASSUME TypeInv PROVE TypeOK
    OBVIOUS
  <2>1. \A k \in Middleware : chain[k].kind \in Kinds /\ chain[k].code \in Codes \cup {0, OK, InternalServerError}
    BY DEF TypeInv, IsChain, Middleware, Layers, RecoverWriters, AccessWriters, PayloadWriters, Kinds, Statuses
  <2>2. wire.kind = "wire" /\ bare[1].kind = "wire" /\ Len(bare) = 1
    BY DEF TypeInv, IsChain, wire, Outermost, Wires
  <2>3. DOMAIN lines = Middleware
    BY DEF TypeInv, Middleware
  <2>4. QED
    BY <2>1, <2>2, <2>3 DEF TypeInv, TypeOK, Moments, Endings
<1>2. QED
  BY <1>1, TypeInvAlways, PTL

\* In no stack of middlewares, in any order, is a connection that the handler has
\* hijacked written to or flushed: not when the handler returns, nor when it or the
\* sink of a log panics.
THEOREM HijackersAreLeftAlone == Spec => []HijackRespected
<1>1. HijackInv => HijackRespected
  BY DEF HijackInv, HijackRespected
<1>2. QED
  BY <1>1, TypeInvAlways, PTL

-----------------------------------------------------------------------------
(* How far a call gets *)

\* No element from k on is a recover handler's.
ClearFrom(ch, k) == \A j \in k..(Len(ch) - 1) : ch[j].kind # "recover"

\* What is outside r stays as it is.
Spares(ch, ch2, r) == \A j \in (r + 1)..Len(ch) : ch2[j] = ch[j]

\* A recover handler lets no status through,
LEMMA WriteHeaderSpares ==
    ASSUME NEW ch, IsChain(ch), NEW r \in 1..(Len(ch) - 1), ch[r].kind = "recover",
           NEW k \in 1..r, NEW c
    PROVE  Spares(ch, WriteHeader(ch, k, c), r)
<1> SUFFICES ASSUME NEW j \in (r + 1)..Len(ch) PROVE WriteHeader(ch, k, c)[j] = ch[j]
  BY DEF Spares
<1>1. j \in DOMAIN ch /\ r \in k..(j - 1)
  BY DEF IsChain
<1>2. QED
  BY <1>1 DEF WriteHeader, Reach

\* no byte of a body,
LEMMA WriteSpares ==
    ASSUME NEW ch, IsChain(ch), NEW r \in 1..(Len(ch) - 1), ch[r].kind = "recover",
           NEW k \in 1..r, NEW b
    PROVE  Spares(ch, Write(ch, k, b), r)
<1> SUFFICES ASSUME NEW j \in (r + 1)..Len(ch) PROVE Write(ch, k, b)[j] = ch[j]
  BY DEF Spares
<1>1. j \in DOMAIN ch /\ r \in k..(j - 1)
  BY DEF IsChain
<1>2. QED
  BY <1>1 DEF Write, Reach

\* and no header.
LEMMA HeaderSpares ==
    ASSUME NEW ch, IsChain(ch), NEW r \in 1..(Len(ch) - 1), ch[r].kind = "recover",
           NEW k \in 1..r
    PROVE  HeaderOwner(ch, k) \in k..r /\ Spares(ch, Header(ch, k), r)
<1>1. k \in 1..Len(ch) /\ r \in k..Len(ch)
  BY DEF IsChain
<1>2. PICK o \in k..r : o = HeaderOwner(ch, k)
  BY <1>1, OwnerFacts
<1>3. \A j \in (r + 1)..Len(ch) : j # o
  BY <1>2
<1>4. CASE ch[o].kind = "recover" /\ ~ ch[o].cloned
  <2>1. PICK w : w = [ch[o] EXCEPT !.cloned = TRUE, !.headers = Outermost(ch).headers]
    OBVIOUS
  <2>2. Header(ch, k) = [ch EXCEPT ![o] = w]
    BY <1>2, <1>4, <2>1 DEF Header
  <2>3. \A j \in (r + 1)..Len(ch) : [ch EXCEPT ![o] = w][j] = ch[j]
    BY <1>3 DEF IsChain
  <2>4. QED
    BY <1>2, <2>2, <2>3 DEF Spares
<1>5. CASE ~ (ch[o].kind = "recover" /\ ~ ch[o].cloned)
  BY <1>2, <1>5 DEF Header, Spares
<1>6. QED
  BY <1>4, <1>5

\* The same for Add, Set and Del.
LEMMA SetHeadersSpares ==
    ASSUME NEW ch, IsChain(ch), NEW r \in 1..(Len(ch) - 1), ch[r].kind = "recover",
           NEW k \in 1..r, NEW add, NEW del
    PROVE  Spares(ch, SetHeaders(ch, k, add, del), r)
<1>1. PICK o \in k..r : o = HeaderOwner(ch, k)
  BY HeaderSpares
<1>2. PICK hd : hd = Header(ch, k) /\ Spares(ch, hd, r)
  BY HeaderSpares
<1>3. PICK w : w = [hd[o] EXCEPT !.headers = (@ \cup add) \ del]
  OBVIOUS
<1>4. SetHeaders(ch, k, add, del) = [hd EXCEPT ![o] = w]
  BY <1>1, <1>2, <1>3 DEF SetHeaders
<1>5. k \in 1..Len(ch) /\ Keeps(ch, hd)
  BY <1>2, HeaderKeeps DEF IsChain
<1>6. \A j \in (r + 1)..Len(ch) : j # o /\ [hd EXCEPT ![o] = w][j] = hd[j]
  BY <1>1, <1>5 DEF Keeps, IsChain
<1>7. QED
  BY <1>2, <1>4, <1>6 DEF Spares

\* Beyond every recover handler Header is the map of the wire,
LEMMA SetHeadersOutside ==
    ASSUME NEW ch, IsChain(ch), NEW k \in 1..Len(ch), ClearFrom(ch, k), NEW add, NEW del
    PROVE  /\ HeaderOwner(ch, k) = Len(ch) /\ Header(ch, k) = ch
           /\ \A j \in 1..(Len(ch) - 1) : SetHeaders(ch, k, add, del)[j] = ch[j]
           /\ Len(SetHeaders(ch, k, add, del)) = Len(ch)
           /\ Outermost(SetHeaders(ch, k, add, del)) =
                  [Outermost(ch) EXCEPT !.headers = (@ \cup add) \ del]
<1>1. Len(ch) \in 1..Len(ch) /\ ch[Len(ch)].kind = "wire" /\ Len(ch) \in Nat
  BY DEF IsChain, Wires
<1>2. HeaderOwner(ch, k) = Len(ch)
  <2>1. PICK o \in k..Len(ch) : o = HeaderOwner(ch, k) /\ ch[o].kind \in {"recover", "wire"}
    BY OwnerFacts
  <2>2. \A j \in k..(Len(ch) - 1) : ch[j].kind \notin {"recover", "wire"}
    BY KindOf DEF ClearFrom, IsChain, Layers, RecoverWriters, AccessWriters, PayloadWriters
  <2>3. QED
    BY <1>1, <2>1, <2>2
<1>3. Header(ch, k) = ch
  BY <1>1, <1>2 DEF Header
<1>4. PICK w : w = [ch[Len(ch)] EXCEPT !.headers = (@ \cup add) \ del]
  OBVIOUS
<1>5. SetHeaders(ch, k, add, del) = [ch EXCEPT ![Len(ch)] = w]
  BY <1>2, <1>3, <1>4 DEF SetHeaders
<1>6. PICK ch2 : ch2 = [ch EXCEPT ![Len(ch)] = w]
  OBVIOUS
<1>7. ch2[Len(ch)] = w /\ Len(ch2) = Len(ch) /\ \A j \in 1..(Len(ch) - 1) : ch2[j] = ch[j]
  BY <1>1, <1>6 DEF IsChain
<1>8. QED
  BY <1>2, <1>3, <1>4, <1>5, <1>6, <1>7 DEF Outermost

\* a status gets to the wire past the access logs that have seen none,
LEMMA WriteHeaderOutside ==
    ASSUME NEW ch, IsChain(ch), NEW k \in 1..Len(ch), ClearFrom(ch, k), NEW c \in Statuses,
           \A j \in k..(Len(ch) - 1) : ch[j].kind = "access" => ~ ch[j].wrote
    PROVE  /\ Outermost(WriteHeader(ch, k, c)) = Commit(Outermost(ch), c)
           /\ \A j \in k..Len(ch) : WriteHeader(ch, k, c)[j] = OnWriteHeader(ch[j], c)
           /\ \A j \in 1..(k - 1) : WriteHeader(ch, k, c)[j] = ch[j]
<1>1. Len(ch) \in k..Len(ch) /\ ch[Len(ch)].kind = "wire" /\ DOMAIN ch = 1..Len(ch)
  BY DEF IsChain, Wires
<1>2. \A j \in k..(Len(ch) - 1) : ch[j].kind = "payload" \/ (ch[j].kind = "access" /\ ~ ch[j].wrote)
  BY DEF ClearFrom, IsChain, Layers, RecoverWriters, AccessWriters, PayloadWriters
<1>3. \A j \in k..Len(ch) : WriteHeader(ch, k, c)[j] = OnWriteHeader(ch[j], c)
  <2> SUFFICES ASSUME NEW j \in k..Len(ch) PROVE WriteHeader(ch, k, c)[j] = OnWriteHeader(ch[j], c)
    OBVIOUS
  <2>1. j \in DOMAIN ch /\ \A i \in k..(j - 1) : i \in k..(Len(ch) - 1)
    BY <1>1
  <2>2. QED
    BY <1>2, <2>1 DEF WriteHeader, Reach
<1>4. \A j \in 1..(k - 1) : WriteHeader(ch, k, c)[j] = ch[j]
  <2> SUFFICES ASSUME NEW j \in 1..(k - 1) PROVE WriteHeader(ch, k, c)[j] = ch[j]
    OBVIOUS
  <2>1. j \in DOMAIN ch /\ j \notin k..Len(ch)
    BY <1>1
  <2>2. QED
    BY <2>1 DEF WriteHeader, Reach
<1>5. OnWriteHeader(ch[Len(ch)], c) = Commit(ch[Len(ch)], c)
  BY <1>1 DEF OnWriteHeader
<1>6. Len(WriteHeader(ch, k, c)) = Len(ch)
  BY WriteHeaderKeeps DEF Keeps
<1>7. QED
  BY <1>1, <1>3, <1>4, <1>5, <1>6 DEF Outermost

\* and the body past everything.
LEMMA WriteOutside ==
    ASSUME NEW ch, IsChain(ch), NEW k \in 1..Len(ch), ClearFrom(ch, k), NEW b \in Seq(Nat)
    PROVE  /\ Outermost(Write(ch, k, b)) = OnWrite(Outermost(ch), b)
           /\ \A j \in k..Len(ch) : Write(ch, k, b)[j] = OnWrite(ch[j], b)
           /\ \A j \in 1..(k - 1) : Write(ch, k, b)[j] = ch[j]
<1>1. Len(ch) \in k..Len(ch) /\ DOMAIN ch = 1..Len(ch) /\ Len(ch) \in Nat
  BY DEF IsChain
<1>3. \A j \in k..Len(ch) : Write(ch, k, b)[j] = OnWrite(ch[j], b)
  <2> SUFFICES ASSUME NEW j \in k..Len(ch) PROVE Write(ch, k, b)[j] = OnWrite(ch[j], b)
    OBVIOUS
  <2>1. j \in DOMAIN ch /\ \A i \in k..(j - 1) : i \in k..(Len(ch) - 1)
    BY <1>1
  <2>2. QED
    BY <2>1 DEF Write, Reach, ClearFrom
<1>4. \A j \in 1..(k - 1) : Write(ch, k, b)[j] = ch[j]
  <2> SUFFICES ASSUME NEW j \in 1..(k - 1) PROVE Write(ch, k, b)[j] = ch[j]
    OBVIOUS
  <2>1. j \in DOMAIN ch /\ j \notin k..Len(ch)
    BY <1>1
  <2>2. QED
    BY <2>1 DEF Write, Reach
<1>6. Len(Write(ch, k, b)) = Len(ch)
  BY WriteKeeps DEF Keeps
<1>7. QED
  BY <1>1, <1>3, <1>4, <1>6 DEF Outermost

-----------------------------------------------------------------------------
(* The course of a request *)

\* A request starts with fresh writers in a composition of Stacks.
LEMMA InitShape ==
    Init => /\ Stack \in Stacks
            /\ \A k \in Middleware : chain[k] \in Middlewares(chain[k].kind) /\ lines[k] = <<>>
            /\ \E f \in BOOLEAN, h \in BOOLEAN : wire = Wire(f, h) /\ bare[1] = Wire(f, h)
            /\ pc = "handler" /\ depth = 1 /\ panicking = "no" /\ ending = "no" /\ lost = 0
<1> SUFFICES ASSUME Init
             PROVE  /\ Stack \in Stacks
                    /\ \A k \in Middleware : chain[k] \in Middlewares(chain[k].kind) /\ lines[k] = <<>>
                    /\ \E f \in BOOLEAN, h \in BOOLEAN : wire = Wire(f, h) /\ bare[1] = Wire(f, h)
                    /\ pc = "handler" /\ depth = 1 /\ panicking = "no" /\ ending = "no" /\ lost = 0
  OBVIOUS
<1>1. PICK stack \in Stacks, f \in Flushers, h \in Hijackers :
      \E layers \in [DOMAIN stack -> UNION {Middlewares(k) : k \in Kinds}] :
        /\ \A k \in DOMAIN stack : layers[k] \in Middlewares(stack[k])
        /\ chain = Append(layers, Wire(f, h))
        /\ bare = <<Wire(f, h)>>
        /\ lines = [k \in DOMAIN stack |-> <<>>]
  BY DEF Init
<1>2. PICK layers \in [DOMAIN stack -> UNION {Middlewares(k) : k \in Kinds}] :
        /\ \A k \in DOMAIN stack : layers[k] \in Middlewares(stack[k])
        /\ chain = Append(layers, Wire(f, h))
        /\ bare = <<Wire(f, h)>>
        /\ lines = [k \in DOMAIN stack |-> <<>>]
  BY <1>1
<1>3. PICK n \in Nat : n = Len(stack) /\ DOMAIN stack = 1..n /\ \A k \in 1..n : stack[k] \in Kinds
  BY Params
<1>4. PICK w : w = Wire(f, h)
  OBVIOUS
<1>5. layers \in [1..n -> UNION {Middlewares(k) : k \in Kinds}] /\ chain = Append(layers, w)
  BY <1>2, <1>3, <1>4
<1>6. Len(layers) = n /\ layers \in Seq(UNION {Middlewares(k) : k \in Kinds})
  BY <1>5
<1>7. Len(chain) = n + 1 /\ chain[n + 1] = w /\ \A k \in 1..n : chain[k] = layers[k]
  BY <1>5, <1>6
<1>8. ASSUME NEW k \in Kinds, NEW x \in Middlewares(k) PROVE x.kind = k
  BY <1>8 DEF Middlewares, Kinds, recoverResponseWriter, accessResponseWriter, newInterceptorWithConfig
<1>9. \A k \in 1..n : chain[k].kind = stack[k] /\ chain[k] \in Middlewares(stack[k])
  BY <1>2, <1>3, <1>7, <1>8
<1>10. Middleware = 1..n
  BY <1>3, <1>7 DEF Middleware
<1>11. Stack = stack
  <2>1. Stack = [k \in 1..n |-> chain[k].kind]
    BY <1>7 DEF Stack
  <2>2. stack = [k \in 1..n |-> stack[k]]
    BY <1>3, Params
  <2>3. QED
    BY <1>9, <2>1, <2>2
<1>12. wire = Wire(f, h) /\ bare[1] = Wire(f, h)
  BY <1>2, <1>4, <1>7 DEF wire, Outermost
<1>13. f \in BOOLEAN /\ h \in BOOLEAN
  BY Params
<1>14. \A k \in Middleware : lines[k] = <<>>
  BY <1>2, <1>3, <1>10
<1>15. QED
  BY <1>9, <1>10, <1>11, <1>12, <1>13, <1>14 DEF Init

\* Where a request is, how its handler ended, and what unwinds.
FlowInv ==
    /\ Stack \in Stacks
    /\ pc = "handler" => depth = 1 /\ ending = "no" /\ panicking = "no" /\ lost = 0
    /\ pc \in {"done", "aborted"} => depth = Len(chain)
    /\ pc = "done" => panicking = "no"
    /\ pc = "aborted" => panicking # "no"
    /\ pc = "crashed" => lost # 0
    /\ lost = 0 /\ ending # "panic" => panicking = ending
    /\ \A k \in Middleware : k >= depth => lines[k] = <<>>

\* A composition has each kind of middleware once.
LEMMA OneOfAKind ==
    ASSUME FlowInv, NEW i \in Middleware, NEW j \in Middleware, chain[i].kind = chain[j].kind
    PROVE  i = j
<1>1. IsInjective(Stack)
  BY Params DEF FlowInv
<1>2. DOMAIN Stack = Middleware /\ Stack[i] = chain[i].kind /\ Stack[j] = chain[j].kind
  BY DEF Stack, Middleware
<1>3. QED
  BY <1>1, <1>2 DEF IsInjective

\* No step changes the composition.
LEMMA StackKept ==
    ASSUME TypeInv, Keeps(chain, chain')
    PROVE  Stack' = Stack /\ Middleware' = Middleware /\ Len(chain') = Len(chain)
<1>1. Len(chain') = Len(chain) /\ \A k \in 1..(Len(chain) - 1) : chain'[k].kind = chain[k].kind
  BY DEF Keeps, TypeInv, IsChain
<1>2. QED
  BY <1>1 DEF Stack, Middleware

\* One middleware after next: it hands on what unwinds, or ends it, or adds the
\* panic of its log's sink, or that ends the process.
LEMMA UnwindShape ==
    ASSUME TypeInv, HijackInv,
           \/ RecoverClean \/ RecoverPanic \/ RecoverAbort \/ AccessReturn \/ PayloadReturn
           \/ RecoverSinkPanics \/ AccessSinkPanics \/ PayloadSinkPanics
    PROVE  /\ pc = "unwind" /\ depth \in Middleware /\ depth < Len(chain)
           /\ UNCHANGED <<bare, ending, read, ops>> /\ Keeps(chain, chain')
           /\ \/ depth' = depth + 1 /\ pc' = pc
              \/ depth' = depth /\ pc' = "crashed" /\ lost' = depth /\ panicking' = panicking
                 /\ lines' = lines
           /\ \/ lost' = lost /\ panicking' = panicking
              \/ lost' = lost /\ panicking = "panic" /\ panicking' = "no" /\ RecoverPanic
              \/ lost = 0 /\ lost' = depth /\ (panicking' = "panic" \/ pc' = "crashed")
           /\ \A k \in Middleware : k # depth => lines'[k] = lines[k]
           /\ chain[depth].kind = "recover" /\ panicking = "abort"
                  => UNCHANGED <<lines, panicking, chain, lost>>
<1> DEFINE Shape ==
           /\ pc = "unwind" /\ depth < Len(chain) /\ UNCHANGED <<bare, ending, read, ops>>
           /\ \/ depth' = depth + 1 /\ pc' = pc
              \/ depth' = depth /\ pc' = "crashed" /\ lost' = depth /\ panicking' = panicking
                 /\ lines' = lines
           /\ \/ lost' = lost /\ panicking' = panicking
              \/ lost' = lost /\ panicking = "panic" /\ panicking' = "no" /\ RecoverPanic
              \/ lost = 0 /\ lost' = depth /\ (panicking' = "panic" \/ pc' = "crashed")
           /\ lines' = lines \/ \E line : Logs(line)
           /\ chain[depth].kind = "recover" /\ panicking = "abort"
                  => UNCHANGED <<lines, panicking, chain, lost>>
<1>1. Shape
  <2>1. CASE RecoverClean
    BY <2>1 DEF RecoverClean, Unwinding
  <2>2. CASE RecoverPanic
    BY <2>2 DEF RecoverPanic, Unwinding
  <2>3. CASE RecoverAbort
    BY <2>3 DEF RecoverAbort, Unwinding
  <2>4. CASE AccessReturn
    BY <2>4 DEF AccessReturn, Unwinding
  <2>5. CASE PayloadReturn
    BY <2>5 DEF PayloadReturn, PayloadLine, Unwinding
  <2>6. CASE RecoverSinkPanics
    BY <2>6 DEF RecoverSinkPanics, PanicsInline, PanicsAside, SinkPanic
  <2>7. CASE AccessSinkPanics
    BY <2>7 DEF AccessSinkPanics, PanicsInline, SinkPanic
  <2>8. CASE PayloadSinkPanics
    BY <2>8 DEF PayloadSinkPanics, PayloadLine, PanicsInline, PanicsAside, SinkPanic
  <2>9. QED
    BY <2>1, <2>2, <2>3, <2>4, <2>5, <2>6, <2>7, <2>8
<1>2. depth \in Middleware
  BY <1>1 DEF TypeInv, Middleware, IsChain
<1>3. Keeps(chain, chain')
  BY MiddlewareTypes
<1>4. \A k \in Middleware : k # depth => lines'[k] = lines[k]
  <2>1. CASE lines' = lines
    BY <2>1
  <2>2. CASE \E line : Logs(line)
    BY <1>1, <2>2, LogsFacts DEF Middleware
  <2>3. QED
    BY <1>1, <2>1, <2>2
<1>5. QED
  BY <1>1, <1>2, <1>3, <1>4

\* The end of the request.
LEMMA ServeKeeps ==
    ASSUME TypeInv, Serve
    PROVE  Keeps(chain, chain') /\ Keeps(bare, bare')
<1>1. ASSUME NEW ch, IsChain(ch) PROVE Keeps(ch, Flush(ch)) /\ Keeps(ch, ch)
  BY <1>1, FlushKeeps DEF Keeps
<1>2. IsChain(chain) /\ IsChain(bare)
  BY DEF TypeInv
<1>3. chain' \in {chain, Flush(chain)} /\ bare' \in {bare, Flush(bare)}
  BY DEF Serve
<1>4. QED
  BY <1>1, <1>2, <1>3

\* A request starts as FlowInv says.
LEMMA FlowInit == Init => FlowInv
<1> SUFFICES ASSUME Init PROVE FlowInv
  OBVIOUS
<1>1. QED
  BY InitShape DEF FlowInv

\* One call of the handler.
LEMMA FlowCall ==
    ASSUME TypeInv, FlowInv, NEW op, Call(op), Keeps(chain, chain')
    PROVE  FlowInv'
<1>1. Stack' = Stack /\ Middleware' = Middleware /\ Len(chain') = Len(chain)
  BY StackKept
<1>2. pc = "handler" /\ UNCHANGED <<pc, depth, panicking, ending, lines, lost>>
  BY DEF Call
<1>3. QED
  BY <1>1, <1>2 DEF FlowInv

\* The end of a call to Hijack, too.
LEMMA HijackShape ==
    ASSUME TypeInv, CallHijack
    PROVE  /\ \E op : Call(op)
           /\ IsChain(chain') /\ Len(chain') = Len(chain)
           /\ \A j \in 1..Len(chain) : chain'[j].kind = chain[j].kind
           /\ Stack' = Stack /\ Middleware' = Middleware
<1>1. PICK ok \in BOOLEAN : (\E op : Call(op)) /\ chain' = Hijack(chain, ok)
  BY DEF CallHijack
<1>2. IsChain(chain') /\ Len(chain') = Len(chain) /\ \A j \in 1..Len(chain) : chain'[j].kind = chain[j].kind
  <2>1. IsChain(chain)
    BY DEF TypeInv
  <2>2. QED
    BY <1>1, <2>1, HijackFacts
<1>3. \A k \in 1..(Len(chain) - 1) : chain'[k].kind = chain[k].kind
  BY <1>2 DEF TypeInv, IsChain
<1>4. QED
  BY <1>1, <1>2, <1>3 DEF Stack, Middleware

\* Every step goes on as FlowInv says.
LEMMA FlowStep == ASSUME TypeInv, HijackInv, FlowInv, [Next]_vars PROVE FlowInv'
<1>1. CASE CallWriteHeader \/ CallWrite \/ CallHeader \/ CallRead \/ CallFlush
  BY <1>1, CallsKeep, FlowCall
<1>2. CASE CallHijack
  <2>1. pc = "handler" /\ UNCHANGED <<pc, depth, panicking, ending, lines, lost>>
    BY <1>2, HijackShape DEF Call
  <2>2. QED
    BY <1>2, <2>1, HijackShape DEF FlowInv
<1>3. CASE End
  BY <1>3 DEF End, FlowInv, Stack, Middleware
<1>4. CASE \/ RecoverClean \/ RecoverPanic \/ RecoverAbort \/ AccessReturn \/ PayloadReturn
           \/ RecoverSinkPanics \/ AccessSinkPanics \/ PayloadSinkPanics
  <2>1. /\ pc = "unwind" /\ depth \in Middleware /\ depth < Len(chain) /\ ending' = ending
        /\ Keeps(chain, chain')
        /\ \/ depth' = depth + 1 /\ pc' = pc
           \/ depth' = depth /\ pc' = "crashed" /\ lost' = depth /\ panicking' = panicking
              /\ lines' = lines
        /\ \/ lost' = lost /\ panicking' = panicking
           \/ lost' = lost /\ panicking = "panic" /\ panicking' = "no"
           \/ lost = 0 /\ lost' = depth
        /\ \A k \in Middleware : k # depth => lines'[k] = lines[k]
    BY <1>4, UnwindShape
  <2>2. Stack' = Stack /\ Middleware' = Middleware /\ Len(chain') = Len(chain)
    BY <2>1, StackKept
  <2>3. lost' # 0 \/ (lost' = lost /\ pc' = "unwind")
    BY <2>1 DEF Middleware
  <2>4. lost' = 0 /\ ending' # "panic" => panicking' = ending'
    BY <2>1, <2>3 DEF FlowInv, Middleware
  <2>5. \A k \in Middleware : k >= depth' => lines'[k] = <<>>
    <3> SUFFICES ASSUME NEW k \in Middleware, k >= depth' PROVE lines'[k] = <<>>
      OBVIOUS
    <3>1. CASE depth' = depth + 1
      BY <2>1, <3>1 DEF FlowInv, Middleware
    <3>2. CASE lines' = lines /\ depth' = depth
      BY <3>2 DEF FlowInv
    <3>3. QED
      BY <2>1, <3>1, <3>2
  <2>6. pc' \in {"unwind", "crashed"} /\ (pc' = "crashed" => lost' # 0)
    BY <2>1, <2>3
  <2>7. QED
    BY <2>2, <2>4, <2>5, <2>6 DEF FlowInv
<1>5. CASE Serve
  <2>1. /\ pc = "unwind" /\ depth = Len(chain)
        /\ (panicking = "no" /\ pc' = "done") \/ (panicking # "no" /\ pc' = "aborted")
        /\ UNCHANGED <<depth, panicking, ending, lines, lost, read, ops>>
    BY <1>5 DEF Serve
  <2>2. Keeps(chain, chain')
    BY <1>5, ServeKeeps
  <2>3. Stack' = Stack /\ Middleware' = Middleware /\ Len(chain') = Len(chain)
    BY <2>2, StackKept
  <2>4. QED
    BY <2>1, <2>3 DEF FlowInv
<1>6. CASE UNCHANGED vars
  BY <1>6 DEF vars, FlowInv, Stack, Middleware
<1>7. QED
  BY <1>1, <1>2, <1>3, <1>4, <1>5, <1>6 DEF Next

-----------------------------------------------------------------------------
(* Before the recover handler unwinds *)

\* A wire that nothing has been sent to.
Untouched(w) ==
    /\ w.headers = {"preset"} /\ w.sent = {} /\ ~ w.hints
    /\ ~ w.wrote /\ w.code = 0 /\ w.body = <<>>

\* Nothing has got through from r.
FreshFrom(ch, r) ==
    /\ Untouched(Outermost(ch))
    /\ \A k \in (r + 1)..(Len(ch) - 1) : ch[k].kind = "access" => ~ ch[k].wrote

\* No payload log flushes inside r.
Inner(r) == \A k \in 1..(r - 1) : chain[k].kind # "payload"

\* Until the recover handler unwinds, nothing gets past it; after an abort, nothing
\* does then either.
RecoverBody(r) ==
    /\ depth <= r /\ ending = "panic" => panicking = "panic"
    /\ depth <= r /\ ending = "abort" => panicking # "no"
    /\ depth <= r /\ (pc = "handler" \/ ending # "no" \/ Inner(r)) => FreshFrom(chain, r)
    /\ ending = "abort" /\ lost = 0 => lines[r] = <<>> /\ Untouched(wire)

RecoverInv == \A r \in Middleware : chain[r].kind = "recover" => RecoverBody(r)

\* What is outside a handler that lets nothing through stays fresh.
LEMMA FreshSpared ==
    ASSUME NEW ch, IsChain(ch), NEW r \in 1..(Len(ch) - 1), NEW ch2, Len(ch2) = Len(ch),
           Spares(ch, ch2, r)
    PROVE  /\ Outermost(ch2) = Outermost(ch)
           /\ FreshFrom(ch, r) => FreshFrom(ch2, r)
<1>1. Len(ch) \in (r + 1)..Len(ch) /\ \A k \in (r + 1)..(Len(ch) - 1) : k \in (r + 1)..Len(ch)
  BY DEF IsChain
<1>2. QED
  BY <1>1 DEF Spares, FreshFrom, Outermost

\* A read only concerns the payload logs.
LEMMA ReadSpares ==
    ASSUME NEW ch, IsChain(ch), NEW n, NEW j \in 1..Len(ch), ch[j].kind # "payload"
    PROVE  Read(ch, n)[j] = ch[j]
<1>1. j \in DOMAIN ch
  BY DEF IsChain
<1>2. QED
  BY <1>1 DEF Read

\* A read.
LEMMA FreshRead ==
    ASSUME NEW ch, IsChain(ch), NEW r \in 1..(Len(ch) - 1), NEW n \in Nat, FreshFrom(ch, r)
    PROVE  FreshFrom(Read(ch, n), r)
<1>1. PICK ch2 : ch2 = Read(ch, n) /\ Keeps(ch, ch2)
  BY ReadKeeps
<1>2. Len(ch2) = Len(ch) /\ Len(ch) \in 1..Len(ch) /\ ch[Len(ch)].kind = "wire"
  BY <1>1 DEF Keeps, IsChain, Wires
<1>3. Outermost(ch2) = Outermost(ch)
  BY <1>1, <1>2, ReadSpares DEF Outermost
<1>4. ASSUME NEW k \in (r + 1)..(Len(ch) - 1), ch2[k].kind = "access" PROVE ~ ch2[k].wrote
  <2>1. k \in 1..Len(ch)
    BY <1>2
  <2>2. ch[k].kind = "access"
    BY <1>1, <1>4, <2>1 DEF Keeps
  <2>3. ch2[k] = ch[k]
    BY <1>1, <2>1, <2>2, ReadSpares
  <2>4. QED
    BY <2>2, <2>3 DEF FreshFrom
<1>5. QED
  BY <1>1, <1>2, <1>3, <1>4 DEF FreshFrom

\* A hijack.
LEMMA FreshHijack ==
    ASSUME NEW ch, IsChain(ch), NEW r \in 1..(Len(ch) - 1), NEW ok \in BOOLEAN, FreshFrom(ch, r)
    PROVE  FreshFrom(Hijack(ch, ok), r)
<1>1. PICK ch2 : ch2 = Hijack(ch, ok)
  OBVIOUS
<1>2. /\ Len(ch2) = Len(ch) /\ \A j \in 1..Len(ch) : ch2[j].kind = ch[j].kind
  BY <1>1, HijackFacts
<1>3. /\ \A j \in 1..(Len(ch) - 1) : ch2[j] = [ch[j] EXCEPT !.hijacked = TRUE]
      /\ Outermost(ch2) = [Outermost(ch) EXCEPT !.hijacked = ok]
  BY <1>1, HijackRecord
<1>4. Untouched(Outermost(ch2))
  <2>1. PICK w \in Wires : w = Outermost(ch)
    BY DEF IsChain, Outermost
  <2>2. PICK v : v = [w EXCEPT !.hijacked = ok]
    OBVIOUS
  <2>3. /\ v.headers = w.headers /\ v.sent = w.sent /\ v.hints = w.hints /\ v.wrote = w.wrote
        /\ v.code = w.code /\ v.body = w.body
    BY <2>2 DEF Wires
  <2>4. Outermost(ch2) = v /\ Untouched(w)
    BY <1>3, <2>1, <2>2 DEF FreshFrom
  <2>5. QED
    BY <2>3, <2>4 DEF Untouched
<1>5. ASSUME NEW k \in (r + 1)..(Len(ch) - 1), ch2[k].kind = "access" PROVE ~ ch2[k].wrote
  <2>1. k \in 1..Len(ch) /\ k \in 1..(Len(ch) - 1)
    BY DEF IsChain
  <2>2. PICK v \in AccessWriters : v = ch[k] /\ ~ v.wrote
    <3>1. ch[k].kind = "access" /\ ch[k] \in Writers
      BY <1>2, <1>5, <2>1 DEF IsChain
    <3>2. QED
      BY <3>1, KindOf DEF FreshFrom
  <2>3. ch2[k] = [v EXCEPT !.hijacked = TRUE]
    BY <1>3, <2>1, <2>2
  <2>4. QED
    BY <2>2, <2>3 DEF AccessWriters
<1>6. QED
  BY <1>1, <1>2, <1>4, <1>5 DEF FreshFrom

\* Nobody streams into a recover handler.
LEMMA NoFlushCall ==
    ASSUME NoStreaming, FlowInv, NEW r \in Middleware, chain[r].kind = "recover"
    PROVE  ~ CallFlush
<1>1. "recover" \in Range(Stack)
  BY DEF Range, Stack, Middleware
<1>2. QED
  BY <1>1 DEF NoStreaming, FlowInv, CallFlush, Call

\* The handler's calls do not get past a recover handler.
LEMMA CallsSpare ==
    ASSUME TypeInv, HijackInv, NEW r \in Middleware, chain[r].kind = "recover", FreshFrom(chain, r),
           CallWriteHeader \/ CallWrite \/ CallHeader \/ CallRead \/ CallHijack
    PROVE  FreshFrom(chain', r)
<1>1. IsChain(chain) /\ r \in 1..(Len(chain) - 1) /\ 1 \in 1..r
  BY DEF TypeInv, Middleware, IsChain
<1>2. CASE CallWriteHeader
  <2>1. PICK c : chain' = WriteHeader(chain, 1, c)
    BY <1>2 DEF CallWriteHeader
  <2>2. Len(chain') = Len(chain)
    BY <1>2, CallsKeep DEF Keeps
  <2>3. Spares(chain, chain', r)
    BY <1>1, <2>1, WriteHeaderSpares
  <2>4. QED
    BY <1>1, <2>2, <2>3, FreshSpared
<1>3. CASE CallWrite
  <2>1. PICK b : chain' = Write(chain, 1, b)
    BY <1>3 DEF CallWrite
  <2>2. Len(chain') = Len(chain)
    BY <1>3, CallsKeep DEF Keeps
  <2>3. Spares(chain, chain', r)
    BY <1>1, <2>1, WriteSpares
  <2>4. QED
    BY <1>1, <2>2, <2>3, FreshSpared
<1>4. CASE CallHeader
  <2>1. PICK add, del : chain' = SetHeaders(chain, 1, add, del)
    BY <1>4 DEF CallHeader, EditHeader
  <2>2. Len(chain') = Len(chain)
    BY <1>4, CallsKeep DEF Keeps
  <2>3. Spares(chain, chain', r)
    BY <1>1, <2>1, SetHeadersSpares
  <2>4. QED
    BY <1>1, <2>2, <2>3, FreshSpared
<1>5. CASE CallRead
  <2>1. PICK n \in 1..MaxWrite : chain' = Read(chain, n)
    BY <1>5 DEF CallRead
  <2>2. n \in Nat
    BY Params
  <2>3. QED
    BY <1>1, <2>1, <2>2, FreshRead
<1>6. CASE CallHijack
  <2>1. PICK ok \in BOOLEAN : chain' = Hijack(chain, ok)
    BY <1>6 DEF CallHijack
  <2>2. QED
    BY <1>1, <2>1, FreshHijack
<1>7. QED
  BY <1>2, <1>3, <1>4, <1>5, <1>6

\* Which middleware takes which step, and what the logs do to the response.
LEMMA StepKinds ==
    /\ RecoverClean \/ RecoverPanic \/ RecoverAbort \/ RecoverSinkPanics
           => chain[depth].kind = "recover"
    /\ AccessReturn \/ AccessSinkPanics => chain[depth].kind = "access" /\ chain' = chain
    /\ PayloadReturn \/ PayloadSinkPanics => chain[depth].kind = "payload" /\ PayloadEnd
<1>1. \A k : Unwinding(k) \/ PanicsInline(k) \/ PanicsAside(k) => chain[depth].kind = k
  BY DEF Unwinding, PanicsInline, PanicsAside, SinkPanic
<1>2. QED
  BY <1>1 DEF RecoverClean, RecoverPanic, RecoverAbort, RecoverSinkPanics, AccessReturn,
              AccessSinkPanics, PayloadReturn, PayloadSinkPanics

\* Inside a recover handler the payload log of a panic keeps quiet,
LEMMA PayloadInside ==
    ASSUME TypeInv, PayloadEnd, panicking # "no",
           NEW r \in Middleware, chain[r].kind = "recover", depth < r
    PROVE  Spares(chain, chain', r)
<1>1. IsChain(chain) /\ r \in 1..(Len(chain) - 1) /\ depth + 1 \in 1..r
  BY DEF TypeInv, Middleware, IsChain
<1>2. chain' = Header(chain, depth + 1)
  BY DEF PayloadEnd
<1>3. QED
  BY <1>1, <1>2, HeaderSpares

\* and outside all of them it flushes at most.
LEMMA PayloadOutside ==
    ASSUME TypeInv, PayloadEnd, depth \in Middleware, ClearFrom(chain, depth + 1)
    PROVE  chain' = IF panicking = "no" /\ ~ chain[depth].hijacked /\ Outermost(chain).flusher
                    THEN Flush(chain) ELSE chain
<1>1. PICK ch : ch = IF panicking = "no" /\ ~ chain[depth].hijacked /\ Outermost(chain).flusher
                     THEN Flush(chain) ELSE chain
  OBVIOUS
<1>2. IsChain(chain) /\ depth + 1 \in 1..Len(chain) /\ depth + 1 \in Nat
  BY DEF TypeInv, Middleware, IsChain
<1>3. Keeps(chain, ch)
  BY <1>1, <1>2, FlushKeeps DEF Keeps
<1>4. IsChain(ch) /\ Len(ch) = Len(chain) /\ \A j \in 1..Len(chain) : ch[j].kind = chain[j].kind
  BY <1>3 DEF Keeps
<1>5. ClearFrom(ch, depth + 1)
  <2>1. \A j \in (depth + 1)..(Len(chain) - 1) : j \in 1..Len(chain)
    BY <1>2
  <2>2. QED
    BY <1>4, <2>1 DEF ClearFrom
<1>6. chain' = Header(ch, depth + 1)
  BY <1>1 DEF PayloadEnd
<1>7. chain' = ch
  BY <1>2, <1>4, <1>5, <1>6, SetHeadersOutside
<1>8. QED
  BY <1>1, <1>7

\* The middlewares outside the recover handler are no recover handlers.
LEMMA OutsideIsClear ==
    ASSUME TypeInv, FlowInv, NEW r \in Middleware, chain[r].kind = "recover", NEW k \in Middleware, k >= r
    PROVE  ClearFrom(chain, k + 1)
<1> SUFFICES ASSUME NEW j \in (k + 1)..(Len(chain) - 1), chain[j].kind = "recover" PROVE FALSE
  BY DEF ClearFrom
<1>1. j \in Middleware /\ j # r
  BY DEF Middleware, TypeInv, IsChain
<1>2. QED
  BY <1>1, OneOfAKind

\* A middleware inside the recover handler lets nothing of a panic out, and the
\* recover handler unwinds once.
LEMMA UnwindInside ==
    ASSUME TypeInv, HijackInv, FlowInv, NEW r \in Middleware, chain[r].kind = "recover", depth < r,
           \/ RecoverClean \/ RecoverPanic \/ RecoverAbort \/ AccessReturn \/ PayloadReturn
           \/ RecoverSinkPanics \/ AccessSinkPanics \/ PayloadSinkPanics
    PROVE  /\ chain[depth].kind \in {"access", "payload"} /\ depth' <= r
           /\ chain[depth].kind = "access" => chain' = chain
           /\ panicking # "no" => Spares(chain, chain', r)
           /\ panicking' \in {panicking, "panic"}
<1>1. depth \in Middleware /\ depth' \in {depth, depth + 1} /\ IsChain(chain)
  BY UnwindShape DEF TypeInv
<1>2. chain[depth].kind # "recover"
  BY <1>1, OneOfAKind DEF Middleware
<1>3. \/ AccessReturn \/ AccessSinkPanics
      \/ PayloadReturn \/ PayloadSinkPanics
  BY <1>2, StepKinds
<1>4. (chain[depth].kind = "access" /\ chain' = chain) \/ (chain[depth].kind = "payload" /\ PayloadEnd)
  BY <1>3, StepKinds
<1>5. panicking # "no" => Spares(chain, chain', r)
  BY <1>4, PayloadInside DEF Spares
<1>6. panicking' \in {panicking, "panic"}
  BY <1>2, UnwindShape, StepKinds
<1>7. depth' <= r
  BY <1>1 DEF Middleware
<1>8. QED
  BY <1>4, <1>5, <1>6, <1>7

\* Outside of it only a payload log's flush after a clean end touches the response.
LEMMA UnwindOutside ==
    ASSUME TypeInv, HijackInv, FlowInv, NEW r \in Middleware, chain[r].kind = "recover", r < depth,
           \/ RecoverClean \/ RecoverPanic \/ RecoverAbort \/ AccessReturn \/ PayloadReturn
           \/ RecoverSinkPanics \/ AccessSinkPanics \/ PayloadSinkPanics
    PROVE  /\ chain' = chain \/ (panicking = "no" /\ ~ chain[depth].hijacked /\ chain' = Flush(chain))
           /\ \/ lost' = lost /\ panicking' = panicking
              \/ lost = 0 /\ lost' = depth /\ (panicking' = "panic" \/ pc' = "crashed")
<1>1. depth \in Middleware /\ IsChain(chain)
  BY UnwindShape DEF TypeInv
<1>2. chain[depth].kind # "recover"
  BY <1>1, OneOfAKind DEF Middleware
<1>3. \/ AccessReturn \/ AccessSinkPanics
      \/ PayloadReturn \/ PayloadSinkPanics
  BY <1>2, StepKinds
<1>4. ClearFrom(chain, depth + 1)
  BY <1>1, OutsideIsClear DEF Middleware
<1>5. chain' = chain \/ (panicking = "no" /\ ~ chain[depth].hijacked /\ chain' = Flush(chain))
  BY <1>1, <1>3, <1>4, StepKinds, PayloadOutside
<1>6. QED
  BY <1>2, <1>5, UnwindShape, StepKinds

\* It holds at the beginning.
LEMMA RecoverInit == Init => RecoverInv
<1> SUFFICES ASSUME Init, NEW r \in Middleware, chain[r].kind = "recover" PROVE RecoverBody(r)
  BY DEF RecoverInv
<1>1. Untouched(wire)
  <2>1. PICK f, h : wire = Wire(f, h)
    BY InitShape
  <2>2. QED
    BY <2>1 DEF Wire, Untouched
<1>2. ASSUME NEW k \in (r + 1)..(Len(chain) - 1), chain[k].kind = "access" PROVE ~ chain[k].wrote
  <2>1. k \in Middleware
    BY InitFacts DEF Middleware, TypeInv, IsChain
  <2>2. chain[k] = accessResponseWriter
    BY <1>2, <2>1, InitShape DEF Middlewares
  <2>3. QED
    BY <2>2 DEF accessResponseWriter
<1>3. FreshFrom(chain, r)
  BY <1>1, <1>2 DEF FreshFrom, wire
<1>4. QED
  BY <1>3, InitShape DEF RecoverBody

\* Every step keeps it.
LEMMA RecoverStep ==
    ASSUME NoStreaming, TypeInv, HijackInv, FlowInv, FlowInv', RecoverInv, [Next]_vars
    PROVE  RecoverInv'
<1> SUFFICES ASSUME NEW r \in Middleware', chain'[r].kind = "recover" PROVE RecoverBody(r)'
  BY DEF RecoverInv
<1>0. Middleware' = Middleware /\ \A k \in Middleware : chain'[k].kind = chain[k].kind
  <2>1. CASE CallHijack
    <3>1. \A k \in Middleware : k \in 1..Len(chain)
      BY DEF Middleware, TypeInv, IsChain
    <3>2. QED
      BY <2>1, <3>1, HijackShape
  <2>2. CASE Keeps(chain, chain')
    <3>1. \A k \in Middleware : k \in 1..Len(chain)
      BY DEF Middleware, TypeInv, IsChain
    <3>2. QED
      BY <2>2, <3>1, StackKept DEF Keeps
  <2>3. CASE UNCHANGED chain
    BY <2>3 DEF Middleware
  <2>4. QED
    BY <2>1, <2>2, <2>3, CallsKeep, MiddlewareTypes, ServeKeeps DEF Next, vars, End
<1>1. r \in Middleware /\ chain[r].kind = "recover" /\ RecoverBody(r)
  BY <1>0 DEF RecoverInv
<1>a. /\ IsChain(chain) /\ r \in 1..(Len(chain) - 1) /\ r < Len(chain) /\ depth \in Nat
      /\ \A k \in 1..(r - 1) : k \in Middleware
  BY <1>1 DEF TypeInv, Middleware, IsChain
<1>b. Inner(r)' = Inner(r)
  BY <1>0, <1>a DEF Inner
<1>2. CASE CallWriteHeader \/ CallWrite \/ CallHeader \/ CallRead \/ CallHijack
  <2>1. pc = "handler" /\ UNCHANGED <<pc, depth, panicking, ending, lines, lost>>
    BY <1>2, CallsKeep, HijackShape DEF Call
  <2>2. ending = "no" /\ depth = 1
    BY <2>1 DEF FlowInv
  <2>3. FreshFrom(chain, r)
    BY <1>1, <1>a, <2>1, <2>2 DEF RecoverBody
  <2>4. FreshFrom(chain', r)
    BY <1>1, <1>2, <2>3, CallsSpare
  <2>5. QED
    BY <2>1, <2>2, <2>4 DEF RecoverBody
<1>3. CASE CallFlush
  BY <1>1, <1>3, NoFlushCall
<1>4. CASE End
  <2>1. pc = "handler" /\ UNCHANGED <<chain, depth, lines, lost>> /\ panicking' = ending' /\ pc' = "unwind"
    BY <1>4 DEF End
  <2>2. depth <= r /\ FreshFrom(chain, r) /\ lines[r] = <<>>
    BY <1>1, <1>a, <2>1 DEF FlowInv, RecoverBody
  <2>3. Untouched(wire)
    BY <2>2 DEF FreshFrom, wire
  <2>4. QED
    BY <2>1, <2>2, <2>3 DEF RecoverBody, wire
<1>5. CASE \/ RecoverClean \/ RecoverPanic \/ RecoverAbort \/ AccessReturn \/ PayloadReturn
           \/ RecoverSinkPanics \/ AccessSinkPanics \/ PayloadSinkPanics
  <2>1. /\ pc = "unwind" /\ depth \in Middleware /\ ending' = ending
        /\ Keeps(chain, chain')
        /\ \/ depth' = depth + 1 /\ pc' = pc
           \/ depth' = depth /\ pc' = "crashed" /\ lost' = depth /\ panicking' = panicking
              /\ lines' = lines
        /\ lost' = lost \/ (lost = 0 /\ lost' = depth)
        /\ \A k \in Middleware : k # depth => lines'[k] = lines[k]
    BY <1>5, UnwindShape
  <2>2. Len(chain') = Len(chain)
    BY <2>1 DEF Keeps
  <2>3. lost' = 0 => lost = 0 /\ (ending = "abort" => panicking = "abort")
    BY <2>1 DEF FlowInv, Middleware
  <2>4. CASE depth < r
    <3>1. /\ chain[depth].kind \in {"access", "payload"} /\ depth' <= r
          /\ chain[depth].kind = "access" => chain' = chain
          /\ panicking # "no" => Spares(chain, chain', r)
          /\ panicking' \in {panicking, "panic"}
      BY <1>1, <1>5, <2>4, UnwindInside
    <3>2. ending # "no" => panicking # "no"
      BY <1>1, <1>a, <2>4, <3>1 DEF RecoverBody, TypeInv, Endings
    <3>3. (ending # "no" \/ Inner(r)) => FreshFrom(chain, r) /\ FreshFrom(chain', r)
      <4>1. (ending # "no" \/ Inner(r)) => FreshFrom(chain, r)
        BY <1>1, <1>a, <2>4 DEF RecoverBody
      <4>2. Inner(r) => chain[depth].kind # "payload"
        BY <2>1, <2>4 DEF Inner, Middleware
      <4>3. Spares(chain, chain, r)
        BY DEF Spares
      <4>4. QED
        BY <1>a, <2>2, <3>1, <3>2, <4>1, <4>2, <4>3, FreshSpared
    <3>4. ending = "abort" /\ lost' = 0 => lines'[r] = <<>> /\ Untouched(wire')
      <4>1. ending = "abort" => Outermost(chain') = Outermost(chain)
        BY <1>a, <2>2, <3>1, <3>2, FreshSpared
      <4>2. QED
        BY <1>1, <1>a, <2>1, <2>3, <2>4, <4>1 DEF RecoverBody, wire
    <3>5. QED
      BY <1>1, <1>a, <1>b, <2>1, <2>4, <3>1, <3>3, <3>4 DEF RecoverBody
  <2>5. CASE depth = r
    <3>1. chain[depth].kind = "recover"
      BY <1>1, <2>5
    <3>2. panicking = "abort" => UNCHANGED <<lines, chain>>
      BY <1>5, <3>1, UnwindShape
    <3>3. ending = "abort" /\ lost' = 0 => lines'[r] = <<>> /\ Untouched(wire')
      BY <1>1, <2>3, <3>2 DEF RecoverBody, wire
    <3>4. CASE depth' = depth + 1
      <4>1. ~ (depth' <= r)
        BY <1>a, <2>5, <3>4
      <4>2. QED
        BY <2>1, <3>3, <4>1 DEF RecoverBody
    <3>5. CASE pc' = "crashed"
      <4>1. chain' = chain /\ depth' = depth /\ panicking' = panicking /\ lost' # 0
        <5>1. RecoverSinkPanics
          BY <1>5, <2>1, <3>1, <3>5, StepKinds
             DEF RecoverClean, RecoverPanic, RecoverAbort, Unwinding
        <5>2. QED
          BY <2>1, <3>5, <5>1 DEF RecoverSinkPanics, Middleware
      <4>2. pc = "unwind"
        BY <2>1
      <4>3. QED
        BY <1>1, <1>b, <2>1, <4>1, <4>2, <3>5 DEF RecoverBody
    <3>6. QED
      BY <2>1, <3>4, <3>5
  <2>6. CASE r < depth
    <3>1. chain' = chain \/ panicking = "no"
      BY <1>1, <1>5, <2>6, UnwindOutside
    <3>2. ~ (depth' <= r)
      BY <1>a, <2>1, <2>6
    <3>3. ending = "abort" /\ lost' = 0 => lines'[r] = <<>> /\ Untouched(wire')
      BY <1>1, <1>a, <2>1, <2>3, <2>6, <3>1 DEF RecoverBody, wire
    <3>4. QED
      BY <2>1, <3>2, <3>3 DEF RecoverBody
  <2>7. QED
    BY <1>a, <2>4, <2>5, <2>6
<1>6. CASE Serve
  <2>1. depth = Len(chain) /\ UNCHANGED <<depth, panicking, ending, lines, lost>>
        /\ (panicking # "no" => chain' = chain)
    BY <1>6 DEF Serve
  <2>2. ~ (depth' <= r)
    BY <1>a, <2>1
  <2>3. lost = 0 /\ ending = "abort" => panicking = "abort"
    BY DEF FlowInv
  <2>4. QED
    BY <1>1, <2>1, <2>2, <2>3 DEF RecoverBody, wire
<1>7. CASE UNCHANGED vars
  BY <1>1, <1>b, <1>7 DEF vars, RecoverBody, wire
<1>8. QED
  BY <1>2, <1>3, <1>4, <1>5, <1>6, <1>7 DEF Next

\* Both hold in every behaviour.
LEMMA FlowAlways == Spec => []FlowInv
BY FlowInit, FlowStep, TypeInvAlways, PTL DEF Spec

\* What is behind a recover handler stays there until it unwinds.
LEMMA RecoverAlways == ASSUME NoStreaming PROVE Spec => []RecoverInv
<1>1. TypeInv /\ HijackInv /\ FlowInv /\ FlowInv' /\ RecoverInv /\ [Next]_vars => RecoverInv'
  BY RecoverStep
<1>2. QED
  BY <1>1, RecoverInit, TypeInvAlways, FlowAlways, PTL DEF Spec

\* http.ErrAbortHandler reaches the server through every composition of middlewares;
\* below a recover handler, whose handler does not stream, nothing of the response has
\* been sent then, and that handler has logged nothing.
THEOREM AbortsPassThrough == ASSUME NoStreaming PROVE Spec => []AbortPassesThrough
<1>1. TypeInv /\ FlowInv /\ RecoverInv => AbortPassesThrough
  <2> SUFFICES ASSUME TypeInv, FlowInv, RecoverInv, Ended, ending = "abort", lost = 0
               PROVE  /\ pc = "aborted"
                      /\ \A k \in Middleware : chain[k].kind = "recover" =>
                           /\ lines[k] = <<>>
                           /\ ~wire.wrote /\ wire.body = <<>> /\ wire.sent = {}
    BY DEF AbortPassesThrough
  <2>1. pc = "aborted"
    BY DEF FlowInv, Ended
  <2>2. QED
    BY <2>1 DEF RecoverInv, RecoverBody, Untouched
<1>2. QED
  BY <1>1, TypeInvAlways, FlowAlways, RecoverAlways, PTL

-----------------------------------------------------------------------------
(* A panic gives a 500 *)

\* The wire of the handler without middleware: until it has a status it has nothing.
BareInv ==
    /\ bare[1].hijacked = wire.hijacked
    /\ ~ bare[1].wrote => bare[1].code = 0 /\ bare[1].body = <<>> /\ bare[1].sent = {}

\* The recover handler knows of a hijack, which leaves nothing behind on the wire.
MarkBody(r) ==
    /\ chain[r].hijacked => wire.hijacked
    /\ wire.hijacked => Untouched(wire) /\ ~ bare[1].wrote

\* Of a handler that panicked the client sees the 500, unless the log of the recover
\* handler panicked as well.
PanicBody(r) ==
    depth > r /\ ending = "panic" =>
        /\ lost # r /\ ~ wire.hijacked => Seen(wire) = Reply500 /\ wire.wrote
        /\ lost = 0 => panicking = "no"

FallbackInv ==
    BareInv /\ \A r \in Middleware : chain[r].kind = "recover" => MarkBody(r) /\ PanicBody(r)

\* The kinds of the elements do not change.
LEMMA ClearKept ==
    ASSUME NEW ch, IsChain(ch), NEW k \in 1..Len(ch), ClearFrom(ch, k), NEW ch2, Keeps(ch, ch2)
    PROVE  IsChain(ch2) /\ Len(ch2) = Len(ch) /\ ClearFrom(ch2, k)
<1>1. \A j \in k..(Len(ch) - 1) : j \in 1..Len(ch)
  BY DEF IsChain
<1>2. QED
  BY <1>1 DEF Keeps, ClearFrom

\* A chain of one writer.
LEMMA BareFacts ==
    ASSUME TypeInv
    PROVE  /\ IsChain(bare) /\ Len(bare) = 1 /\ 1 \in 1..Len(bare) /\ ClearFrom(bare, 1)
           /\ Outermost(bare) = bare[1] /\ bare[1] \in Wires
           /\ \A j \in 1..(Len(bare) - 1) : bare[j].kind = "access" => ~ bare[j].wrote
<1>1. IsChain(bare) /\ Len(bare) = 1
  BY DEF TypeInv
<1>2. bare[1] \in Wires /\ \A j : j \notin 1..(Len(bare) - 1)
  BY <1>1 DEF IsChain
<1>3. QED
  BY <1>1, <1>2 DEF ClearFrom, Outermost

\* Flush only commits the wire.
LEMMA FlushRecord ==
    ASSUME NEW ch, IsChain(ch)
    PROVE  /\ Outermost(Flush(ch)) = Commit(Outermost(ch), OK) /\ Outermost(ch) \in Wires
           /\ \A j \in 1..(Len(ch) - 1) : Flush(ch)[j] = ch[j]
<1>1. Len(ch) \in 1..Len(ch) /\ DOMAIN ch = 1..Len(ch) /\ ch[Len(ch)] \in Wires /\ Len(ch) \in Nat
  BY DEF IsChain
<1>2. PICK w : w = Commit(ch[Len(ch)], OK)
  OBVIOUS
<1>3. PICK ch2 : ch2 = [ch EXCEPT ![Len(ch)] = w]
  OBVIOUS
<1>4. ch2[Len(ch)] = w /\ \A j \in 1..(Len(ch) - 1) : ch2[j] = ch[j]
  BY <1>1, <1>3
<1>5. Flush(ch) = ch2 /\ Len(Flush(ch)) = Len(ch)
  BY <1>2, <1>3, FlushKeeps DEF Flush, Keeps
<1>6. QED
  BY <1>1, <1>2, <1>4, <1>5 DEF Outermost

\* The handler's calls, and what they do without middleware.
LEMMA CallShape ==
    ASSUME TypeInv, HijackInv, CallWriteHeader \/ CallWrite \/ CallHeader \/ CallRead \/ CallFlush
    PROVE  /\ pc = "handler" /\ ~ wire.hijacked
           /\ UNCHANGED <<pc, depth, panicking, ending, lines, lost>>
           /\ \/ CallWriteHeader /\ \E c \in Codes : /\ chain' = WriteHeader(chain, 1, c)
                                                     /\ bare'[1] = Commit(bare[1], c)
              \/ CallWrite /\ \E b \in Seq(Nat) : /\ chain' = Write(chain, 1, b)
                                                  /\ bare'[1] = OnWrite(bare[1], b)
              \/ CallHeader /\ \E add \in HeaderSets, del \in HeaderSets :
                     /\ chain' = SetHeaders(chain, 1, add, del)
                     /\ bare'[1] = [bare[1] EXCEPT !.headers = (@ \cup add) \ del]
                     /\ \/ add = {"own"} /\ del = {} /\ Call(IF bare[1].wrote THEN "late" ELSE "set")
                        \/ Call("delete")
              \/ CallRead /\ bare' = bare /\ \E n \in Nat : chain' = Read(chain, n)
              \/ CallFlush /\ chain' = Flush(chain) /\ bare'[1] = Commit(bare[1], OK)
<1>1. /\ pc = "handler" /\ ~ wire.hijacked
      /\ UNCHANGED <<pc, depth, panicking, ending, lines, lost>>
  BY CallsKeep DEF Call, wire
<1>2. Len(bare') = 1
  BY CallsKeep, BareFacts DEF Keeps
<1>3. CASE CallWriteHeader
  <2>1. PICK c \in Codes : chain' = WriteHeader(chain, 1, c) /\ bare' = WriteHeader(bare, 1, c)
    BY <1>3 DEF CallWriteHeader
  <2>2. bare'[1] = Commit(bare[1], c)
    BY <1>2, <2>1, BareFacts, StatusType, WriteHeaderOutside DEF Outermost
  <2>3. QED
    BY <1>1, <1>3, <2>1, <2>2
<1>4. CASE CallWrite
  <2>1. PICK n \in 0..MaxWrite :
          LET b == [i \in 1..n |-> Len(bare[1].body) + i]
          IN  /\ chain' = Write(chain, 1, b)
              /\ bare' = Write(bare, 1, b)
    BY <1>4 DEF CallWrite
  <2>2. PICK b : b = [i \in 1..n |-> Len(bare[1].body) + i]
    OBVIOUS
  <2>3. b \in Seq(Nat)
    <3>1. bare[1].body \in Seq(Nat)
      BY BareFacts DEF Wires
    <3>2. n \in Nat /\ b \in [1..n -> Nat]
      BY <2>2, <3>1, Params
    <3>3. QED
      BY <3>2
  <2>4. chain' = Write(chain, 1, b) /\ bare' = Write(bare, 1, b)
    BY <2>1, <2>2
  <2>5. bare'[1] = OnWrite(bare[1], b)
    BY <1>2, <2>3, <2>4, BareFacts, WriteOutside DEF Outermost
  <2>6. QED
    BY <1>1, <1>4, <2>3, <2>4, <2>5
<1>5. CASE CallHeader
  <2>1. PICK add \in HeaderSets, del \in HeaderSets :
          /\ chain' = SetHeaders(chain, 1, add, del) /\ bare' = SetHeaders(bare, 1, add, del)
          /\ \/ add = {"own"} /\ del = {} /\ Call(IF bare[1].wrote THEN "late" ELSE "set")
             \/ Call("delete")
    BY <1>5 DEF CallHeader, EditHeader, HeaderSets
  <2>2. bare'[1] = [bare[1] EXCEPT !.headers = (@ \cup add) \ del]
    BY <1>2, <2>1, BareFacts, SetHeadersOutside DEF Outermost
  <2>3. QED
    BY <1>1, <1>5, <2>1, <2>2
<1>6. CASE CallRead
  <2>1. PICK n \in 1..MaxWrite : chain' = Read(chain, n) /\ bare' = bare
    BY <1>6 DEF CallRead
  <2>2. n \in Nat
    BY Params
  <2>3. QED
    BY <1>1, <1>6, <2>1, <2>2
<1>7. CASE CallFlush
  <2>1. chain' = Flush(chain) /\ bare' = Flush(bare)
    BY <1>7 DEF CallFlush
  <2>2. Flush(bare)[1] = Commit(bare[1], OK)
    BY <1>2, <2>1, BareFacts, FlushRecord DEF Outermost
  <2>3. QED
    BY <1>1, <1>7, <2>1, <2>2
<1>8. QED
  BY <1>3, <1>4, <1>5, <1>6, <1>7

\* A status that has been sent is final.
LEMMA CommitFinal ==
    ASSUME NEW w \in Wires, NEW c \in Statuses, ~ w.hijacked
    PROVE  /\ w.wrote => Commit(w, c) = w
           /\ ~ w.wrote /\ c >= 200 =>
                  /\ Commit(w, c).wrote /\ Commit(w, c).code = c /\ Commit(w, c).sent = w.headers
                  /\ Commit(w, c).hints = w.hints
           /\ c >= 200 => Commit(w, c).wrote
           /\ ~ Commit(w, c).wrote => Commit(w, c).code = w.code /\ Commit(w, c).sent = w.sent
<1>1. CASE w.wrote
  BY <1>1 DEF Commit
<1>2. CASE ~ w.wrote /\ c < 200
  <2>1. Commit(w, c) = [w EXCEPT !.hints = TRUE] /\ ~ (c >= 200)
    BY <1>2, StatusType DEF Commit
  <2>2. QED
    BY <1>2, <2>1 DEF Wires
<1>3. CASE ~ w.wrote /\ ~ (c < 200)
  <2>1. Commit(w, c) = [w EXCEPT !.wrote = TRUE, !.code = c, !.sent = w.headers]
    BY <1>3 DEF Commit
  <2>2. QED
    BY <1>3, <2>1 DEF Wires
<1>4. QED
  BY <1>1, <1>2, <1>3

\* With a hijacked connection nothing changes when the request ends.
LEMMA HijackedStays ==
    ASSUME TypeInv, HijackInv, wire.hijacked,
           \/ RecoverClean \/ RecoverPanic \/ RecoverAbort \/ AccessReturn \/ PayloadReturn
           \/ RecoverSinkPanics \/ AccessSinkPanics \/ PayloadSinkPanics \/ Serve
    PROVE  wire' = wire
<1>1. CASE Serve
  BY <1>1 DEF Serve, wire
<1>2. CASE PayloadReturn \/ PayloadSinkPanics
  <2>1. depth \in Middleware /\ PayloadEnd
    BY <1>2, UnwindShape, StepKinds
  <2>2. IsChain(chain) /\ depth + 1 \in 1..Len(chain) /\ chain[depth].hijacked
    BY <2>1 DEF TypeInv, Middleware, IsChain, HijackInv
  <2>3. chain' = Header(chain, depth + 1)
    BY <2>1, <2>2 DEF PayloadEnd
  <2>4. QED
    BY <2>2, <2>3, HeaderSparesWire DEF wire
<1>3. CASE RecoverClean \/ RecoverPanic
  <2>1. chain[depth].hijacked
    BY <1>3, UnwindShape DEF HijackInv
  <2>2. QED
    BY <1>3, <2>1 DEF RecoverClean, RecoverPanic, wire
<1>4. CASE RecoverAbort \/ AccessReturn \/ RecoverSinkPanics \/ AccessSinkPanics
  BY <1>4 DEF RecoverAbort, AccessReturn, RecoverSinkPanics, AccessSinkPanics, wire
<1>5. QED
  BY <1>1, <1>2, <1>3, <1>4

\* The fallback on a fresh wire.
LEMMA FallbackReply ==
    ASSUME NEW ch, IsChain(ch), NEW k \in 1..Len(ch), ClearFrom(ch, k), FreshFrom(ch, k - 1),
           ~ Outermost(ch).hijacked
    PROVE  LET w == Outermost(Write(WriteHeader(SetHeaders(ch, k, {"fallback"}, {}), k,
                                                InternalServerError), k, Fallback))
           IN  Seen(w) = Reply500 /\ w.wrote
<1>a. PICK add \in HeaderSets, del \in HeaderSets : add = {"fallback"} /\ del = {}
  BY DEF HeaderSets
<1>1. PICK a : a = SetHeaders(ch, k, add, del)
  OBVIOUS
<1>2. PICK b : b = WriteHeader(a, k, InternalServerError)
  OBVIOUS
<1>3. Keeps(ch, a)
  BY <1>1, SetHeadersKeeps
<1>4. IsChain(a) /\ Len(a) = Len(ch) /\ ClearFrom(a, k)
  BY <1>3, ClearKept
<1>5. Keeps(a, b)
  BY <1>2, <1>4, StatusType, WriteHeaderKeeps
<1>6. IsChain(b) /\ Len(b) = Len(ch) /\ ClearFrom(b, k)
  BY <1>4, <1>5, ClearKept
<1>7. \A j \in k..(Len(a) - 1) : a[j].kind = "access" => ~ a[j].wrote
  <2>1. \A j \in 1..(Len(ch) - 1) : a[j] = ch[j]
    BY <1>1, SetHeadersOutside
  <2>2. \A j \in k..(Len(a) - 1) : j \in 1..(Len(ch) - 1) /\ j \in ((k - 1) + 1)..(Len(ch) - 1)
    BY <1>4 DEF IsChain
  <2>3. QED
    BY <2>1, <2>2 DEF FreshFrom
<1>8. PICK w \in Wires : w = Outermost(ch) /\ Untouched(w) /\ ~ w.hijacked
  BY DEF IsChain, Outermost, FreshFrom
<1>9. PICK u : u = [w EXCEPT !.headers = (@ \cup add) \ del]
  OBVIOUS
<1>10. /\ u \in Wires /\ u.headers = {"preset", "fallback"} /\ ~ u.wrote /\ ~ u.hints /\ u.body = <<>>
       /\ ~ u.hijacked
  BY <1>a, <1>8, <1>9 DEF Wires, Untouched, HeaderSets
<1>11. Outermost(a) = u
  <2>1. Outermost(a) = [Outermost(ch) EXCEPT !.headers = (@ \cup add) \ del]
    BY <1>1, SetHeadersOutside
  <2>2. QED
    BY <1>8, <1>9, <2>1
<1>12. PICK v : v = Commit(u, InternalServerError)
  OBVIOUS
<1>13. Outermost(b) = v
  BY <1>2, <1>4, <1>7, <1>11, <1>12, StatusType, WriteHeaderOutside
<1>14. /\ v \in Wires /\ v.wrote /\ v.code = InternalServerError /\ v.sent = {"preset", "fallback"}
       /\ ~ v.hints /\ v.body = <<>> /\ ~ v.hijacked
  <2>1. InternalServerError \in Statuses /\ InternalServerError >= 200
    BY StatusType DEF InternalServerError
  <2>2. v \in Wires /\ ~ v.hijacked /\ v.body = u.body
    BY <1>10, <1>12, <2>1, CommitFacts
  <2>3. v.wrote /\ v.code = InternalServerError /\ v.sent = u.headers /\ v.hints = u.hints
    BY <1>10, <1>12, <2>1, CommitFinal
  <2>4. QED
    BY <1>10, <2>2, <2>3
<1>15. Outermost(Write(b, k, Fallback)) = OnWrite(v, Fallback)
  <2>1. Fallback \in Seq(Nat)
    BY DEF Fallback
  <2>2. QED
    BY <1>6, <1>13, <2>1, WriteOutside
<1>16. Commit(v, OK) = v
  BY <1>14, StatusType, CommitFinal
<1>17. OnWrite(v, Fallback) = [v EXCEPT !.body = v.body \o Fallback]
  BY <1>14, <1>16 DEF OnWrite, Wires
<1>18. v.body \o Fallback = Fallback
  BY <1>14 DEF Fallback
<1>19. PICK z : z = [v EXCEPT !.body = Fallback]
  OBVIOUS
<1>20. /\ z.code = InternalServerError /\ z.sent = {"preset", "fallback"} /\ z.hints = FALSE
       /\ z.body = Fallback /\ z.hijacked = FALSE /\ z.wrote
  BY <1>14, <1>19 DEF Wires
<1>21. Seen(z) = Reply500 /\ z.wrote
  BY <1>20 DEF Seen, Reply500
<1>22. QED
  BY <1>a, <1>1, <1>2, <1>15, <1>17, <1>18, <1>19, <1>21

\* Commit and Write on the wire of the handler without middleware.
LEMMA BareCommit ==
    ASSUME NEW w \in Wires, ~ w.hijacked, ~ w.wrote => w.code = 0 /\ w.body = <<>> /\ w.sent = {}
    PROVE  /\ \A c \in Statuses : LET v == Commit(w, c)
                                  IN  ~ v.wrote => v.code = 0 /\ v.body = <<>> /\ v.sent = {}
           /\ \A b : OnWrite(w, b).wrote
<1>1. ASSUME NEW c \in Statuses, ~ Commit(w, c).wrote
      PROVE  Commit(w, c).code = 0 /\ Commit(w, c).body = <<>> /\ Commit(w, c).sent = {}
  <2>1. ~ w.wrote
    BY <1>1, CommitFinal
  <2>2. QED
    BY <1>1, <2>1, CommitFacts, CommitFinal
<1>2. ASSUME NEW b PROVE OnWrite(w, b).wrote
  <2>1. PICK v \in Wires : v = Commit(w, OK) /\ v.wrote
    <3>1. OK >= 200
      BY DEF OK
    <3>2. QED
      BY <3>1, StatusType, CommitFacts, CommitFinal
  <2>2. OnWrite(w, b) = [v EXCEPT !.body = @ \o b]
    BY <2>1 DEF OnWrite, Wires
  <2>3. QED
    BY <2>1, <2>2 DEF Wires
<1>3. QED
  BY <1>1, <1>2

\* The marks a hijack leaves, by the kinds of the elements.
LEMMA HijackMarks ==
    ASSUME TypeInv, CallHijack
    PROVE  \E ok \in BOOLEAN :
             /\ wire' = [wire EXCEPT !.hijacked = ok] /\ wire'.hijacked = ok /\ ~ wire.hijacked
             /\ bare'[1] = [bare[1] EXCEPT !.hijacked = ok]
             /\ chain' = Hijack(chain, ok)
             /\ Call(IF ~ok THEN "hijackFails" ELSE IF bare[1].wrote THEN "hijackLate" ELSE "hijack")
<1>1. PICK ok \in BOOLEAN :
        /\ Call(IF ~ok THEN "hijackFails" ELSE IF bare[1].wrote THEN "hijackLate" ELSE "hijack")
        /\ chain' = Hijack(chain, ok) /\ bare' = Hijack(bare, ok)
  BY DEF CallHijack
<1>2. IsChain(chain) /\ IsChain(bare) /\ Len(bare) = 1
  BY DEF TypeInv
<1>3. wire' = [wire EXCEPT !.hijacked = ok]
  BY <1>1, <1>2, HijackRecord DEF wire
<1>4. bare'[1] = [bare[1] EXCEPT !.hijacked = ok]
  <2>1. Len(bare') = 1
    BY <1>1, <1>2, HijackFacts
  <2>2. PICK w : w = bare[1] /\ w = Outermost(bare)
    BY BareFacts
  <2>3. Outermost(bare') = [w EXCEPT !.hijacked = ok]
    BY <1>1, <1>2, <2>2, HijackRecord
  <2>4. Outermost(bare') = bare'[1]
    BY <2>1 DEF Outermost
  <2>5. QED
    BY <2>2, <2>3, <2>4
<1>5. wire'.hijacked = ok
  BY <1>1, <1>2, HijackFacts DEF wire
<1>6. ~ wire.hijacked
  BY <1>1 DEF Call, wire
<1>7. QED
  BY <1>1, <1>3, <1>4, <1>5, <1>6

\* The wire of the handler without middleware.
LEMMA BareStep == ASSUME TypeInv, HijackInv, BareInv, [Next]_vars PROVE BareInv'
<1>1. bare[1] \in Wires /\ wire \in Wires
  BY BareFacts DEF TypeInv, IsChain, wire, Outermost
<1>2. CASE CallWriteHeader \/ CallWrite \/ CallHeader \/ CallRead \/ CallFlush
  <2>1. wire'.hijacked = wire.hijacked /\ bare'[1].hijacked = bare[1].hijacked
    <3>1. Keeps(chain, chain') /\ Keeps(bare, bare')
      BY <1>2, CallsKeep
    <3>2. Len(chain) \in 1..Len(chain) /\ Len(chain') = Len(chain) /\ 1 \in 1..Len(bare)
      BY <3>1 DEF TypeInv, IsChain, Keeps
    <3>3. QED
      BY <3>1, <3>2 DEF Keeps, wire, Outermost
  <2>2. ~ bare[1].hijacked
    BY <1>2, CallShape DEF BareInv
  <2>3. ~ bare'[1].wrote => bare'[1].code = 0 /\ bare'[1].body = <<>> /\ bare'[1].sent = {}
    <3>1. ASSUME NEW c \in Statuses, bare'[1] = Commit(bare[1], c)
          PROVE  ~ bare'[1].wrote => bare'[1].code = 0 /\ bare'[1].body = <<>> /\ bare'[1].sent = {}
      BY <1>1, <2>2, <3>1, BareCommit DEF BareInv
    <3>2. ASSUME NEW b, bare'[1] = OnWrite(bare[1], b) PROVE bare'[1].wrote
      BY <1>1, <2>2, <3>2, BareCommit DEF BareInv
    <3>3. ASSUME NEW hs, bare'[1] = [bare[1] EXCEPT !.headers = hs]
          PROVE  ~ bare'[1].wrote => bare'[1].code = 0 /\ bare'[1].body = <<>> /\ bare'[1].sent = {}
      <4>1. /\ bare'[1].wrote = bare[1].wrote /\ bare'[1].code = bare[1].code
            /\ bare'[1].body = bare[1].body /\ bare'[1].sent = bare[1].sent
        BY <1>1, <3>3 DEF Wires
      <4>2. QED
        BY <4>1 DEF BareInv
    <3>4. \/ \E c \in Codes : bare'[1] = Commit(bare[1], c)
          \/ bare'[1] = Commit(bare[1], OK)
          \/ \E b : bare'[1] = OnWrite(bare[1], b)
          \/ \E add, del : bare'[1] = [bare[1] EXCEPT !.headers = (@ \cup add) \ del]
          \/ bare' = bare
      BY <1>2, CallShape
    <3>5. CASE \E add, del : bare'[1] = [bare[1] EXCEPT !.headers = (@ \cup add) \ del]
      <4>1. PICK add, del : bare'[1] = [bare[1] EXCEPT !.headers = (@ \cup add) \ del]
        BY <3>5
      <4>2. PICK hs : hs = (bare[1].headers \cup add) \ del
        OBVIOUS
      <4>3. bare'[1] = [bare[1] EXCEPT !.headers = hs]
        BY <4>1, <4>2
      <4>4. QED
        BY <3>3, <4>3
    <3>6. CASE bare' = bare
      BY <3>6 DEF BareInv
    <3>7. QED
      BY <3>1, <3>2, <3>4, <3>5, <3>6, StatusType
  <2>4. QED
    BY <2>1, <2>3 DEF BareInv
<1>3. CASE CallHijack
  <2>1. PICK ok \in BOOLEAN : wire'.hijacked = ok /\ bare'[1] = [bare[1] EXCEPT !.hijacked = ok]
    BY <1>3, HijackMarks
  <2>2. /\ bare'[1].wrote = bare[1].wrote /\ bare'[1].code = bare[1].code
        /\ bare'[1].body = bare[1].body /\ bare'[1].sent = bare[1].sent /\ bare'[1].hijacked = ok
    BY <1>1, <2>1 DEF Wires
  <2>3. QED
    BY <2>1, <2>2 DEF BareInv
<1>4. CASE End
  BY <1>4 DEF End, BareInv, wire
<1>5. CASE \/ RecoverClean \/ RecoverPanic \/ RecoverAbort \/ AccessReturn \/ PayloadReturn
           \/ RecoverSinkPanics \/ AccessSinkPanics \/ PayloadSinkPanics
  <2>1. Keeps(chain, chain') /\ bare' = bare
    BY <1>5, UnwindShape
  <2>2. Len(chain) \in 1..Len(chain) /\ Len(chain') = Len(chain)
    BY <2>1 DEF TypeInv, IsChain, Keeps
  <2>3. wire'.hijacked = wire.hijacked
    BY <2>1, <2>2 DEF Keeps, wire, Outermost
  <2>4. QED
    BY <2>1, <2>3 DEF BareInv
<1>6. CASE Serve
  <2>1. Keeps(chain, chain') /\ Keeps(bare, bare')
    BY <1>6, ServeKeeps
  <2>2. Len(chain) \in 1..Len(chain) /\ Len(chain') = Len(chain) /\ 1 \in 1..Len(bare) /\ Len(bare') = 1
    BY <2>1 DEF TypeInv, IsChain, Keeps
  <2>3. wire'.hijacked = wire.hijacked /\ bare'[1].hijacked = bare[1].hijacked
    BY <2>1, <2>2 DEF Keeps, wire, Outermost
  <2>4. bare' = bare \/ (~ bare[1].hijacked /\ bare' = Flush(bare))
    BY <1>6, BareFacts DEF Serve
  <2>5. ~ bare[1].hijacked /\ bare' = Flush(bare) => bare'[1].wrote
    <3>1. OK >= 200
      BY DEF OK
    <3>2. IsChain(bare) /\ Outermost(bare) = bare[1]
      BY BareFacts
    <3>3. Outermost(Flush(bare)) = Commit(bare[1], OK)
      BY <3>2, FlushRecord
    <3>4. bare' = Flush(bare) => bare'[1] = Commit(bare[1], OK)
      BY <2>2, <3>3 DEF Outermost
    <3>5. QED
      BY <1>1, <3>1, <3>4, StatusType, CommitFinal
  <2>6. QED
    BY <2>3, <2>4, <2>5 DEF BareInv
<1>7. CASE UNCHANGED vars
  BY <1>7 DEF vars, BareInv, wire
<1>8. QED
  BY <1>2, <1>3, <1>4, <1>5, <1>6, <1>7 DEF Next

\* It holds at the beginning.
LEMMA FallbackInit == Init => FallbackInv
<1> SUFFICES ASSUME Init PROVE FallbackInv
  OBVIOUS
<1>1. PICK f, h : wire = Wire(f, h) /\ bare[1] = Wire(f, h)
  BY InitShape
<1>2. BareInv
  BY <1>1 DEF BareInv, Wire
<1>3. ASSUME NEW r \in Middleware, chain[r].kind = "recover" PROVE MarkBody(r) /\ PanicBody(r)
  <2>1. chain[r] = recoverResponseWriter
    BY <1>3, InitShape DEF Middlewares
  <2>2. MarkBody(r)
    BY <1>1, <2>1 DEF MarkBody, Wire, recoverResponseWriter
  <2>3. QED
    BY <2>2, InitShape DEF PanicBody
<1>4. QED
  BY <1>2, <1>3 DEF FallbackInv

\* A flush of a response that is out changes nothing.
LEMMA RepliedStays ==
    ASSUME IsChain(chain), ~ wire.hijacked, wire.wrote, chain' = Flush(chain)
    PROVE  wire' = wire
<1>1. wire' = Commit(wire, OK) /\ wire \in Wires
  BY FlushRecord DEF wire
<1>2. QED
  BY <1>1, StatusType, CommitFinal

\* No step tells the recover handler of a hijack that did not happen.
LEMMA MarkStep ==
    ASSUME NoLateHijack, TypeInv, HijackInv, FlowInv, RecoverInv, BareInv, [Next]_vars,
           NEW r \in Middleware, chain[r].kind = "recover", MarkBody(r)
    PROVE  MarkBody(r)'
<1>a. IsChain(chain) /\ r \in 1..Len(chain) /\ r \in 1..(Len(chain) - 1) /\ Len(chain) \in 1..Len(chain)
  BY DEF TypeInv, Middleware, IsChain
<1>1. CASE CallWriteHeader \/ CallWrite \/ CallHeader \/ CallRead \/ CallFlush
  <2>1. Keeps(chain, chain') /\ ~ wire.hijacked
    BY <1>1, CallsKeep, CallShape
  <2>2. wire'.hijacked = wire.hijacked /\ chain'[r].hijacked = chain[r].hijacked
    BY <1>a, <2>1 DEF Keeps, wire, Outermost
  <2>3. QED
    BY <2>1, <2>2 DEF MarkBody
<1>2. CASE CallHijack
  <2>1. PICK ok \in BOOLEAN :
          /\ wire'.hijacked = ok /\ bare'[1] = [bare[1] EXCEPT !.hijacked = ok]
          /\ chain' = Hijack(chain, ok)
          /\ Call(IF ~ok THEN "hijackFails" ELSE IF bare[1].wrote THEN "hijackLate" ELSE "hijack")
    BY <1>2, HijackMarks
  <2>2. ok /\ ~ bare[1].wrote
    <3>1. "recover" \in Range(Stack)
      BY DEF Range, Stack, Middleware
    <3>2. Ops[Stack] \cap {"hijackFails", "hijackLate"} = {}
      BY <3>1 DEF FlowInv, NoLateHijack
    <3>3. QED
      BY <2>1, <3>2 DEF Call
  <2>3. FreshFrom(chain, r)
    <3>1. pc = "handler" /\ depth = 1
      BY <2>1 DEF Call, FlowInv
    <3>2. QED
      BY <1>a, <3>1 DEF RecoverInv, RecoverBody
  <2>4. FreshFrom(chain', r)
    BY <1>a, <2>1, <2>3, FreshHijack
  <2>5. ~ bare'[1].wrote
    BY <2>1, <2>2, BareFacts DEF Wires
  <2>6. QED
    BY <2>1, <2>2, <2>4, <2>5 DEF MarkBody, FreshFrom, wire
<1>3. CASE End
  BY <1>3 DEF End, MarkBody, wire
<1>4. CASE \/ RecoverClean \/ RecoverPanic \/ RecoverAbort \/ AccessReturn \/ PayloadReturn
           \/ RecoverSinkPanics \/ AccessSinkPanics \/ PayloadSinkPanics
  <2>1. Keeps(chain, chain') /\ bare' = bare
    BY <1>4, UnwindShape
  <2>2. wire'.hijacked = wire.hijacked /\ chain'[r].hijacked = chain[r].hijacked
    BY <1>a, <2>1 DEF Keeps, wire, Outermost
  <2>3. wire.hijacked => wire' = wire
    BY <1>4, HijackedStays
  <2>4. QED
    BY <2>1, <2>2, <2>3 DEF MarkBody
<1>5. CASE Serve
  <2>1. Keeps(chain, chain')
    BY <1>5, ServeKeeps
  <2>2. wire'.hijacked = wire.hijacked /\ chain'[r].hijacked = chain[r].hijacked
    BY <1>a, <2>1 DEF Keeps, wire, Outermost
  <2>3. wire.hijacked => wire' = wire
    BY <1>5, HijackedStays
  <2>4. wire.hijacked => bare' = bare
    BY <1>5, BareFacts DEF Serve, BareInv
  <2>5. QED
    BY <2>2, <2>3, <2>4 DEF MarkBody
<1>6. CASE UNCHANGED vars
  BY <1>6 DEF vars, MarkBody, wire
<1>7. QED
  BY <1>1, <1>2, <1>3, <1>4, <1>5, <1>6 DEF Next

\* A panic is answered when the recover handler unwinds, and the answer stands.
LEMMA PanicStep ==
    ASSUME TypeInv, HijackInv, FlowInv, RecoverInv, [Next]_vars,
           NEW r \in Middleware, chain[r].kind = "recover", MarkBody(r), PanicBody(r)
    PROVE  PanicBody(r)'
<1>a. /\ IsChain(chain) /\ r \in 1..(Len(chain) - 1) /\ Len(chain) \in 1..Len(chain)
      /\ r < Len(chain) /\ depth \in Nat /\ r # 0
  BY DEF TypeInv, Middleware, IsChain
<1>1. CASE pc = "handler"
  <2>1. depth = 1
    BY <1>1 DEF FlowInv
  <2>2. depth' = depth
    <3>1. CASE CallWriteHeader \/ CallWrite \/ CallHeader \/ CallRead \/ CallFlush
      BY <3>1, CallShape
    <3>2. CASE CallHijack
      BY <3>2, HijackShape DEF Call
    <3>3. CASE End \/ Serve \/ UNCHANGED vars
      BY <3>3 DEF End, Serve, vars
    <3>4. QED
      BY <1>1, <3>1, <3>2, <3>3, UnwindShape DEF Next
  <2>3. QED
    BY <1>a, <2>1, <2>2 DEF PanicBody
<1>2. CASE \/ RecoverClean \/ RecoverPanic \/ RecoverAbort \/ AccessReturn \/ PayloadReturn
           \/ RecoverSinkPanics \/ AccessSinkPanics \/ PayloadSinkPanics
  <2>1. /\ pc = "unwind" /\ depth \in Middleware /\ ending' = ending /\ Keeps(chain, chain')
        /\ (depth' = depth + 1 \/ depth' = depth)
    BY <1>2, UnwindShape
  <2>2. wire'.hijacked = wire.hijacked
    BY <1>a, <2>1 DEF Keeps, wire, Outermost
  <2>3. CASE depth < r
    <3>1. depth' <= r
      BY <1>2, <2>3, UnwindInside
    <3>2. QED
      BY <1>a, <2>1, <3>1 DEF PanicBody
  <2>4. CASE depth = r
    <3> SUFFICES ASSUME depth' > r, ending = "panic"
                 PROVE  /\ lost' # r /\ ~ wire.hijacked => Seen(wire') = Reply500 /\ wire'.wrote
                        /\ lost' = 0 => panicking' = "no"
      BY <2>1, <2>2 DEF PanicBody
    <3>1. panicking = "panic" /\ FreshFrom(chain, r)
      BY <1>a, <2>4 DEF RecoverInv, RecoverBody
    <3>2. RecoverPanic \/ RecoverSinkPanics
      BY <1>2, <2>4, <3>1, StepKinds DEF RecoverClean, RecoverAbort
    <3>3. CASE RecoverSinkPanics
      <4>1. lost' = r
        BY <2>4, <3>3 DEF RecoverSinkPanics, PanicsInline, PanicsAside, SinkPanic
      <4>2. QED
        BY <1>a, <4>1
    <3>4. CASE RecoverPanic
      <4>1. panicking' = "no"
        BY <3>4 DEF RecoverPanic
      <4>2. ASSUME ~ wire.hijacked PROVE Seen(wire') = Reply500 /\ wire'.wrote
        <5>1. ~ chain[r].hijacked
          BY <4>2 DEF MarkBody
        <5>2. chain' = Write(WriteHeader(SetHeaders(chain, r + 1, {"fallback"}, {}), r + 1,
                                         InternalServerError), r + 1, Fallback)
          BY <2>4, <3>4, <5>1 DEF RecoverPanic
        <5>3. PICK k \in 1..Len(chain) : k = r + 1 /\ k - 1 = r
          BY <1>a DEF IsChain
        <5>4. ClearFrom(chain, k)
          BY <1>a, <5>3, OutsideIsClear
        <5>5. FreshFrom(chain, k - 1)
          BY <3>1, <5>3
        <5>6. QED
          BY <1>a, <4>2, <5>2, <5>3, <5>4, <5>5, FallbackReply DEF wire
      <4>3. QED
        BY <4>1, <4>2
    <3>5. QED
      BY <3>2, <3>3, <3>4
  <2>5. CASE r < depth
    <3> SUFFICES ASSUME ending = "panic"
                 PROVE  /\ lost' # r /\ ~ wire.hijacked => Seen(wire') = Reply500 /\ wire'.wrote
                        /\ lost' = 0 => panicking' = "no"
      BY <2>1, <2>2 DEF PanicBody
    <3>1. /\ lost # r /\ ~ wire.hijacked => Seen(wire) = Reply500 /\ wire.wrote
          /\ lost = 0 => panicking = "no"
      BY <2>5 DEF PanicBody
    <3>2. /\ chain' = chain \/ (panicking = "no" /\ ~ chain[depth].hijacked /\ chain' = Flush(chain))
          /\ \/ lost' = lost /\ panicking' = panicking
             \/ lost = 0 /\ lost' = depth /\ (panicking' = "panic" \/ pc' = "crashed")
      BY <1>2, <2>5, UnwindOutside
    <3>3. lost' # r => lost # r
      BY <1>a, <3>2
    <3>4. wire' = wire \/ chain' = Flush(chain)
      BY <3>2 DEF wire
    <3>5. ~ wire.hijacked /\ wire.wrote => wire' = wire
      BY <1>a, <3>4, RepliedStays
    <3>6. lost' = 0 => panicking' = "no"
      BY <2>1, <3>1, <3>2 DEF Middleware
    <3>7. QED
      BY <3>1, <3>3, <3>5, <3>6
  <2>6. QED
    BY <1>a, <2>3, <2>4, <2>5
<1>3. CASE Serve
  <2>1. /\ depth = Len(chain) /\ UNCHANGED <<depth, panicking, ending, lost>>
        /\ chain' = chain \/ (~ wire.hijacked /\ chain' = Flush(chain))
    BY <1>3 DEF Serve, wire
  <2>2. wire'.hijacked = wire.hijacked
    <3>1. Keeps(chain, chain')
      BY <1>3, ServeKeeps
    <3>2. QED
      BY <1>a, <3>1 DEF Keeps, wire, Outermost
  <2>3. wire' = wire \/ (~ wire.hijacked /\ chain' = Flush(chain))
    BY <2>1 DEF wire
  <2>4. ~ wire.hijacked /\ wire.wrote => wire' = wire
    BY <1>a, <2>3, RepliedStays
  <2>5. QED
    BY <1>a, <2>1, <2>2, <2>4 DEF PanicBody
<1>4. CASE UNCHANGED vars
  BY <1>4 DEF vars, PanicBody, wire
<1>5. QED
  BY <1>1, <1>2, <1>3, <1>4, CallShape, HijackShape DEF Next, End, Call

\* No step changes which element is whose.
LEMMA KindsStay ==
    ASSUME TypeInv, HijackInv, [Next]_vars
    PROVE  Middleware' = Middleware /\ \A k \in Middleware : chain'[k].kind = chain[k].kind
<1>1. \A k \in Middleware : k \in 1..Len(chain)
  BY DEF Middleware, TypeInv, IsChain
<1>2. CASE CallHijack
  BY <1>1, <1>2, HijackShape
<1>3. CASE Keeps(chain, chain')
  BY <1>1, <1>3, StackKept DEF Keeps
<1>4. CASE UNCHANGED chain
  BY <1>4 DEF Middleware
<1>5. QED
  BY <1>2, <1>3, <1>4, CallsKeep, MiddlewareTypes, ServeKeeps DEF Next, vars, End

\* Every step keeps the fallback.
LEMMA FallbackStep ==
    ASSUME NoLateHijack, TypeInv, HijackInv, FlowInv, RecoverInv, FallbackInv, [Next]_vars
    PROVE  FallbackInv'
<1>1. BareInv'
  BY BareStep DEF FallbackInv
<1>2. ASSUME NEW r \in Middleware', chain'[r].kind = "recover" PROVE MarkBody(r)' /\ PanicBody(r)'
  <2>1. r \in Middleware /\ chain[r].kind = "recover"
    BY <1>2, KindsStay
  <2>2. BareInv /\ MarkBody(r) /\ PanicBody(r)
    BY <2>1 DEF FallbackInv
  <2>3. MarkBody(r)'
    BY <2>1, <2>2, MarkStep
  <2>4. PanicBody(r)'
    BY <2>1, <2>2, PanicStep
  <2>5. QED
    BY <2>3, <2>4
<1>3. QED
  BY <1>1, <1>2 DEF FallbackInv

\* What the client got of a panic stands in every behaviour.
LEMMA FallbackAlways == ASSUME NoStreaming, NoLateHijack PROVE Spec => []FallbackInv
<1>1. TypeInv /\ HijackInv /\ FlowInv /\ RecoverInv /\ FallbackInv /\ [Next]_vars => FallbackInv'
  BY FallbackStep
<1>2. QED
  BY <1>1, FallbackInit, TypeInvAlways, FlowAlways, RecoverAlways, PTL DEF Spec

\* In every stack with a recover handler, whatever the handler below it had written
\* before it panicked, and whatever the other middlewares and their logs do: the client
\* gets the whole 500 and nothing else, and the request ends normally.
THEOREM PanicsGetOneReply == ASSUME NoStreaming, NoLateHijack PROVE Spec => []PanicGives500
<1>1. TypeInv /\ FlowInv /\ FallbackInv => PanicGives500
  <2> SUFFICES ASSUME TypeInv, FlowInv, FallbackInv, Ended, ending = "panic", Has("recover"), ~ Lost("recover")
               PROVE  /\ lost = 0 => pc = "done"
                      /\ IF wire.hijacked THEN wire.code = bare[1].code /\ wire.body = bare[1].body
                         ELSE Seen(wire) = Reply500
    BY DEF PanicGives500
  <2>1. PICK r \in Middleware : chain[r].kind = "recover"
    BY DEF Has
  <2>2. MarkBody(r) /\ PanicBody(r) /\ BareInv
    BY <2>1 DEF FallbackInv
  <2>3. depth > r /\ lost # r
    BY <2>1 DEF Ended, FlowInv, Middleware, Lost, TypeInv, IsChain
  <2>4. lost = 0 => pc = "done"
    BY <2>2, <2>3 DEF PanicBody, Ended, FlowInv
  <2>5. wire.hijacked => wire.code = bare[1].code /\ wire.body = bare[1].body
    BY <2>2 DEF MarkBody, Untouched, BareInv
  <2>6. QED
    BY <2>2, <2>3, <2>4, <2>5 DEF PanicBody
<1>2. QED
  BY <1>1, TypeInvAlways, FlowAlways, FallbackAlways, PTL

-----------------------------------------------------------------------------
(* What the recover handler buffers *)

\* The buffered response is the one that the handler gives without middleware,
Buffers(v, w) ==
    /\ v.wrote = w.wrote /\ v.body = w.body /\ (v.wrote => v.code = w.code)
    /\ w.headers = IF v.cloned THEN v.headers ELSE {"preset"}

\* whose headers do not change any more once its status is sent.
Settled(w) ==
    /\ ~ w.hints /\ "preset" \in w.headers
    /\ w.wrote => w.sent = w.headers /\ w.code >= 200

\* The elements inside r that have seen a status.
SyncBody(r) ==
    depth <= r => /\ Buffers(chain[r], bare[1])
                  /\ \A k \in 1..(r - 1) : chain[k].wrote = bare[1].wrote

\* What is on the wire after the recover handler: the 500, nothing, or all of it.
OutBody(r) ==
    depth > r /\ ~ wire.hijacked =>
        \/ Seen(wire) = Reply500 /\ wire.wrote /\ ~ (ending = "no" /\ lost = 0)
        \/ Untouched(wire) /\ panicking # "no"
        \/ ending = "no" /\ wire.wrote /\ Seen(wire) = Seen(Commit(bare[1], OK))

SyncInv ==
    \A r \in Middleware : chain[r].kind = "recover" =>
        /\ Settled(bare[1]) /\ SyncBody(r) /\ OutBody(r)
        /\ pc = "done" => bare[1].wrote \/ bare[1].hijacked

\* Inside a recover handler there is nothing but the access log.
LEMMA InsideIsAccess ==
    ASSUME NoPayloadInside, TypeInv, FlowInv, NEW r \in Middleware, chain[r].kind = "recover"
    PROVE  Inner(r) /\ \A k \in 1..(r - 1) : k \in Middleware /\ chain[k].kind = "access"
<1> SUFFICES ASSUME NEW k \in 1..(r - 1) PROVE k \in Middleware /\ chain[k].kind = "access"
  BY DEF Inner
<1>1. k \in Middleware /\ k < r /\ k # r /\ k \in 1..(Len(chain) - 1)
  BY DEF Middleware, TypeInv, IsChain
<1>2. chain[k].kind # "recover"
  BY <1>1, OneOfAKind
<1>3. chain[k].kind # "payload"
  <2>1. DOMAIN Stack = Middleware /\ Stack[k] = chain[k].kind /\ Stack[r] = "recover"
    BY <1>1 DEF Stack, Middleware
  <2>2. QED
    BY <1>1, <2>1 DEF NoPayloadInside, FlowInv
<1>4. chain[k] \in Layers
  BY <1>1 DEF TypeInv, IsChain
<1>5. QED
  BY <1>1, <1>2, <1>3, <1>4 DEF Layers, RecoverWriters, AccessWriters, PayloadWriters

\* A status, inside the recover handler,
LEMMA WriteHeaderInside ==
    ASSUME NEW ch, IsChain(ch), NEW r \in 1..(Len(ch) - 1), ch[r].kind = "recover",
           \A k \in 1..(r - 1) : ch[k].kind = "access", NEW c \in Statuses
    PROVE  /\ (\A k \in 1..(r - 1) : ~ ch[k].wrote)
                  => \A j \in 1..r : WriteHeader(ch, 1, c)[j] = OnWriteHeader(ch[j], c)
           /\ (\A k \in 1..r : ch[k].wrote) => \A j \in 1..r : WriteHeader(ch, 1, c)[j] = ch[j]
<1>1. \A j \in 1..r : j \in DOMAIN ch /\ j \in 1..Len(ch) /\ \A i \in 1..(j - 1) : i \in 1..(r - 1)
  BY DEF IsChain
<1>2. ASSUME NEW j \in 1..r
      PROVE  /\ (\A k \in 1..(r - 1) : ~ ch[k].wrote) => WriteHeader(ch, 1, c)[j] = OnWriteHeader(ch[j], c)
             /\ WriteHeader(ch, 1, c)[j] \in {ch[j], OnWriteHeader(ch[j], c)}
  BY <1>1 DEF WriteHeader, Reach
<1>3. ASSUME NEW j \in 1..r, ch[j].wrote PROVE OnWriteHeader(ch[j], c) = ch[j]
  <2>1. ch[j].kind \in {"access", "recover"}
    BY <1>3
  <2>2. QED
    BY <1>3, <2>1 DEF OnWriteHeader
<1>4. QED
  BY <1>2, <1>3

\* bytes,
LEMMA WriteInside ==
    ASSUME NEW ch, IsChain(ch), NEW r \in 1..(Len(ch) - 1), ch[r].kind = "recover",
           \A k \in 1..(r - 1) : ch[k].kind = "access", NEW b
    PROVE  \A j \in 1..r : Write(ch, 1, b)[j] = OnWrite(ch[j], b)
<1> SUFFICES ASSUME NEW j \in 1..r PROVE Write(ch, 1, b)[j] = OnWrite(ch[j], b)
  OBVIOUS
<1>1. j \in DOMAIN ch /\ j \in 1..Len(ch) /\ \A i \in 1..(j - 1) : i \in 1..(r - 1)
  BY DEF IsChain
<1>2. QED
  BY <1>1 DEF Write, Reach

\* and headers.
LEMMA SetHeadersInside ==
    ASSUME NEW ch, IsChain(ch), NEW r \in 1..(Len(ch) - 1), ch[r].kind = "recover",
           \A k \in 1..(r - 1) : ch[k].kind = "access",
           NEW add \in HeaderSets, NEW del \in HeaderSets
    PROVE  LET v == SetHeaders(ch, 1, add, del)[r]
           IN  /\ v.wrote = ch[r].wrote /\ v.code = ch[r].code /\ v.body = ch[r].body /\ v.cloned
               /\ v.headers = ((IF ch[r].cloned THEN ch[r].headers ELSE Outermost(ch).headers) \cup add) \ del
               /\ \A k \in 1..(r - 1) : SetHeaders(ch, 1, add, del)[k] = ch[k]
<1>1. 1 \in 1..Len(ch) /\ r \in 1..Len(ch) /\ 1 \in 1..r /\ Len(ch) \in Nat
  BY DEF IsChain
<1>2. HeaderOwner(ch, 1) = r
  <2>1. PICK o \in 1..r : o = HeaderOwner(ch, 1)
    BY <1>1, HeaderSpares
  <2>2. ch[o].kind \in {"recover", "wire"}
    BY <1>1, <2>1, OwnerFacts
  <2>3. \A k \in 1..(r - 1) : ch[k].kind \notin {"recover", "wire"}
    OBVIOUS
  <2>4. QED
    BY <2>1, <2>2, <2>3
<1>3. PICK v \in RecoverWriters : v = ch[r]
  BY <1>1, KindOf DEF IsChain
<1>4. PICK hs \in HeaderSets : hs = Outermost(ch).headers
  BY DEF IsChain, Wires, Outermost
<1>5. PICK u \in RecoverWriters :
        /\ u = IF v.cloned THEN v ELSE [v EXCEPT !.cloned = TRUE, !.headers = hs]
        /\ u.wrote = v.wrote /\ u.code = v.code /\ u.body = v.body /\ u.cloned
        /\ u.headers = IF v.cloned THEN v.headers ELSE hs
  <2>1. CASE v.cloned
    BY <2>1
  <2>2. CASE ~ v.cloned
    <3>1. PICK u : u = [v EXCEPT !.cloned = TRUE, !.headers = hs]
      OBVIOUS
    <3>2. u \in RecoverWriters /\ u.wrote = v.wrote /\ u.code = v.code /\ u.body = v.body
          /\ u.cloned /\ u.headers = hs
      BY <3>1 DEF RecoverWriters
    <3>3. QED
      BY <2>2, <3>1, <3>2
  <2>3. QED
    BY <2>1, <2>2
<1>6. PICK hd : hd = Header(ch, 1)
  OBVIOUS
<1>7. hd = IF v.cloned THEN ch ELSE [ch EXCEPT ![r] = u]
  BY <1>2, <1>3, <1>4, <1>5, <1>6 DEF Header
<1>8. hd[r] = u /\ DOMAIN hd = DOMAIN ch /\ \A k \in 1..(r - 1) : hd[k] = ch[k]
  <2>1. r \in DOMAIN ch /\ \A k \in 1..(r - 1) : k # r
    BY <1>1 DEF IsChain
  <2>2. QED
    BY <1>3, <1>5, <1>7, <2>1
<1>9. PICK x : x = [u EXCEPT !.headers = (u.headers \cup add) \ del]
  OBVIOUS
<1>10. PICK ch2 : ch2 = [hd EXCEPT ![r] = x]
  OBVIOUS
<1>11. SetHeaders(ch, 1, add, del) = ch2
  BY <1>2, <1>6, <1>8, <1>9, <1>10 DEF SetHeaders
<1>12. ch2[r] = x /\ \A k \in 1..(r - 1) : ch2[k] = ch[k]
  <2>1. r \in DOMAIN hd /\ \A k \in 1..(r - 1) : k # r
    BY <1>1, <1>8 DEF IsChain
  <2>2. QED
    BY <1>8, <1>10, <2>1
<1>13. /\ x.wrote = u.wrote /\ x.code = u.code /\ x.body = u.body /\ x.cloned
       /\ x.headers = (u.headers \cup add) \ del
  BY <1>5, <1>9 DEF RecoverWriters
<1>14. QED
  BY <1>3, <1>4, <1>5, <1>11, <1>12, <1>13

\* What OnWriteHeader does to the buffer and to the wire,
LEMMA HeaderBuffers ==
    ASSUME NEW v \in RecoverWriters, NEW w \in Wires, ~ w.hijacked, NEW c \in Statuses, c >= 200,
           Buffers(v, w), Settled(w)
    PROVE  /\ Buffers(OnWriteHeader(v, c), Commit(w, c)) /\ Settled(Commit(w, c))
           /\ OnWriteHeader(v, c).wrote /\ Commit(w, c).wrote
<1>1. CASE w.wrote
  <2>1. Commit(w, c) = w /\ OnWriteHeader(v, c) = v
    BY <1>1, CommitFinal DEF OnWriteHeader, Buffers, RecoverWriters
  <2>2. QED
    BY <1>1, <2>1 DEF Buffers
<1>2. CASE ~ w.wrote
  <2>1. PICK x : x = [w EXCEPT !.wrote = TRUE, !.code = c, !.sent = w.headers]
    OBVIOUS
  <2>2. PICK y : y = [v EXCEPT !.code = c, !.wrote = TRUE]
    OBVIOUS
  <2>3. Commit(w, c) = x /\ OnWriteHeader(v, c) = y
    BY <1>2, <2>1, <2>2, StatusType DEF Commit, OnWriteHeader, Buffers, RecoverWriters
  <2>4. /\ x.wrote /\ x.code = c /\ x.sent = w.headers /\ x.headers = w.headers
        /\ x.hints = w.hints /\ x.body = w.body
    BY <2>1 DEF Wires
  <2>5. y.wrote /\ y.code = c /\ y.headers = v.headers /\ y.body = v.body /\ y.cloned = v.cloned
    BY <2>2 DEF RecoverWriters
  <2>6. QED
    BY <2>3, <2>4, <2>5 DEF Buffers, Settled
<1>3. QED
  BY <1>1, <1>2

\* and OnWrite.
LEMMA WriteBuffers ==
    ASSUME NEW v \in RecoverWriters, NEW w \in Wires, ~ w.hijacked, NEW b \in Seq(Nat),
           Buffers(v, w), Settled(w)
    PROVE  Buffers(OnWrite(v, b), OnWrite(w, b)) /\ Settled(OnWrite(w, b)) /\ OnWrite(w, b).wrote
<1>1. OK >= 200 /\ OK \in Statuses
  BY StatusType DEF OK
<1>2. PICK x \in Wires : x = Commit(w, OK)
  BY <1>1, CommitFacts
<1>3. PICK y \in RecoverWriters : y = OnWriteHeader(v, OK)
  <2>1. v \in Writers /\ v.kind = "recover"
    BY DEF Writers, Layers, RecoverWriters
  <2>2. PICK y \in Writers : y = OnWriteHeader(v, OK) /\ y.kind = "recover"
    BY <1>1, <2>1, OnWriteHeaderFacts
  <2>3. QED
    BY <2>2, KindOf
<1>4. Buffers(y, x) /\ Settled(x) /\ y.wrote /\ x.wrote
  BY <1>1, <1>2, <1>3, HeaderBuffers
<1>5. PICK x2 : x2 = [x EXCEPT !.body = x.body \o b]
  OBVIOUS
<1>6. PICK y2 : y2 = [y EXCEPT !.body = y.body \o b]
  OBVIOUS
<1>7. OnWrite(w, b) = x2
  BY <1>2, <1>5 DEF OnWrite, Wires
<1>8. OnWrite(v, b) = y2
  BY <1>3, <1>6 DEF OnWrite, RecoverWriters
<1>9. /\ x2.wrote = x.wrote /\ x2.code = x.code /\ x2.sent = x.sent /\ x2.headers = x.headers
      /\ x2.hints = x.hints /\ x2.body = x.body \o b
  BY <1>5 DEF Wires
<1>10. /\ y2.wrote = y.wrote /\ y2.code = y.code /\ y2.headers = y.headers /\ y2.cloned = y.cloned
       /\ y2.body = y.body \o b
  BY <1>6 DEF RecoverWriters
<1>11. QED
  BY <1>4, <1>7, <1>8, <1>9, <1>10 DEF Buffers, Settled

\* The handler's calls keep buffer and bare wire together.
LEMMA SyncCall ==
    ASSUME SettledHeaders, FinalCodes, NoPayloadInside, TypeInv, HijackInv, FlowInv, BareInv,
           NEW r \in Middleware, chain[r].kind = "recover", FreshFrom(chain, r),
           Settled(bare[1]), SyncBody(r), depth <= r, NoStreaming,
           CallWriteHeader \/ CallWrite \/ CallHeader \/ CallRead
    PROVE  /\ Settled(bare'[1]) /\ Buffers(chain'[r], bare'[1])
           /\ \A k \in 1..(r - 1) : chain'[k].wrote = bare'[1].wrote
<1>1. /\ IsChain(chain) /\ r \in 1..(Len(chain) - 1) /\ r \in 1..Len(chain) /\ r \in 1..r
      /\ \A k \in 1..(r - 1) : k \in 1..r /\ k \in 1..Len(chain) /\ chain[k].kind = "access"
  BY InsideIsAccess DEF TypeInv, Middleware, IsChain
<1>2. PICK w \in Wires : w = bare[1] /\ ~ w.hijacked /\ Settled(w)
  BY BareFacts, CallShape DEF BareInv
<1>3. PICK v \in RecoverWriters : v = chain[r]
  BY <1>1, KindOf DEF IsChain
<1>4. Buffers(v, w) /\ \A k \in 1..(r - 1) : chain[k].wrote = w.wrote
  BY <1>2, <1>3 DEF SyncBody
<1>5. \A k \in 1..(r - 1) : chain[k] \in AccessWriters
  BY <1>1, KindOf DEF IsChain
<1>6. CASE \E c \in Codes : chain' = WriteHeader(chain, 1, c) /\ bare'[1] = Commit(bare[1], c)
  <2>1. PICK c \in Codes : chain' = WriteHeader(chain, 1, c) /\ bare'[1] = Commit(w, c)
    BY <1>2, <1>6
  <2>2. c \in Statuses /\ c >= 200
    BY StatusType DEF FinalCodes
  <2>3. CASE w.wrote
    <3>1. bare'[1] = w
      BY <1>2, <2>1, <2>2, <2>3, CommitFinal
    <3>2. \A k \in 1..r : chain[k].wrote
      <4>1. \A k \in 1..r : k = r \/ k \in 1..(r - 1)
        BY <1>1
      <4>2. w.wrote = TRUE
        BY <2>3 DEF Wires
      <4>3. QED
        BY <1>3, <1>4, <4>1, <4>2 DEF Buffers
    <3>3. chain'[r] = v /\ \A k \in 1..(r - 1) : chain'[k] = chain[k]
      BY <1>1, <1>3, <2>1, <2>2, <3>2, WriteHeaderInside
    <3>4. QED
      BY <1>2, <1>4, <3>1, <3>3
  <2>4. CASE ~ w.wrote
    <3>1. /\ chain'[r] = OnWriteHeader(v, c)
          /\ \A k \in 1..(r - 1) : chain'[k] = OnWriteHeader(chain[k], c)
      BY <1>1, <1>3, <1>4, <2>1, <2>2, <2>4, WriteHeaderInside
    <3>2. \A a \in AccessWriters : OnWriteHeader(a, c).wrote = TRUE
      BY DEF OnWriteHeader, AccessWriters
    <3>3. Buffers(chain'[r], bare'[1]) /\ Settled(bare'[1]) /\ bare'[1].wrote
      BY <1>2, <1>4, <2>1, <2>2, <3>1, HeaderBuffers
    <3>4. \A k \in 1..(r - 1) : chain'[k].wrote = TRUE
      BY <1>5, <3>1, <3>2
    <3>5. bare'[1].wrote = TRUE
      <4>1. bare'[1] \in Wires
        BY <2>1, <2>2, CommitFacts
      <4>2. QED
        BY <3>3, <4>1 DEF Wires
    <3>6. QED
      BY <3>3, <3>4, <3>5
  <2>5. QED
    BY <2>3, <2>4
<1>7. CASE \E b \in Seq(Nat) : chain' = Write(chain, 1, b) /\ bare'[1] = OnWrite(bare[1], b)
  <2>1. PICK b \in Seq(Nat) : chain' = Write(chain, 1, b) /\ bare'[1] = OnWrite(w, b)
    BY <1>2, <1>7
  <2>2. chain'[r] = OnWrite(v, b) /\ \A k \in 1..(r - 1) : chain'[k] = OnWrite(chain[k], b)
    <3>1. \A j \in 1..r : Write(chain, 1, b)[j] = OnWrite(chain[j], b)
      BY <1>1, WriteInside
    <3>2. r \in 1..r /\ \A k \in 1..(r - 1) : k \in 1..r
      BY <1>1
    <3>3. QED
      BY <1>1, <1>3, <2>1, <3>1, <3>2
  <2>3. Buffers(chain'[r], bare'[1]) /\ Settled(bare'[1]) /\ bare'[1].wrote
    BY <1>2, <1>4, <2>1, <2>2, WriteBuffers
  <2>4. bare'[1] \in Wires
    BY <1>7, CallsKeep, BareFacts DEF Keeps, IsChain
  <2>5. \A a \in AccessWriters : OnWrite(a, b).wrote = TRUE
    BY DEF OnWrite, OnWriteHeader, AccessWriters
  <2>6. bare'[1].wrote = TRUE
    BY <2>3, <2>4 DEF Wires
  <2>7. QED
    BY <1>5, <2>2, <2>3, <2>5, <2>6
<1>8. CASE \E add \in HeaderSets, del \in HeaderSets :
             /\ chain' = SetHeaders(chain, 1, add, del)
             /\ bare'[1] = [bare[1] EXCEPT !.headers = (@ \cup add) \ del]
             /\ \/ add = {"own"} /\ del = {} /\ Call(IF bare[1].wrote THEN "late" ELSE "set")
                \/ Call("delete")
  <2>1. PICK add \in HeaderSets, del \in HeaderSets :
             /\ chain' = SetHeaders(chain, 1, add, del)
             /\ bare'[1] = [bare[1] EXCEPT !.headers = (@ \cup add) \ del]
             /\ \/ add = {"own"} /\ del = {} /\ Call(IF bare[1].wrote THEN "late" ELSE "set")
                \/ Call("delete")
    BY <1>8
  <2>2. ~ Call("delete") /\ ~ Call("late")
    <3>1. "recover" \in Range(Stack)
      BY DEF Range, Stack, Middleware
    <3>2. Ops[Stack] \cap {"late", "delete"} = {}
      BY <3>1 DEF FlowInv, SettledHeaders
    <3>3. QED
      BY <3>2 DEF Call
  <2>3. ~ w.wrote /\ del = {}
    BY <1>2, <2>1, <2>2
  <2>4. PICK hs : hs = (w.headers \cup add) \ del
    OBVIOUS
  <2>5. PICK x : x = [w EXCEPT !.headers = hs]
    OBVIOUS
  <2>6. bare'[1] = x
    BY <1>2, <2>1, <2>4, <2>5
  <2>7. /\ x.wrote = w.wrote /\ x.body = w.body /\ x.code = w.code /\ x.hints = w.hints /\ x.headers = hs
    BY <2>5 DEF Wires
  <2>8. Settled(x)
    BY <1>2, <2>3, <2>4, <2>7 DEF Settled
  <2>9. Outermost(chain).headers = {"preset"}
    BY DEF FreshFrom, Untouched
  <2>10. PICK u : u = SetHeaders(chain, 1, add, del)[r]
    OBVIOUS
  <2>11. /\ u.wrote = v.wrote /\ u.code = v.code /\ u.body = v.body /\ u.cloned
         /\ u.headers = ((IF v.cloned THEN v.headers ELSE Outermost(chain).headers) \cup add) \ del
         /\ \A k \in 1..(r - 1) : SetHeaders(chain, 1, add, del)[k] = chain[k]
    BY <1>1, <1>3, <2>10, SetHeadersInside
  <2>12. u.headers = hs
    BY <1>4, <2>4, <2>9, <2>11 DEF Buffers
  <2>13. Buffers(u, x)
    BY <1>4, <2>3, <2>7, <2>11, <2>12 DEF Buffers
  <2>14. QED
    BY <1>4, <2>1, <2>6, <2>7, <2>8, <2>10, <2>11, <2>13
<1>9. CASE bare' = bare /\ \E n \in Nat : chain' = Read(chain, n)
  <2>1. chain'[r] = chain[r] /\ \A k \in 1..(r - 1) : chain'[k] = chain[k]
    BY <1>1, <1>9, ReadSpares
  <2>2. QED
    BY <1>2, <1>3, <1>4, <1>9, <2>1
<1>10. ~ CallFlush
  BY NoFlushCall
<1>11. QED
  BY <1>6, <1>7, <1>8, <1>9, <1>10, CallShape

\* A hijack neither.
LEMMA SyncHijack ==
    ASSUME TypeInv, NEW r \in Middleware, chain[r].kind = "recover",
           Inner(r), \A k \in 1..(r - 1) : chain[k].kind = "access",
           Settled(bare[1]), SyncBody(r), depth <= r, CallHijack
    PROVE  /\ Settled(bare'[1]) /\ Buffers(chain'[r], bare'[1])
           /\ \A k \in 1..(r - 1) : chain'[k].wrote = bare'[1].wrote
<1>1. PICK ok \in BOOLEAN : bare'[1] = [bare[1] EXCEPT !.hijacked = ok] /\ chain' = Hijack(chain, ok)
  BY HijackMarks
<1>2. /\ IsChain(chain) /\ r \in 1..(Len(chain) - 1) /\ r \in 1..Len(chain)
      /\ \A k \in 1..(r - 1) : k \in 1..(Len(chain) - 1) /\ k \in 1..Len(chain)
  BY DEF TypeInv, Middleware, IsChain
<1>3. PICK w \in Wires : w = bare[1]
  BY BareFacts
<1>4. PICK v \in RecoverWriters : v = chain[r]
  BY <1>2, KindOf DEF IsChain
<1>5. \A k \in 1..(r - 1) : chain[k] \in AccessWriters
  BY <1>2, KindOf DEF IsChain
<1>6. \A j \in 1..(Len(chain) - 1) : chain'[j] = [chain[j] EXCEPT !.hijacked = TRUE]
  BY <1>1, <1>2, HijackRecord
<1>7. PICK x : x = [w EXCEPT !.hijacked = ok]
  OBVIOUS
<1>8. /\ x.wrote = w.wrote /\ x.body = w.body /\ x.code = w.code /\ x.hints = w.hints
      /\ x.headers = w.headers /\ x.sent = w.sent
  BY <1>7 DEF Wires
<1>9. PICK y : y = [v EXCEPT !.hijacked = TRUE]
  OBVIOUS
<1>10. /\ y.wrote = v.wrote /\ y.body = v.body /\ y.code = v.code /\ y.headers = v.headers
       /\ y.cloned = v.cloned
  BY <1>9 DEF RecoverWriters
<1>11. \A a \in AccessWriters : [a EXCEPT !.hijacked = TRUE].wrote = a.wrote
  BY DEF AccessWriters
<1>12. \A k \in 1..(r - 1) : chain'[k].wrote = chain[k].wrote
  <2> SUFFICES ASSUME NEW k \in 1..(r - 1) PROVE chain'[k].wrote = chain[k].wrote
    OBVIOUS
  <2>1. PICK a \in AccessWriters : a = chain[k]
    BY <1>5
  <2>2. chain'[k] = [a EXCEPT !.hijacked = TRUE]
    BY <1>2, <1>6, <2>1
  <2>3. QED
    BY <1>11, <2>1, <2>2
<1>13. bare'[1] = x /\ chain'[r] = y
  BY <1>1, <1>2, <1>3, <1>4, <1>6, <1>7, <1>9
<1>14. Settled(x)
  BY <1>3, <1>8 DEF Settled
<1>15. Buffers(v, w) /\ \A k \in 1..(r - 1) : chain[k].wrote = w.wrote
  BY <1>3, <1>4 DEF SyncBody
<1>16. Buffers(y, x)
  BY <1>8, <1>10, <1>15 DEF Buffers
<1>17. QED
  BY <1>8, <1>12, <1>13, <1>14, <1>15, <1>16

\* The headers of a wire do not touch the rest of it.
LEMMA SetHeadersRecord ==
    ASSUME NEW ch, IsChain(ch), NEW k \in 1..Len(ch), ClearFrom(ch, k), NEW add, NEW del,
           NEW w \in Wires, w = Outermost(ch)
    PROVE  LET x == Outermost(SetHeaders(ch, k, add, del))
           IN  /\ x.headers = (w.headers \cup add) \ del /\ x.hints = w.hints /\ x.wrote = w.wrote
               /\ x.body = w.body /\ x.hijacked = w.hijacked
<1>1. Outermost(SetHeaders(ch, k, add, del)) = [Outermost(ch) EXCEPT !.headers = (@ \cup add) \ del]
  BY SetHeadersOutside
<1>2. PICK h2 : h2 = (w.headers \cup add) \ del
  OBVIOUS
<1>3. Outermost(SetHeaders(ch, k, add, del)) = [w EXCEPT !.headers = h2]
  BY <1>1, <1>2
<1>4. QED
  BY <1>2, <1>3 DEF Wires

\* Flushing the buffer onto a fresh wire gives the bare response.
LEMMA FlushToReply ==
    ASSUME NEW ch, IsChain(ch), NEW r \in 1..(Len(ch) - 1), NEW k \in 1..Len(ch), k = r + 1,
           ClearFrom(ch, k), FreshFrom(ch, r), ~ Outermost(ch).hijacked,
           NEW v \in RecoverWriters, v = ch[r],
           NEW w \in Wires, ~ w.hijacked, Buffers(v, w), Settled(w),
           ~ w.wrote => w.body = <<>>
    PROVE  LET x == Outermost(flushTo(ch, r))
           IN  x.wrote /\ Seen(x) = Seen(Commit(w, OK))
<1>1. PICK a : a = IF v.cloned THEN SetHeaders(ch, k, v.headers, {}) ELSE ch
  OBVIOUS
<1>2. PICK b : b = IF v.wrote THEN WriteHeader(a, k, v.code) ELSE a
  OBVIOUS
<1>3. flushTo(ch, r) = Write(b, k, v.body)
  BY <1>1, <1>2 DEF flushTo
<1>4. PICK hs \in HeaderSets, none \in HeaderSets : hs = v.headers /\ none = {}
  BY DEF RecoverWriters, HeaderSets
<1>5. Keeps(ch, a)
  <2>1. Keeps(ch, SetHeaders(ch, k, hs, none)) /\ Keeps(ch, ch)
    BY SetHeadersKeeps DEF Keeps
  <2>2. QED
    BY <1>1, <1>4, <2>1
<1>6. IsChain(a) /\ Len(a) = Len(ch) /\ ClearFrom(a, k)
  BY <1>5, ClearKept
<1>7. PICK w0 \in Wires : w0 = Outermost(ch) /\ Untouched(w0) /\ ~ w0.hijacked
  BY DEF IsChain, Outermost, FreshFrom
<1>8. PICK w1 \in Wires :
        /\ w1 = Outermost(a) /\ w1.headers = w.headers /\ ~ w1.hints /\ ~ w1.wrote
        /\ w1.body = <<>> /\ ~ w1.hijacked
  <2>0. PICK w1 \in Wires : w1 = Outermost(a)
    BY <1>6 DEF IsChain, Outermost
  <2>1. CASE v.cloned
    <3>1. w1 = Outermost(SetHeaders(ch, k, hs, none))
      BY <1>1, <1>4, <2>0, <2>1
    <3>2. PICK h2 : h2 = (w0.headers \cup hs) \ none
      OBVIOUS
    <3>3. w1.headers = h2 /\ w1.hints = w0.hints /\ w1.wrote = w0.wrote /\ w1.body = w0.body
          /\ w1.hijacked = w0.hijacked
      BY <1>7, <3>1, <3>2, SetHeadersRecord
    <3>4. h2 = w.headers
      BY <1>4, <1>7, <2>1, <3>2 DEF Untouched, Settled, Buffers
    <3>5. QED
      BY <1>7, <2>0, <3>3, <3>4 DEF Untouched
  <2>2. CASE ~ v.cloned
    BY <1>1, <1>7, <2>0, <2>2 DEF Untouched, Buffers
  <2>3. QED
    BY <2>1, <2>2
<1>9. \A j \in k..(Len(a) - 1) : a[j].kind = "access" => ~ a[j].wrote
  <2>1. \A j \in 1..(Len(ch) - 1) : a[j] = ch[j]
    BY <1>1, SetHeadersOutside
  <2>2. \A j \in k..(Len(a) - 1) : j \in 1..(Len(ch) - 1) /\ j \in (r + 1)..(Len(ch) - 1)
    BY <1>6 DEF IsChain
  <2>3. QED
    BY <2>1, <2>2 DEF FreshFrom
<1>10. v.code \in Statuses /\ v.body \in Seq(Nat)
  BY DEF RecoverWriters
<1>11. Keeps(a, b)
  <2>1. Keeps(a, WriteHeader(a, k, v.code)) /\ Keeps(a, a)
    BY <1>6, <1>10, WriteHeaderKeeps DEF Keeps
  <2>2. QED
    BY <1>2, <2>1
<1>12. IsChain(b) /\ Len(b) = Len(ch) /\ ClearFrom(b, k)
  BY <1>6, <1>11, ClearKept
<1>13. PICK w2 \in Wires : w2 = Outermost(b)
  BY <1>12 DEF IsChain, Outermost
<1>14. Outermost(flushTo(ch, r)) = OnWrite(w2, v.body)
  BY <1>3, <1>10, <1>12, <1>13, WriteOutside
<1>15. OK \in Statuses /\ OK >= 200
  BY StatusType DEF OK
<1>16. CASE v.wrote
  <2>1. w.wrote /\ w.code = v.code /\ w.sent = w.headers /\ w.code >= 200 /\ ~ w.hints
    BY <1>16 DEF Buffers, Settled
  <2>2. w2 = Commit(w1, v.code)
    BY <1>2, <1>6, <1>8, <1>9, <1>10, <1>13, <1>16, WriteHeaderOutside
  <2>3. /\ w2.wrote /\ w2.code = w.code /\ w2.sent = w.sent /\ w2.hints = w1.hints
        /\ w2.body = <<>> /\ ~ w2.hijacked
    BY <1>8, <1>10, <2>1, <2>2, CommitFinal, CommitFacts
  <2>4. Commit(w2, OK) = w2 /\ Commit(w, OK) = w
    BY <1>15, <2>1, <2>3, CommitFinal
  <2>5. PICK x : x = [w2 EXCEPT !.body = w2.body \o v.body]
    OBVIOUS
  <2>6. OnWrite(w2, v.body) = x
    BY <2>3, <2>4, <2>5 DEF OnWrite, Wires
  <2>7. /\ x.wrote = w2.wrote /\ x.code = w2.code /\ x.sent = w2.sent /\ x.hints = w2.hints
        /\ x.body = w2.body \o v.body /\ x.hijacked = w2.hijacked
    BY <2>5 DEF Wires
  <2>8. x.body = w.body
    BY <1>10, <2>3, <2>7 DEF Buffers
  <2>9. x.hints = w.hints /\ x.hijacked = w.hijacked
    BY <1>8, <2>1, <2>3, <2>7 DEF Wires
  <2>10. QED
    BY <1>14, <2>3, <2>4, <2>6, <2>7, <2>8, <2>9 DEF Seen
<1>17. CASE ~ v.wrote
  <2>1. ~ w.wrote /\ w.body = <<>> /\ v.body = <<>> /\ ~ w.hints
    BY <1>17 DEF Buffers, Settled
  <2>2. w2 = w1
    BY <1>2, <1>8, <1>13, <1>17
  <2>3. PICK y \in Wires : y = Commit(w1, OK)
    BY <1>15, CommitFacts
  <2>4. /\ y.wrote /\ y.code = OK /\ y.sent = w.headers /\ y.hints = w1.hints
        /\ y.body = <<>> /\ y.hijacked = w1.hijacked
    BY <1>8, <1>15, <2>3, CommitFinal, CommitFacts
  <2>5. PICK z \in Wires : z = Commit(w, OK)
    BY <1>15, CommitFacts
  <2>6. /\ z.code = OK /\ z.sent = w.headers /\ z.hints = w.hints
        /\ z.body = <<>> /\ z.hijacked = w.hijacked
    BY <1>15, <2>1, <2>5, CommitFinal, CommitFacts
  <2>7. PICK x : x = [y EXCEPT !.body = y.body \o v.body]
    OBVIOUS
  <2>8. OnWrite(w2, v.body) = x
    BY <1>8, <2>2, <2>3, <2>7 DEF OnWrite, Wires
  <2>9. /\ x.wrote = y.wrote /\ x.code = y.code /\ x.sent = y.sent /\ x.hints = y.hints
        /\ x.body = y.body \o v.body /\ x.hijacked = y.hijacked
    BY <2>7 DEF Wires
  <2>10. x.body = <<>>
    BY <2>1, <2>4, <2>9
  <2>11. x.hints = z.hints /\ x.hijacked = z.hijacked
    BY <1>8, <2>1, <2>4, <2>6, <2>9 DEF Wires
  <2>12. QED
    BY <1>14, <2>4, <2>5, <2>6, <2>8, <2>9, <2>10, <2>11 DEF Seen
<1>18. QED
  BY <1>16, <1>17

\* It holds at the beginning.
LEMMA SyncInit == NoPayloadInside /\ Init => SyncInv
<1> SUFFICES ASSUME NoPayloadInside, Init, NEW r \in Middleware, chain[r].kind = "recover"
             PROVE  /\ Settled(bare[1]) /\ SyncBody(r) /\ OutBody(r)
                    /\ pc = "done" => bare[1].wrote \/ bare[1].hijacked
  BY DEF SyncInv
<1>1. PICK f, h : bare[1] = Wire(f, h)
  BY InitShape
<1>2. Settled(bare[1]) /\ bare[1].wrote = FALSE /\ bare[1].body = <<>> /\ bare[1].headers = {"preset"}
  BY <1>1 DEF Settled, Wire
<1>3. Buffers(chain[r], bare[1])
  <2>1. chain[r] = recoverResponseWriter
    BY InitShape DEF Middlewares
  <2>2. chain[r].wrote = FALSE /\ chain[r].body = <<>> /\ chain[r].cloned = FALSE
    BY <2>1 DEF recoverResponseWriter
  <2>3. QED
    BY <1>2, <2>2 DEF Buffers
<1>4. \A k \in 1..(r - 1) : chain[k].wrote = FALSE
  <2> SUFFICES ASSUME NEW k \in 1..(r - 1) PROVE chain[k].wrote = FALSE
    OBVIOUS
  <2>1. k \in Middleware /\ chain[k].kind = "access"
    BY InsideIsAccess, FlowInit, InitFacts
  <2>2. chain[k] = accessResponseWriter
    BY <2>1, InitShape DEF Middlewares
  <2>3. QED
    BY <2>2 DEF accessResponseWriter
<1>5. depth = 1 /\ pc = "handler" /\ ~ (depth > r)
  BY InitShape DEF Middleware
<1>6. QED
  BY <1>2, <1>3, <1>4, <1>5 DEF SyncBody, OutBody

\* One middleware after next.
LEMMA SyncUnwind ==
    ASSUME Tidy, TypeInv, HijackInv, FlowInv, RecoverInv, FallbackInv,
           NEW r \in Middleware, chain[r].kind = "recover",
           Settled(bare[1]), SyncBody(r), OutBody(r),
           \/ RecoverClean \/ RecoverPanic \/ RecoverAbort \/ AccessReturn \/ PayloadReturn
           \/ RecoverSinkPanics \/ AccessSinkPanics \/ PayloadSinkPanics
    PROVE  SyncBody(r)' /\ OutBody(r)'
<1>a. /\ IsChain(chain) /\ r \in 1..(Len(chain) - 1) /\ Len(chain) \in 1..Len(chain)
      /\ r < Len(chain) /\ depth \in Nat /\ r # 0 /\ r \in Nat
  BY DEF TypeInv, Middleware, IsChain
<1>1. /\ pc = "unwind" /\ depth \in Middleware /\ bare' = bare /\ ending' = ending
      /\ Keeps(chain, chain')
      /\ \/ depth' = depth + 1 /\ pc' = pc
         \/ depth' = depth /\ pc' = "crashed" /\ lost' = depth /\ panicking' = panicking
            /\ lines' = lines
      /\ \/ lost' = lost /\ panicking' = panicking
         \/ lost' = lost /\ panicking = "panic" /\ panicking' = "no" /\ RecoverPanic
         \/ lost = 0 /\ lost' = depth /\ (panicking' = "panic" \/ pc' = "crashed")
  BY UnwindShape
<1>2. wire'.hijacked = wire.hijacked
  BY <1>a, <1>1 DEF Keeps, wire, Outermost
<1>3. CASE depth < r
  <2>1. chain[depth].kind = "access"
    BY <1>a, <1>3, InsideIsAccess, <1>1 DEF Tidy, Middleware
  <2>2. chain' = chain /\ depth' <= r
    BY <1>3, <2>1, UnwindInside
  <2>3. QED
    BY <1>a, <1>1, <1>3, <2>2 DEF SyncBody, OutBody
<1>4. CASE depth = r
  <2>1. FreshFrom(chain, r)
    BY <1>4, <1>a, InsideIsAccess DEF RecoverInv, RecoverBody, Tidy
  <2>2. Untouched(wire)
    BY <2>1 DEF FreshFrom, wire
  <2>3. MarkBody(r) /\ BareInv
    BY DEF FallbackInv
  <2>4. \/ RecoverClean \/ RecoverPanic \/ RecoverAbort \/ RecoverSinkPanics
    BY <1>4, StepKinds
  <2>5. CASE RecoverClean
    <3>1. depth' = depth + 1 /\ panicking = "no" /\ panicking' = "no"
      BY <2>5 DEF RecoverClean, Unwinding
    <3>2. ending = "no"
      <4>1. RecoverBody(r) /\ depth <= r /\ ending \in Endings
        BY <1>4, <1>a DEF RecoverInv, TypeInv
      <4>2. QED
        BY <3>1, <4>1 DEF RecoverBody, Endings
    <3>3. ASSUME ~ wire.hijacked PROVE wire'.wrote /\ Seen(wire') = Seen(Commit(bare[1], OK))
      <4>1. chain' = flushTo(chain, r)
        BY <1>4, <2>3, <2>5, <3>3 DEF RecoverClean, MarkBody
      <4>2. PICK k \in 1..Len(chain) : k = r + 1
        BY <1>a DEF IsChain
      <4>3. ClearFrom(chain, k)
        BY <1>a, <4>2, OutsideIsClear
      <4>4. PICK v \in RecoverWriters : v = chain[r]
        BY <1>a, KindOf DEF IsChain
      <4>5. PICK w \in Wires : w = bare[1] /\ ~ w.hijacked /\ (~ w.wrote => w.body = <<>>)
        BY <2>3, <3>3, BareFacts DEF BareInv
      <4>6. Buffers(v, w) /\ Settled(w)
        BY <1>4, <1>a, <4>4, <4>5 DEF SyncBody
      <4>7. ~ Outermost(chain).hijacked
        BY <3>3 DEF wire
      <4>8. LET x == Outermost(flushTo(chain, r)) IN x.wrote /\ Seen(x) = Seen(Commit(w, OK))
        BY <1>a, <2>1, <4>2, <4>3, <4>4, <4>5, <4>6, <4>7, FlushToReply
      <4>9. QED
        BY <4>1, <4>5, <4>8 DEF wire
    <3>4. ~ (depth' <= r)
      BY <1>4, <1>a, <3>1
    <3>5. QED
      BY <1>1, <1>2, <3>2, <3>3, <3>4 DEF SyncBody, OutBody
  <2>6. CASE RecoverPanic
    <3>1. depth' = depth + 1 /\ panicking = "panic" /\ lost' = lost
      BY <2>6 DEF RecoverPanic, Unwinding
    <3>2. ~ (ending = "no" /\ lost = 0)
      BY <3>1 DEF FlowInv
    <3>3. ASSUME ~ wire.hijacked PROVE wire'.wrote /\ Seen(wire') = Reply500
      <4>1. ~ chain[r].hijacked
        BY <2>3, <3>3 DEF MarkBody
      <4>2. chain' = Write(WriteHeader(SetHeaders(chain, r + 1, {"fallback"}, {}), r + 1,
                                       InternalServerError), r + 1, Fallback)
        BY <1>4, <2>6, <4>1 DEF RecoverPanic
      <4>3. PICK k \in 1..Len(chain) : k = r + 1 /\ k - 1 = r
        BY <1>a DEF IsChain
      <4>4. ClearFrom(chain, k)
        BY <1>a, <4>3, OutsideIsClear
      <4>5. FreshFrom(chain, k - 1)
        BY <2>1, <4>3
      <4>6. QED
        BY <1>a, <3>3, <4>2, <4>3, <4>4, <4>5, FallbackReply DEF wire
    <3>4. ~ (depth' <= r)
      BY <1>4, <1>a, <3>1
    <3>5. QED
      BY <1>1, <1>2, <3>1, <3>2, <3>3, <3>4 DEF SyncBody, OutBody
  <2>7. CASE RecoverAbort
    <3>1. depth' = depth + 1 /\ panicking' = "abort" /\ chain' = chain
      BY <2>7 DEF RecoverAbort, Unwinding
    <3>2. ~ (depth' <= r) /\ wire' = wire
      BY <1>4, <1>a, <3>1 DEF wire
    <3>3. QED
      BY <2>2, <3>1, <3>2 DEF SyncBody, OutBody
  <2>8. CASE RecoverSinkPanics
    <3>1. /\ chain' = chain
          /\ \/ depth' = depth + 1 /\ panicking' = "panic"
             \/ depth' = depth
      BY <2>8 DEF RecoverSinkPanics, PanicsInline, PanicsAside
    <3>2. wire' = wire
      BY <3>1 DEF wire
    <3>3. CASE depth' = depth + 1 /\ panicking' = "panic"
      <4>1. ~ (depth' <= r)
        BY <1>4, <1>a, <3>3
      <4>2. QED
        BY <2>2, <3>2, <3>3, <4>1 DEF SyncBody, OutBody
    <3>4. CASE depth' = depth
      BY <1>4, <1>a, <1>1, <3>1, <3>4 DEF SyncBody, OutBody
    <3>5. QED
      BY <3>1, <3>3, <3>4
  <2>9. QED
    BY <2>4, <2>5, <2>6, <2>7, <2>8
<1>5. CASE r < depth
  <2>1. /\ chain' = chain \/ (panicking = "no" /\ ~ chain[depth].hijacked /\ chain' = Flush(chain))
        /\ \/ lost' = lost /\ panicking' = panicking
           \/ lost = 0 /\ lost' = depth /\ (panicking' = "panic" \/ pc' = "crashed")
    BY <1>5, UnwindOutside
  <2>2. ~ (depth' <= r)
    BY <1>a, <1>1, <1>5
  <2>3. panicking # "no" => panicking' # "no" /\ wire' = wire
    BY <1>1, <2>1 DEF wire
  <2>4. wire' = wire \/ chain' = Flush(chain)
    BY <2>1 DEF wire
  <2>5. ~ wire.hijacked /\ wire.wrote => wire' = wire
    BY <1>a, <2>4, RepliedStays
  <2>6. lost' = 0 => lost = 0
    BY <1>1, <2>1 DEF Middleware
  <2>7. QED
    BY <1>a, <1>1, <1>2, <1>5, <2>2, <2>3, <2>5, <2>6 DEF SyncBody, OutBody
<1>6. QED
  BY <1>a, <1>3, <1>4, <1>5

\* The end of the request.
LEMMA SyncServe ==
    ASSUME TypeInv, HijackInv, FlowInv, BareInv,
           NEW r \in Middleware, chain[r].kind = "recover",
           Settled(bare[1]), OutBody(r), Serve
    PROVE  /\ Settled(bare'[1]) /\ SyncBody(r)' /\ OutBody(r)'
           /\ pc' = "done" => bare'[1].wrote \/ bare'[1].hijacked
<1>a. IsChain(chain) /\ Len(chain) \in 1..Len(chain) /\ r < Len(chain) /\ r \in Nat
  BY DEF TypeInv, Middleware, IsChain
<1>1. /\ depth = Len(chain) /\ UNCHANGED <<depth, panicking, ending, lost>>
      /\ chain' = chain \/ (panicking = "no" /\ ~ wire.hijacked /\ chain' = Flush(chain))
      /\ pc' = "done" => \/ bare[1].hijacked /\ bare' = bare
                         \/ ~ bare[1].hijacked /\ bare' = Flush(bare)
      /\ bare' = bare \/ (~ bare[1].hijacked /\ bare' = Flush(bare))
  BY BareFacts DEF Serve, wire
<1>2. Keeps(chain, chain') /\ Keeps(bare, bare')
  BY ServeKeeps
<1>3. wire'.hijacked = wire.hijacked
  BY <1>a, <1>2 DEF Keeps, wire, Outermost
<1>4. PICK w \in Wires : w = bare[1] /\ Settled(w)
  BY BareFacts
<1>5. OK \in Statuses /\ OK >= 200
  BY StatusType DEF OK
<1>6. PICK z \in Wires : z = Commit(w, OK)
  BY <1>5, CommitFacts
<1>7. bare' = Flush(bare) => bare'[1] = z
  <2>1. Outermost(Flush(bare)) = z
    BY <1>4, <1>6, BareFacts, FlushRecord
  <2>2. Len(bare') = 1
    BY <1>2, BareFacts DEF Keeps
  <2>3. QED
    BY <2>1, <2>2 DEF Outermost
<1>8. ~ w.hijacked => Settled(z) /\ z.wrote /\ Commit(z, OK) = z
  <2> SUFFICES ASSUME ~ w.hijacked PROVE Settled(z) /\ z.wrote /\ Commit(z, OK) = z
    OBVIOUS
  <2>1. z.wrote /\ z.headers = w.headers /\ ~ z.hijacked
    BY <1>5, <1>6, CommitFinal, CommitFacts
  <2>2. Commit(z, OK) = z
    BY <1>5, <2>1, CommitFinal
  <2>3. CASE w.wrote
    BY <1>4, <1>5, <1>6, <2>1, <2>2, <2>3, CommitFinal
  <2>4. CASE ~ w.wrote
    <3>1. z.code = OK /\ z.sent = w.headers /\ z.hints = w.hints
      BY <1>5, <1>6, <2>4, CommitFinal
    <3>2. QED
      BY <1>4, <1>5, <2>1, <2>2, <3>1 DEF Settled
  <2>5. QED
    BY <2>3, <2>4
<1>9. Settled(bare'[1])
  BY <1>1, <1>4, <1>7, <1>8
<1>10. Commit(bare'[1], OK) = Commit(bare[1], OK)
  BY <1>1, <1>4, <1>6, <1>7, <1>8
<1>11. pc' = "done" => bare'[1].wrote \/ bare'[1].hijacked
  BY <1>1, <1>4, <1>7, <1>8
<1>12. wire' = wire \/ (panicking = "no" /\ ~ wire.hijacked /\ chain' = Flush(chain))
  BY <1>1 DEF wire
<1>13. ~ wire.hijacked /\ wire.wrote => wire' = wire
  BY <1>a, <1>12, RepliedStays
<1>14. ~ (depth' <= r) /\ depth > r
  BY <1>a, <1>1
<1>15. SyncBody(r)'
  BY <1>14 DEF SyncBody
<1>16. OutBody(r)'
  BY <1>1, <1>3, <1>10, <1>12, <1>13, <1>14 DEF OutBody
<1>17. QED
  BY <1>9, <1>11, <1>15, <1>16

\* Every step keeps the buffer and what comes of it.
LEMMA SyncStep ==
    ASSUME Tidy, TypeInv, HijackInv, FlowInv, RecoverInv, FallbackInv, SyncInv, [Next]_vars
    PROVE  SyncInv'
<1> SUFFICES ASSUME NEW r \in Middleware', chain'[r].kind = "recover"
             PROVE  /\ Settled(bare'[1]) /\ SyncBody(r)' /\ OutBody(r)'
                    /\ pc' = "done" => bare'[1].wrote \/ bare'[1].hijacked
  BY DEF SyncInv
<1>1. r \in Middleware /\ chain[r].kind = "recover"
  BY KindsStay
<1>2. /\ Settled(bare[1]) /\ SyncBody(r) /\ OutBody(r)
      /\ pc = "done" => bare[1].wrote \/ bare[1].hijacked
  BY <1>1 DEF SyncInv
<1>3. BareInv
  BY DEF FallbackInv
<1>4. r \in 1..(Len(chain) - 1) /\ ~ (1 > r) /\ 1 <= r
  BY <1>1 DEF Middleware, TypeInv, IsChain
<1>5. CASE CallWriteHeader \/ CallWrite \/ CallHeader \/ CallRead \/ CallHijack
  <2>1. pc = "handler" /\ UNCHANGED <<pc, depth, panicking, ending, lines, lost>>
    BY <1>5, CallShape, HijackShape DEF Call
  <2>2. depth = 1
    BY <2>1 DEF FlowInv
  <2>3. FreshFrom(chain, r)
    BY <1>1, <1>4, <2>1, <2>2 DEF RecoverInv, RecoverBody
  <2>4. Inner(r) /\ \A k \in 1..(r - 1) : chain[k].kind = "access"
    BY <1>1, InsideIsAccess DEF Tidy
  <2>5. /\ Settled(bare'[1]) /\ Buffers(chain'[r], bare'[1])
        /\ \A k \in 1..(r - 1) : chain'[k].wrote = bare'[1].wrote
    BY <1>1, <1>2, <1>3, <1>4, <1>5, <2>2, <2>3, <2>4, SyncCall, SyncHijack DEF Tidy
  <2>6. QED
    BY <1>4, <2>1, <2>2, <2>5 DEF SyncBody, OutBody
<1>6. CASE CallFlush
  BY <1>1, <1>6, NoFlushCall DEF Tidy
<1>7. CASE End
  <2>1. pc = "handler" /\ UNCHANGED <<chain, bare, depth>> /\ pc' = "unwind"
    BY <1>7 DEF End
  <2>2. depth = 1
    BY <2>1 DEF FlowInv
  <2>3. QED
    BY <1>2, <1>4, <2>1, <2>2 DEF SyncBody, OutBody
<1>8. CASE \/ RecoverClean \/ RecoverPanic \/ RecoverAbort \/ AccessReturn \/ PayloadReturn
           \/ RecoverSinkPanics \/ AccessSinkPanics \/ PayloadSinkPanics
  <2>1. bare' = bare /\ pc' \in {"unwind", "crashed"}
    BY <1>8, UnwindShape
  <2>2. SyncBody(r)' /\ OutBody(r)'
    BY <1>1, <1>2, <1>8, SyncUnwind
  <2>3. QED
    BY <1>2, <2>1, <2>2
<1>9. CASE Serve
  BY <1>1, <1>2, <1>3, <1>9, SyncServe
<1>10. CASE UNCHANGED vars
  BY <1>2, <1>10 DEF vars, SyncBody, OutBody, wire
<1>11. QED
  BY <1>5, <1>6, <1>7, <1>8, <1>9, <1>10 DEF Next

\* The buffer is the handler's response in every behaviour.
LEMMA SyncAlways == ASSUME Tidy PROVE Spec => []SyncInv
<1>1. TypeInv /\ HijackInv /\ FlowInv /\ RecoverInv /\ FallbackInv /\ SyncInv /\ [Next]_vars => SyncInv'
  BY SyncStep
<1>2. Init => SyncInv
  BY SyncInit DEF Tidy
<1>3. Spec => []RecoverInv
  BY RecoverAlways DEF Tidy
<1>4. Spec => []FallbackInv
  BY FallbackAlways DEF Tidy
<1>5. QED
  BY <1>1, <1>2, <1>3, <1>4, TypeInvAlways, FlowAlways, PTL DEF Spec

\* A wire that nothing was sent to shows nothing.
LEMMA UntouchedReply ==
    ASSUME NEW w \in Wires, Untouched(w), ~ w.hijacked
    PROVE  Seen(w) = NoReply
<1>1. w.hints = FALSE /\ w.hijacked = FALSE
  BY DEF Untouched, Wires
<1>2. QED
  BY <1>1 DEF Untouched, Seen, NoReply

\* With a recover handler in the stack, and whatever panics, the handler or the sink of a
\* log, and wherever that leaves the request, the process included: the client has the
\* whole response of a handler that returned, or the whole 500, or nothing.
THEOREM NeverAMix == ASSUME Tidy PROVE Spec => []AllOrNothing
<1>1. TypeInv /\ FlowInv /\ RecoverInv /\ SyncInv => AllOrNothing
  <2> SUFFICES ASSUME TypeInv, FlowInv, RecoverInv, SyncInv, Has("recover"), ~ wire.hijacked
               PROVE  \/ Seen(wire) \in {Reply500, NoReply}
                      \/ ending = "no" /\ Seen(wire) = Seen(Flush(bare)[1])
    BY DEF AllOrNothing
  <2>1. PICK r \in Middleware : chain[r].kind = "recover"
    BY DEF Has
  <2>2. r \in Nat /\ depth \in Nat /\ wire \in Wires
    BY DEF TypeInv, IsChain, Middleware, wire, Outermost
  <2>3. CASE depth <= r
    <3>1. FreshFrom(chain, r)
      BY <2>1, <2>3, InsideIsAccess DEF Tidy, RecoverInv, RecoverBody
    <3>2. QED
      BY <2>2, <3>1, UntouchedReply DEF FreshFrom, wire
  <2>4. CASE depth > r
    <3>1. \/ Seen(wire) = Reply500
          \/ Untouched(wire)
          \/ ending = "no" /\ Seen(wire) = Seen(Commit(bare[1], OK))
      BY <2>1, <2>4 DEF SyncInv, OutBody
    <3>2. Flush(bare)[1] = Commit(bare[1], OK)
      <4>1. Outermost(Flush(bare)) = Commit(bare[1], OK)
        BY BareFacts, FlushRecord
      <4>2. Len(Flush(bare)) = 1
        BY BareFacts, FlushKeeps DEF Keeps
      <4>3. QED
        BY <4>1, <4>2 DEF Outermost
    <3>3. QED
      BY <2>2, <3>1, <3>2, UntouchedReply
  <2>5. QED
    BY <2>2, <2>3, <2>4
<1>2. Spec => []RecoverInv
  BY RecoverAlways DEF Tidy
<1>3. QED
  BY <1>1, <1>2, TypeInvAlways, FlowAlways, SyncAlways, PTL

-----------------------------------------------------------------------------
(* Without a recover handler *)

\* The logs leave the wire the bare one, but for a flush after the handler; an access log
\* that has seen a status has passed it on.
DirectInv ==
    ~ Has("recover") =>
        /\ pc \in {"handler", "done"} => wire = bare[1]
        /\ wire = bare[1] \/ (~ bare[1].hijacked /\ wire = Commit(bare[1], OK))
        /\ \A k \in Middleware : chain[k].kind = "access" /\ chain[k].wrote => wire.wrote

\* Nothing keeps a call from the wire there.
LEMMA NoRecover ==
    ASSUME TypeInv, ~ Has("recover"), NEW k \in 1..Len(chain)
    PROVE  ClearFrom(chain, k)
<1>1. \A j \in k..(Len(chain) - 1) : j \in Middleware
  BY DEF TypeInv, IsChain, Middleware
<1>2. QED
  BY <1>1 DEF Has, ClearFrom

\* A status reaches the wire unless it has one.
LEMMA StatusDirect ==
    ASSUME TypeInv, DirectInv, ~ Has("recover"), ~ wire.hijacked,
           NEW c \in Codes, c >= 200, chain' = WriteHeader(chain, 1, c)
    PROVE  wire' = Commit(wire, c) /\ wire'.wrote
<1>a. IsChain(chain) /\ 1 \in 1..Len(chain) /\ Len(chain) \in 1..Len(chain) /\ wire \in Wires /\ c \in Statuses
  BY StatusType DEF TypeInv, IsChain, wire, Outermost
<1>b. Keeps(chain, chain')
  BY <1>a, WriteHeaderKeeps
<1>c. wire' = chain'[Len(chain)]
  BY <1>b DEF Keeps, wire, Outermost
<1>1. CASE wire.wrote
  <2>1. Commit(wire, c) = wire
    BY <1>1, <1>a, CommitFinal
  <2>2. chain'[Len(chain)] \in {wire, OnWriteHeader(wire, c)}
    BY <1>a DEF WriteHeader, IsChain, wire, Outermost
  <2>3. OnWriteHeader(wire, c) = Commit(wire, c)
    BY <1>a DEF OnWriteHeader, Wires
  <2>4. QED
    BY <1>1, <1>c, <2>1, <2>2, <2>3
<1>2. CASE ~ wire.wrote
  <2>1. \A j \in 1..(Len(chain) - 1) : chain[j].kind = "access" => ~ chain[j].wrote
    BY <1>2 DEF DirectInv, Middleware
  <2>2. Outermost(chain') = Commit(Outermost(chain), c)
    BY <1>a, <2>1, NoRecover, WriteHeaderOutside
  <2>3. QED
    BY <1>a, <2>2, CommitFinal DEF wire
<1>3. QED
  BY <1>1, <1>2

\* The handler's calls do to the wire what they do without middleware.
LEMMA DirectCall ==
    ASSUME FinalCodes, TypeInv, HijackInv, DirectInv, ~ Has("recover"),
           CallWriteHeader \/ CallWrite \/ CallHeader \/ CallRead \/ CallFlush
    PROVE  /\ wire' = bare'[1]
           /\ \A k \in Middleware : chain'[k].kind = "access" /\ chain'[k].wrote => wire'.wrote
<1>a. /\ IsChain(chain) /\ 1 \in 1..Len(chain) /\ Len(chain) \in 1..Len(chain) /\ wire \in Wires
      /\ Keeps(chain, chain') /\ ClearFrom(chain, 1) /\ ~ wire.hijacked /\ wire = bare[1]
      /\ \A k \in Middleware : k \in 1..Len(chain) /\ k \in 1..(Len(chain) - 1)
  BY CallsKeep, CallShape, NoRecover DEF TypeInv, IsChain, wire, Outermost, Middleware, DirectInv
<1>b. OK \in Statuses /\ OK >= 200
  BY StatusType DEF OK
<1>1. CASE \E c \in Codes : chain' = WriteHeader(chain, 1, c) /\ bare'[1] = Commit(bare[1], c)
  BY <1>1, <1>a, StatusDirect DEF FinalCodes
<1>2. CASE \E b \in Seq(Nat) : chain' = Write(chain, 1, b) /\ bare'[1] = OnWrite(bare[1], b)
  <2>1. PICK b \in Seq(Nat) : chain' = Write(chain, 1, b) /\ bare'[1] = OnWrite(wire, b)
    BY <1>2, <1>a
  <2>2. wire' = OnWrite(wire, b)
    BY <1>a, <2>1, WriteOutside DEF wire
  <2>3. PICK v \in Wires : v = Commit(wire, OK) /\ v.wrote
    BY <1>a, <1>b, CommitFacts, CommitFinal
  <2>4. OnWrite(wire, b) = [v EXCEPT !.body = @ \o b]
    BY <1>a, <2>3 DEF OnWrite, Wires
  <2>5. wire'.wrote
    BY <2>2, <2>3, <2>4 DEF Wires
  <2>6. QED
    BY <2>1, <2>2, <2>5
<1>3. CASE \E add \in HeaderSets, del \in HeaderSets :
             /\ chain' = SetHeaders(chain, 1, add, del)
             /\ bare'[1] = [bare[1] EXCEPT !.headers = (@ \cup add) \ del]
  <2>1. PICK add \in HeaderSets, del \in HeaderSets :
             /\ chain' = SetHeaders(chain, 1, add, del)
             /\ bare'[1] = [bare[1] EXCEPT !.headers = (@ \cup add) \ del]
    BY <1>3
  <2>2. Outermost(SetHeaders(chain, 1, add, del)) = [Outermost(chain) EXCEPT !.headers = (@ \cup add) \ del]
    BY <1>a, SetHeadersOutside
  <2>3. wire' = bare'[1]
    BY <1>a, <2>1, <2>2 DEF wire
  <2>4. wire'.wrote = wire.wrote
    BY <1>a, <2>1, SetHeadersRecord DEF wire
  <2>5. \A k \in Middleware : chain'[k] = chain[k]
    BY <1>a, <2>1, SetHeadersOutside
  <2>6. QED
    BY <2>3, <2>4, <2>5 DEF DirectInv
<1>4. CASE bare' = bare /\ \E n \in Nat : chain' = Read(chain, n)
  <2>1. PICK n \in Nat : chain' = Read(chain, n)
    BY <1>4
  <2>2. wire' = wire
    <3>1. chain[Len(chain)].kind = "wire"
      BY <1>a DEF IsChain, Wires
    <3>2. QED
      BY <1>a, <2>1, <3>1, ReadSpares DEF wire, Outermost, Keeps
  <2>3. \A k \in Middleware : chain'[k].kind = "access" => chain'[k] = chain[k]
    BY <1>a, <2>1, ReadSpares DEF Keeps
  <2>4. QED
    BY <1>4, <1>a, <2>2, <2>3 DEF DirectInv
<1>5. CASE chain' = Flush(chain) /\ bare'[1] = Commit(bare[1], OK)
  BY <1>5, <1>a, <1>b, FlushRecord, CommitFinal DEF wire
<1>6. QED
  BY <1>1, <1>2, <1>3, <1>4, <1>5, CallShape

\* A hijack too.
LEMMA DirectHijack ==
    ASSUME TypeInv, DirectInv, ~ Has("recover"), CallHijack
    PROVE  /\ wire' = bare'[1]
           /\ \A k \in Middleware : chain'[k].kind = "access" /\ chain'[k].wrote => wire'.wrote
<1>1. PICK ok \in BOOLEAN :
        /\ wire' = [wire EXCEPT !.hijacked = ok] /\ bare'[1] = [bare[1] EXCEPT !.hijacked = ok]
        /\ chain' = Hijack(chain, ok)
  BY HijackMarks
<1>2. wire = bare[1] /\ wire \in Wires
  BY DEF CallHijack, Call, DirectInv, TypeInv, IsChain, wire, Outermost
<1>3. wire' = bare'[1]
  BY <1>1, <1>2
<1>4. PICK w \in Wires : w = wire
  BY <1>2
<1>5. wire'.wrote = wire.wrote
  BY <1>1, <1>4 DEF Wires
<1>6. ASSUME NEW k \in Middleware, chain'[k].kind = "access" PROVE chain'[k].wrote = chain[k].wrote
  <2>1. k \in 1..(Len(chain) - 1) /\ k \in 1..Len(chain) /\ IsChain(chain)
    BY DEF Middleware, TypeInv, IsChain
  <2>2. chain'[k] = [chain[k] EXCEPT !.hijacked = TRUE] /\ chain[k].kind = "access"
    BY <1>1, <1>6, <2>1, HijackRecord, HijackFacts
  <2>3. PICK a \in AccessWriters : a = chain[k]
    BY <2>1, <2>2, KindOf DEF IsChain
  <2>4. QED
    BY <2>2, <2>3 DEF AccessWriters
<1>7. \A k \in Middleware : chain'[k].kind = "access" => chain[k].kind = "access"
  BY HijackShape DEF Middleware, TypeInv, IsChain
<1>8. QED
  BY <1>3, <1>5, <1>6, <1>7 DEF DirectInv

\* After the handler a log flushes at most.
LEMMA DirectUnwind ==
    ASSUME TypeInv, HijackInv, ~ Has("recover"),
           \/ RecoverClean \/ RecoverPanic \/ RecoverAbort \/ AccessReturn \/ PayloadReturn
           \/ RecoverSinkPanics \/ AccessSinkPanics \/ PayloadSinkPanics
    PROVE  chain' = chain \/ (~ wire.hijacked /\ chain' = Flush(chain))
<1>1. depth \in Middleware /\ IsChain(chain)
  BY UnwindShape DEF TypeInv
<1>2. chain[depth].kind # "recover"
  BY <1>1 DEF Has
<1>3. (chain' = chain) \/ PayloadEnd
  BY <1>2, StepKinds
<1>4. ClearFrom(chain, depth + 1)
  <2>1. depth + 1 \in 1..Len(chain)
    BY <1>1 DEF Middleware, IsChain
  <2>2. QED
    BY <2>1, NoRecover
<1>5. chain' = chain \/ (~ chain[depth].hijacked /\ chain' = Flush(chain))
  BY <1>1, <1>3, <1>4, PayloadOutside
<1>6. wire.hijacked => chain[depth].hijacked
  BY <1>1 DEF HijackInv
<1>7. QED
  BY <1>5, <1>6

\* A flush, whether before or after the wire has one: the same response.
LEMMA DirectFlush ==
    ASSUME TypeInv, BareInv, DirectInv, ~ Has("recover"), ~ wire.hijacked, chain' = Flush(chain)
    PROVE  wire' = Commit(bare[1], OK) /\ wire'.wrote /\ ~ bare[1].hijacked
<1>1. wire' = Commit(wire, OK) /\ wire \in Wires
  BY FlushRecord DEF wire, TypeInv
<1>2. PICK w \in Wires : w = bare[1] /\ ~ w.hijacked
  BY BareFacts DEF BareInv
<1>3. OK \in Statuses /\ OK >= 200
  BY StatusType DEF OK
<1>4. PICK z \in Wires : z = Commit(w, OK) /\ z.wrote /\ ~ z.hijacked
  BY <1>2, <1>3, CommitFinal, CommitFacts
<1>5. Commit(z, OK) = z
  BY <1>3, <1>4, CommitFinal
<1>6. wire = w \/ wire = z
  BY <1>2, <1>4 DEF DirectInv
<1>7. QED
  BY <1>1, <1>2, <1>4, <1>5, <1>6

\* Every step keeps the wire the bare one.
LEMMA DirectStep ==
    ASSUME FinalCodes, TypeInv, HijackInv, FlowInv, BareInv, DirectInv, [Next]_vars
    PROVE  DirectInv'
<1> SUFFICES ASSUME ~ Has("recover")'
             PROVE  /\ pc' \in {"handler", "done"} => wire' = bare'[1]
                    /\ wire' = bare'[1] \/ (~ bare'[1].hijacked /\ wire' = Commit(bare'[1], OK))
                    /\ \A k \in Middleware' : chain'[k].kind = "access" /\ chain'[k].wrote => wire'.wrote
  BY DEF DirectInv
<1>1. Middleware' = Middleware /\ ~ Has("recover")
  BY KindsStay DEF Has
<1>2. /\ wire = bare[1] \/ (~ bare[1].hijacked /\ wire = Commit(bare[1], OK))
      /\ \A k \in Middleware : chain[k].kind = "access" /\ chain[k].wrote => wire.wrote
      /\ pc \in {"handler", "done"} => wire = bare[1]
  BY <1>1 DEF DirectInv
<1>3. CASE CallWriteHeader \/ CallWrite \/ CallHeader \/ CallRead \/ CallFlush
  BY <1>1, <1>3, DirectCall
<1>4. CASE CallHijack
  BY <1>1, <1>4, DirectHijack
<1>5. CASE End
  BY <1>1, <1>2, <1>5 DEF End, wire
<1>6. CASE \/ RecoverClean \/ RecoverPanic \/ RecoverAbort \/ AccessReturn \/ PayloadReturn
           \/ RecoverSinkPanics \/ AccessSinkPanics \/ PayloadSinkPanics
  <2>1. bare' = bare /\ pc' \in {"unwind", "crashed"}
    BY <1>6, UnwindShape
  <2>2. chain' = chain \/ (~ wire.hijacked /\ chain' = Flush(chain))
    BY <1>1, <1>6, DirectUnwind
  <2>3. CASE chain' = chain
    BY <1>1, <1>2, <2>1, <2>3 DEF wire
  <2>4. CASE ~ wire.hijacked /\ chain' = Flush(chain)
    BY <1>1, <2>1, <2>4, DirectFlush
  <2>5. QED
    BY <2>2, <2>3, <2>4
<1>7. CASE Serve
  <2>1. \/ wire.hijacked /\ chain' = chain /\ bare' = bare
        \/ ~ wire.hijacked /\ chain' = Flush(chain) /\ bare' = Flush(bare)
        \/ pc' = "aborted" /\ chain' = chain /\ bare' = bare
    BY <1>7, BareFacts DEF Serve, wire, BareInv
  <2>2. CASE (wire.hijacked \/ pc' = "aborted") /\ chain' = chain /\ bare' = bare
    <3>1. wire.hijacked => wire = bare[1]
      BY <1>2 DEF BareInv
    <3>2. wire' = wire
      BY <2>2 DEF wire
    <3>3. QED
      BY <1>1, <1>2, <2>2, <3>1, <3>2
  <2>3. CASE ~ wire.hijacked /\ chain' = Flush(chain) /\ bare' = Flush(bare)
    <3>1. wire' = Commit(bare[1], OK) /\ wire'.wrote
      BY <1>1, <2>3, DirectFlush
    <3>2. bare'[1] = Commit(bare[1], OK)
      <4>1. Outermost(Flush(bare)) = Commit(bare[1], OK)
        BY BareFacts, FlushRecord
      <4>2. Len(Flush(bare)) = 1
        BY BareFacts, FlushKeeps DEF Keeps
      <4>3. QED
        BY <2>3, <4>1, <4>2 DEF Outermost
    <3>3. QED
      BY <1>1, <3>1, <3>2
  <2>4. QED
    BY <2>1, <2>2, <2>3
<1>8. CASE UNCHANGED vars
  BY <1>1, <1>2, <1>8 DEF vars, wire
<1>9. QED
  BY <1>3, <1>4, <1>5, <1>6, <1>7, <1>8 DEF Next

\* The bare wire, and the wire next to it, in every behaviour.
LEMMA DirectAlways == ASSUME FinalCodes PROVE Spec => [](BareInv /\ DirectInv)
<1>1. Init => BareInv /\ DirectInv
  <2> SUFFICES ASSUME Init PROVE BareInv /\ DirectInv
    OBVIOUS
  <2>1. PICK f, h : wire = Wire(f, h) /\ bare[1] = Wire(f, h)
    BY InitShape
  <2>2. BareInv
    BY <2>1 DEF BareInv, Wire
  <2>3. \A k \in Middleware : chain[k].kind = "access" => ~ chain[k].wrote
    <3> SUFFICES ASSUME NEW k \in Middleware, chain[k].kind = "access" PROVE ~ chain[k].wrote
      OBVIOUS
    <3>1. chain[k] = accessResponseWriter
      BY InitShape DEF Middlewares
    <3>2. QED
      BY <3>1 DEF accessResponseWriter
  <2>4. QED
    BY <2>1, <2>2, <2>3 DEF DirectInv
<1>2. TypeInv /\ HijackInv /\ FlowInv /\ (BareInv /\ DirectInv) /\ [Next]_vars => (BareInv /\ DirectInv)'
  BY BareStep, DirectStep
<1>3. QED
  BY <1>1, <1>2, TypeInvAlways, FlowAlways, PTL DEF Spec

\* The middlewares leave the response of a handler that returns as it is without them:
\* status, headers, body, and a hijacked connection, in every stack.
THEOREM CleanResponsesAreKept == ASSUME Tidy PROVE Spec => []Transparent
<1>1. TypeInv /\ FlowInv /\ BareInv /\ DirectInv /\ FallbackInv /\ SyncInv => Transparent
  <2> SUFFICES ASSUME TypeInv, FlowInv, BareInv, DirectInv, FallbackInv, SyncInv,
                      pc = "done", ending = "no", lost = 0
               PROVE  Seen(wire) = Seen(bare[1])
    BY DEF Transparent
  <2>1. CASE ~ Has("recover")
    BY <2>1 DEF DirectInv
  <2>2. CASE Has("recover")
    <3>1. PICK r \in Middleware : chain[r].kind = "recover"
      BY <2>2 DEF Has
    <3>2. depth > r /\ panicking = "no"
      BY <3>1 DEF FlowInv, Middleware, TypeInv, IsChain
    <3>3. PICK w \in Wires : w = bare[1] /\ w.hijacked = wire.hijacked
      BY BareFacts DEF BareInv
    <3>4. PICK v \in Wires : v = wire
      BY DEF TypeInv, IsChain, wire, Outermost
    <3>5. CASE wire.hijacked
      <4>1. Untouched(v) /\ w.code = 0 /\ w.body = <<>> /\ w.sent = {} /\ ~ w.hints
        BY <3>1, <3>3, <3>4, <3>5 DEF FallbackInv, MarkBody, BareInv, SyncInv, Settled
      <4>2. v.hints = w.hints
        BY <4>1 DEF Untouched, Wires
      <4>3. QED
        BY <3>3, <3>4, <4>1, <4>2 DEF Untouched, Seen
    <3>6. CASE ~ wire.hijacked
      <4>1. Seen(wire) = Seen(Commit(w, OK)) /\ w.wrote
        BY <3>1, <3>2, <3>3, <3>6 DEF SyncInv, OutBody
      <4>2. Commit(w, OK) = w
        BY <3>3, <3>6, <4>1, StatusType, CommitFinal
      <4>3. QED
        BY <3>3, <4>1, <4>2
    <3>7. QED
      BY <3>5, <3>6
  <2>3. QED
    BY <2>1, <2>2
<1>2. Spec => [](BareInv /\ DirectInv)
  BY DirectAlways DEF Tidy
<1>3. Spec => []FallbackInv
  BY FallbackAlways DEF Tidy
<1>4. QED
  BY <1>1, <1>2, <1>3, TypeInvAlways, FlowAlways, SyncAlways, PTL

-----------------------------------------------------------------------------
(* What the logs write *)

\* The line of an element that is a log's.
LineOf(i) ==
    IF i.kind = "payload"
    THEN [code |-> i.code, max |-> i.maxResponse, response |-> i.response,
          truncated |-> i.responseTruncated, maxRequest |-> i.maxRequest,
          request |-> i.request, requestTruncated |-> i.requestTruncated]
    ELSE [code |-> i.code]

\* A log that has unwound has written its line, and its element is as it was then.
LinesInv ==
    \A k \in Middleware : chain[k].kind # "recover" /\ k < depth /\ k # lost =>
        /\ Len(lines[k]) = 1
        /\ k \in Outside => lines[k][1] = LineOf(chain[k])

\* Outside of every recover handler is where nothing keeps a call from the wire.
LEMMA OutsideClear ==
    ASSUME TypeInv, NEW k \in Middleware
    PROVE  k \in Outside <=> ClearFrom(chain, k + 1)
<1>1. \A j \in (k + 1)..(Len(chain) - 1) : j \in Middleware /\ j > k
  BY DEF Middleware, TypeInv, IsChain
<1>2. \A j \in Middleware : j > k => j \in (k + 1)..(Len(chain) - 1)
  BY DEF Middleware, TypeInv, IsChain
<1>3. QED
  BY <1>1, <1>2 DEF Outside, ClearFrom

\* Elements that have unwound stay as they are.
LEMMA UnwoundStays ==
    ASSUME TypeInv, HijackInv, NEW k \in Outside, k <= depth,
           \/ RecoverClean \/ RecoverPanic \/ RecoverAbort \/ AccessReturn \/ PayloadReturn
           \/ RecoverSinkPanics \/ AccessSinkPanics \/ PayloadSinkPanics,
           chain[k].kind # "recover"
    PROVE  /\ chain'[k] = chain[k]
           /\ chain' = chain \/ (~ wire.hijacked /\ chain' = Flush(chain))
<1>a. k \in Middleware /\ depth \in Middleware /\ IsChain(chain) /\ k \in 1..(Len(chain) - 1)
  BY UnwindShape DEF Outside, Middleware, TypeInv
<1>1. ClearFrom(chain, depth + 1)
  <2>1. ClearFrom(chain, k + 1)
    BY <1>a, OutsideClear
  <2>2. \A j \in (depth + 1)..(Len(chain) - 1) : j \in (k + 1)..(Len(chain) - 1)
    BY <1>a DEF Middleware, IsChain
  <2>3. QED
    BY <2>1, <2>2 DEF ClearFrom
<1>2. chain[depth].kind # "recover"
  <2>1. k = depth \/ depth > k
    BY <1>a DEF Middleware
  <2>2. QED
    BY <1>a, <2>1 DEF Outside
<1>3. chain' = chain \/ PayloadEnd
  BY <1>2, StepKinds
<1>4. chain' = chain \/ (~ chain[depth].hijacked /\ chain' = Flush(chain))
  BY <1>a, <1>1, <1>3, PayloadOutside
<1>5. wire.hijacked => chain[depth].hijacked
  BY <1>a DEF HijackInv
<1>6. chain' = Flush(chain) => chain'[k] = chain[k]
  BY <1>a, FlushRecord
<1>7. QED
  BY <1>4, <1>5, <1>6

\* One middleware after next writes its line.
LEMMA LineWritten ==
    ASSUME TypeInv, HijackInv, FlowInv, chain[depth].kind # "recover",
           \/ RecoverClean \/ RecoverPanic \/ RecoverAbort \/ AccessReturn \/ PayloadReturn
           \/ RecoverSinkPanics \/ AccessSinkPanics \/ PayloadSinkPanics,
           lost' # depth
    PROVE  lines'[depth] = <<LineOf(chain[depth])>>
<1>a. depth \in Middleware /\ depth < Len(chain) /\ depth >= depth
  BY UnwindShape DEF TypeInv, Middleware
<1>1. lines[depth] = <<>>
  BY <1>a DEF FlowInv
<1>2. AccessReturn \/ PayloadReturn
  BY StepKinds DEF AccessSinkPanics, PayloadSinkPanics, PanicsInline, PanicsAside, SinkPanic
<1>3. PICK line : Logs(line) /\ line = LineOf(chain[depth])
  <2>1. CASE AccessReturn
    <3>1. Logs([code |-> chain[depth].code]) /\ chain[depth].kind = "access"
      BY <2>1, StepKinds DEF AccessReturn
    <3>2. QED
      BY <3>1 DEF LineOf
  <2>2. CASE PayloadReturn
    <3>1. PayloadLine /\ chain[depth].kind = "payload"
      BY <2>2, StepKinds DEF PayloadReturn
    <3>2. QED
      BY <3>1 DEF LineOf, PayloadLine
  <2>3. QED
    BY <1>2, <2>1, <2>2
<1>4. lines'[depth] = Append(lines[depth], line)
  BY <1>a, <1>3, LogsFacts
<1>5. QED
  BY <1>1, <1>3, <1>4

\* Every step keeps the lines.
LEMMA LinesStep == ASSUME TypeInv, HijackInv, FlowInv, LinesInv, [Next]_vars PROVE LinesInv'
<1> SUFFICES ASSUME NEW k \in Middleware', chain'[k].kind # "recover", k < depth', k # lost'
             PROVE  Len(lines'[k]) = 1 /\ (k \in Outside' => lines'[k][1] = LineOf(chain'[k]))
  BY DEF LinesInv
<1>1. /\ k \in Middleware /\ chain[k].kind # "recover" /\ Middleware' = Middleware
      /\ \A j \in Middleware : chain'[j].kind = chain[j].kind
  BY KindsStay
<1>2. Outside' = Outside
  BY <1>1 DEF Outside
<1>3. k < depth /\ k # lost =>
          Len(lines[k]) = 1 /\ (k \in Outside => lines[k][1] = LineOf(chain[k]))
  BY <1>1 DEF LinesInv
<1>a. k \in Nat /\ ~ (k < 1) /\ k \in 1..(Len(chain) - 1) /\ IsChain(chain) /\ depth \in Nat /\ k # 0
  BY <1>1 DEF Middleware, TypeInv, IsChain
<1>4. CASE CallWriteHeader \/ CallWrite \/ CallHeader \/ CallRead \/ CallFlush \/ CallHijack \/ End
  <2>1. pc = "handler" /\ depth' = depth
    BY <1>4, CallShape, HijackShape DEF Call, End
  <2>2. QED
    BY <1>a, <2>1 DEF FlowInv
<1>5. CASE \/ RecoverClean \/ RecoverPanic \/ RecoverAbort \/ AccessReturn \/ PayloadReturn
           \/ RecoverSinkPanics \/ AccessSinkPanics \/ PayloadSinkPanics
  <2>1. /\ depth \in Middleware /\ depth' \in {depth, depth + 1}
        /\ lost' = lost \/ (lost = 0 /\ lost' = depth)
        /\ \A j \in Middleware : j # depth => lines'[j] = lines[j]
    BY <1>5, UnwindShape
  <2>2. k <= depth
    BY <1>a, <2>1
  <2>3. k \in Outside => chain'[k] = chain[k]
    BY <1>1, <1>5, <2>2, UnwoundStays
  <2>4. CASE k < depth
    BY <1>1, <1>2, <1>3, <1>a, <2>1, <2>3, <2>4
  <2>5. CASE k = depth
    <3>1. lines'[k] = <<LineOf(chain[k])>>
      BY <1>1, <1>5, <2>5, LineWritten
    <3>2. QED
      BY <1>2, <2>3, <3>1
  <2>6. QED
    BY <1>a, <2>2, <2>4, <2>5
<1>6. CASE Serve
  <2>1. UNCHANGED <<depth, lines, lost>> /\ chain' \in {chain, Flush(chain)}
    BY <1>6 DEF Serve
  <2>2. chain'[k] = chain[k]
    BY <1>a, <2>1, FlushRecord
  <2>3. QED
    BY <1>2, <1>3, <2>1, <2>2
<1>7. CASE UNCHANGED vars
  BY <1>2, <1>3, <1>7 DEF vars
<1>8. QED
  BY <1>4, <1>5, <1>6, <1>7 DEF Next

\* So it is in every behaviour.
LEMMA LinesAlways == Spec => []LinesInv
<1>1. Init => LinesInv
  BY InitShape DEF LinesInv, Middleware
<1>2. TypeInv /\ HijackInv /\ FlowInv /\ LinesInv /\ [Next]_vars => LinesInv'
  BY LinesStep
<1>3. QED
  BY <1>1, <1>2, TypeInvAlways, FlowAlways, PTL DEF Spec

-----------------------------------------------------------------------------
(* What the payload log captures *)

\* The beginning of a body that grows.
LEMMA GrownPrefix ==
    ASSUME NEW p \in Seq(Nat), NEW b \in Seq(Nat), NEW m \in Nat, m > 0
    PROVE  /\ m <= Len(p) => SubSeq(p \o b, 1, m) = SubSeq(p, 1, m)
           /\ \A n \in Nat : n <= Len(b) => SubSeq(p \o b, 1, Len(p) + n) = p \o SubSeq(b, 1, n)
           /\ SubSeq(p, 1, Len(p)) = p
<1>1. m <= Len(p) => SubSeq(p \o b, 1, m) = SubSeq(p, 1, m)
  BY SubSeqOfConcat1
<1>2. ASSUME NEW n \in Nat, n <= Len(b)
      PROVE  SubSeq(p \o b, 1, Len(p) + n) = p \o SubSeq(b, 1, n)
  BY <1>2, SubSeqOfConcat2
<1>3. SubSeq(p, 1, Len(p)) = p
  OBVIOUS
<1>4. QED
  BY <1>1, <1>2, <1>3

\* A body as a capture of at most cap bytes shows it, and whether it is marked truncated.
Shown(cap, response, truncated, body) ==
    /\ cap > 0 => /\ response = SubSeq(body, 1, Min({cap, Len(body)}))
                  /\ truncated <=> Len(body) > cap
    /\ cap < 0 => response = body

\* What a capture of a body holds, without Min,
LEMMA ShownIs ==
    ASSUME NEW cap \in Int, NEW r, NEW t \in BOOLEAN, NEW p \in Seq(Nat), cap > 0,
           Shown(cap, r, t, p)
    PROVE  /\ Len(p) < cap => r = p
           /\ Len(p) >= cap => r = SubSeq(p, 1, cap)
           /\ t <=> Len(p) > cap
<1>1. PICK n \in Nat : n = Len(p)
  OBVIOUS
<1>a. cap \in Int /\ n \in Int /\ Len(p) \in Int
  BY <1>1
<1>2. Min({cap, Len(p)}) = IF cap <= Len(p) THEN cap ELSE Len(p)
  BY <1>a, MinOfTwo
<1>3. SubSeq(p, 1, Len(p)) = p
  OBVIOUS
<1>4. r = SubSeq(p, 1, Min({cap, Len(p)})) /\ (t <=> Len(p) > cap)
  BY DEF Shown
<1>5. Len(p) < cap => ~ (cap <= Len(p))
  BY <1>a
<1>6. QED
  BY <1>2, <1>3, <1>4, <1>5

\* and what is one.
LEMMA ShownBy ==
    ASSUME NEW cap \in Int, NEW r, NEW t \in BOOLEAN, NEW p \in Seq(Nat), cap > 0,
           Len(p) < cap => r = p,
           Len(p) >= cap => r = SubSeq(p, 1, cap),
           t <=> Len(p) > cap
    PROVE  Shown(cap, r, t, p)
<1>1. PICK n \in Nat : n = Len(p)
  OBVIOUS
<1>a. cap \in Int /\ n \in Int /\ Len(p) \in Int /\ ~ (cap < 0)
  BY <1>1
<1>2. Min({cap, Len(p)}) = IF cap <= Len(p) THEN cap ELSE Len(p)
  BY <1>a, MinOfTwo
<1>3. SubSeq(p, 1, Len(p)) = p
  OBVIOUS
<1>4. r = SubSeq(p, 1, Min({cap, Len(p)}))
  <2>1. CASE Len(p) < cap
    <3>1. Min({cap, Len(p)}) = Len(p)
      BY <1>a, <1>2, <2>1
    <3>2. QED
      BY <1>3, <2>1, <3>1
  <2>2. CASE Len(p) >= cap
    <3>1. Min({cap, Len(p)}) = cap
      BY <1>a, <1>2, <2>2
    <3>2. QED
      BY <2>2, <3>1
  <2>3. n < cap \/ n >= cap
    OBVIOUS
  <2>4. QED
    BY <1>1, <2>1, <2>2, <2>3
<1>5. QED
  BY <1>a, <1>4 DEF Shown

\* A body that grows is shown by the capture of what it grows by.
LEMMA ShownGrows ==
    ASSUME NEW cap \in Int, NEW r \in Seq(Nat), NEW t \in BOOLEAN, NEW p \in Seq(Nat),
           NEW b \in Seq(Nat), Shown(cap, r, t, p), b # <<>> \/ p = <<>>
    PROVE  /\ cap < 0 => Shown(cap, r \o b, t, p \o b)
           /\ cap > 0 /\ cap - Len(r) > 0 =>
                  Shown(cap, r \o SubSeq(b, 1, Min({Len(b), cap - Len(r)})),
                        t \/ Len(b) > cap - Len(r), p \o b)
           /\ cap > 0 /\ ~ (cap - Len(r) > 0) => Shown(cap, r, TRUE, p \o b)
<1>1. p \o b \in Seq(Nat) /\ Len(p \o b) = Len(p) + Len(b) /\ Len(p) \in Nat /\ Len(b) \in Nat
  BY ConcatProperties
<1>a. cap \in Int /\ Len(p) \in Int /\ Len(b) \in Int /\ Len(r) \in Int
  BY <1>1
<1>2. cap < 0 => Shown(cap, r \o b, t, p \o b)
  BY DEF Shown
<1>3. cap > 0 /\ Len(p) >= cap => r = SubSeq(p, 1, cap) /\ Len(r) = cap
  <2>1. cap > 0 /\ Len(p) >= cap => r = SubSeq(p, 1, cap)
    BY ShownIs
  <2>2. cap > 0 /\ Len(p) >= cap => Len(SubSeq(p, 1, cap)) = cap
    BY SubSeqProperties, <1>1
  <2>3. QED
    BY <2>1, <2>2
<1>4. cap > 0 /\ Len(p) < cap => r = p /\ ~ t
  BY ShownIs, <1>1
<1>5. ASSUME cap > 0, cap - Len(r) > 0
      PROVE  Shown(cap, r \o SubSeq(b, 1, Min({Len(b), cap - Len(r)})),
                   t \/ Len(b) > cap - Len(r), p \o b)
  <2>1. r = p /\ ~ t /\ Len(p) < cap
    BY <1>1, <1>3, <1>4, <1>5
  <2>2. PICK left \in Nat : left = cap - Len(p) /\ left > 0
    BY <1>1, <2>1
  <2>a. left \in Int
    BY <2>2
  <2>3. Min({Len(b), left}) = IF Len(b) <= left THEN Len(b) ELSE left
    BY <1>a, <2>a, MinOfTwo
  <2>4. CASE Len(b) < left
    <3>1. SubSeq(b, 1, Min({Len(b), left})) = b
      BY <2>3, <2>4
    <3>2. Len(p \o b) < cap /\ ~ (Len(b) > left)
      BY <1>1, <2>2, <2>4
    <3>3. Shown(cap, p \o b, FALSE, p \o b)
      <4>1. PICK q \in Seq(Nat) : q = p \o b
        BY <1>1
      <4>2. Len(q) < cap /\ Len(q) \in Nat
        BY <3>2, <4>1
      <4>3. PICK u \in BOOLEAN : u = FALSE
        OBVIOUS
      <4>4. ~ (Len(q) > cap) /\ ~ (Len(q) >= cap)
        BY <1>a, <4>2
      <4>5. Shown(cap, q, u, q)
        BY <1>5, <4>2, <4>3, <4>4, ShownBy
      <4>6. QED
        BY <4>1, <4>3, <4>5
    <3>4. (t \/ Len(b) > cap - Len(r)) = FALSE
      BY <2>1, <2>2, <3>2
    <3>5. QED
      BY <2>1, <2>2, <3>1, <3>3, <3>4
  <2>5. CASE Len(b) >= left
    <3>1. Min({Len(b), left}) = left
      BY <1>1, <2>2, <2>3, <2>5
    <3>2. SubSeq(p \o b, 1, Len(p) + left) = p \o SubSeq(b, 1, left)
      <4>1. left \in Nat /\ left <= Len(b) /\ cap \in Nat
        BY <1>5, <2>2, <2>5
      <4>2. \A k \in Nat : k <= Len(b) => SubSeq(p \o b, 1, Len(p) + k) = p \o SubSeq(b, 1, k)
        BY <1>5, <4>1, GrownPrefix
      <4>3. QED
        BY <4>1, <4>2
    <3>3. Len(p) + left = cap /\ Len(p \o b) >= cap
      BY <1>1, <2>2, <2>5
    <3>4. PICK u \in BOOLEAN : u = (t \/ Len(b) > cap - Len(r))
      OBVIOUS
    <3>5. u <=> Len(p \o b) > cap
      <4>1. u = (Len(b) > left)
        BY <2>1, <2>2, <3>4
      <4>2. Len(p \o b) = Len(p) + Len(b) /\ left = cap - Len(p)
        BY <1>1, <2>2
      <4>3. Len(b) > left <=> Len(p) + Len(b) > cap
        BY <1>a, <4>2
      <4>4. QED
        BY <4>1, <4>2, <4>3
    <3>6. Shown(cap, p \o SubSeq(b, 1, left), u, p \o b)
      <4>0. PICK q \in Seq(Nat) : q = p \o b
        BY <1>1
      <4>1. PICK k \in Nat : q = p \o b /\ k = Len(q)
        BY <1>1, <4>0
      <4>2. k >= cap /\ SubSeq(q, 1, cap) = p \o SubSeq(b, 1, left) /\ (u <=> k > cap)
        BY <3>2, <3>3, <3>5, <4>1
      <4>3. Len(q) >= cap /\ ~ (Len(q) < cap) /\ (u <=> Len(q) > cap)
        BY <1>a, <4>1, <4>2
      <4>4. Shown(cap, p \o SubSeq(b, 1, left), u, q)
        BY <1>5, <4>2, <4>3, ShownBy
      <4>5. QED
        BY <4>1, <4>4
    <3>7. QED
      BY <2>1, <2>2, <3>1, <3>4, <3>6
  <2>6. QED
    BY <1>1, <2>2, <2>4, <2>5
<1>6. ASSUME cap > 0, ~ (cap - Len(r) > 0)
      PROVE  Shown(cap, r, TRUE, p \o b)
  <2>1. Len(p) >= cap /\ r = SubSeq(p, 1, cap)
    BY <1>1, <1>3, <1>4, <1>6
  <2>2. Len(b) > 0
    BY <1>1, <1>6, <2>1
  <2>3. SubSeq(p \o b, 1, cap) = SubSeq(p, 1, cap)
    BY <1>6, <2>1, GrownPrefix
  <2>4. Len(p \o b) > cap
    BY <1>1, <1>6, <2>1, <2>2
  <2>5. QED
    <3>0. PICK q \in Seq(Nat) : q = p \o b
      BY <1>1
    <3>1. PICK k \in Nat : q = p \o b /\ k = Len(q)
      BY <1>1, <3>0
    <3>2. k > cap /\ k >= cap /\ r = SubSeq(q, 1, cap)
      BY <2>1, <2>3, <2>4, <3>1
    <3>3. PICK u \in BOOLEAN : u = TRUE
      OBVIOUS
    <3>4. Len(q) > cap /\ Len(q) >= cap /\ ~ (Len(q) < cap)
      BY <1>a, <3>1, <3>2
    <3>5. Shown(cap, r, u, q)
      BY <1>6, <3>2, <3>3, <3>4, ShownBy
    <3>6. QED
      BY <3>1, <3>3, <3>5
<1>7. QED
  BY <1>2, <1>5, <1>6

\* How many of the bytes read it counts, and whether it marks them truncated.
Counted(cap, request, truncated, n) ==
    cap > 0 => request = Min({cap, n}) /\ (truncated <=> n > cap)

\* The count of a capture grows with the bytes read.
LEMMA CountGrows ==
    ASSUME NEW cap \in Int, NEW r \in Nat, NEW t \in BOOLEAN, NEW n \in Nat, NEW m \in Nat, cap > 0,
           Counted(cap, r, t, n), NEW s, NEW u \in BOOLEAN,
           s = r + Min({m, cap - r}), u = (t \/ m > cap - r)
    PROVE  Counted(cap, s, u, n + m)
<1>0. r = Min({cap, n}) /\ (t <=> n > cap)
  BY DEF Counted
<1>1. PICK a \in Int, d \in Int : a = n + m /\ d = cap - r
  OBVIOUS
<1>a. cap \in Int /\ n \in Int /\ m \in Int
  OBVIOUS
<1>2. r = IF cap <= n THEN cap ELSE n
  BY <1>0, <1>a, MinOfTwo
<1>3. Min({m, d}) = IF m <= d THEN m ELSE d
  BY <1>a, <1>1, MinOfTwo
<1>4. Min({cap, a}) = IF cap <= a THEN cap ELSE a
  BY <1>a, <1>1, MinOfTwo
<1>5. PICK x, y : x = Min({m, d}) /\ y = Min({cap, a})
  OBVIOUS
<1>6. r + x = y /\ ((t \/ m > d) <=> a > cap)
  BY <1>0, <1>1, <1>2, <1>3, <1>4, <1>5
<1>7. s = Min({cap, n + m}) /\ (u <=> n + m > cap)
  BY <1>1, <1>5, <1>6
<1>8. QED
  BY <1>7 DEF Counted

\* An element has captured what went by of the response, and of n bytes of the request.
Captured(i, body, n) ==
    /\ Shown(i.maxResponse, i.response, i.responseTruncated, body)
    /\ Counted(i.maxRequest, i.request, i.requestTruncated, n)

\* Every write grows the capture up to its cap.
LEMMA CaptureGrows ==
    ASSUME NEW i \in PayloadWriters, NEW p \in Seq(Nat), NEW b \in Seq(Nat), NEW n \in Nat,
           Captured(i, p, n), b # <<>> \/ p = <<>>
    PROVE  Captured(Capture(i, b), p \o b, n)
<1>1. PICK cap \in Int, r \in Seq(Nat), t \in BOOLEAN, x \in {Capture(i, b)} :
          /\ cap = i.maxResponse /\ r = i.response /\ t = i.responseTruncated /\ x = Capture(i, b)
  BY DEF PayloadWriters
<1>2. Shown(cap, r, t, p) /\ Counted(i.maxRequest, i.request, i.requestTruncated, n)
  BY <1>1 DEF Captured
<1>3. cap \in Int /\ r \in Seq(Nat) /\ t \in BOOLEAN /\ p \in Seq(Nat) /\ b \in Seq(Nat)
  OBVIOUS
<1>4. /\ cap < 0 => Shown(cap, r \o b, t, p \o b)
      /\ cap > 0 /\ cap - Len(r) > 0 =>
             Shown(cap, r \o SubSeq(b, 1, Min({Len(b), cap - Len(r)})), t \/ Len(b) > cap - Len(r), p \o b)
      /\ cap > 0 /\ ~ (cap - Len(r) > 0) => Shown(cap, r, TRUE, p \o b)
  BY <1>2, <1>3, ShownGrows
<1>5. ASSUME NEW y, NEW s, NEW u,
             y \in {[i EXCEPT !.response = s], [i EXCEPT !.responseTruncated = u],
                    [i EXCEPT !.response = s, !.responseTruncated = u]}
      PROVE  /\ y.maxResponse = cap /\ y.maxRequest = i.maxRequest
             /\ y.request = i.request /\ y.requestTruncated = i.requestTruncated
  BY <1>1, <1>5 DEF PayloadWriters
<1>6. ASSUME NEW s, NEW u, Shown(cap, s, u, p \o b), x.response = s, x.responseTruncated = u,
             x.maxResponse = cap, x.maxRequest = i.maxRequest,
             x.request = i.request, x.requestTruncated = i.requestTruncated
      PROVE  Captured(x, p \o b, n)
  BY <1>2, <1>6 DEF Captured
<1>7. CASE cap = 0
  <2>1. x = i
    BY <1>1, <1>7 DEF Capture
  <2>2. Shown(cap, r, t, p \o b)
    BY <1>7 DEF Shown
  <2>3. QED
    BY <1>1, <1>6, <2>1, <2>2
<1>8. CASE cap < 0
  <2>1. PICK s : s = r \o b
    OBVIOUS
  <2>2. x = [i EXCEPT !.response = s]
    BY <1>1, <1>8, <2>1 DEF Capture
  <2>3. x.response = s /\ x.responseTruncated = t
    BY <1>1, <2>2 DEF PayloadWriters
  <2>4. Shown(cap, s, t, p \o b)
    BY <1>4, <1>8, <2>1
  <2>5. QED
    BY <1>1, <1>5, <1>6, <2>2, <2>3, <2>4
<1>9. CASE cap > 0 /\ cap - Len(r) > 0
  <2>0. PICK s : s = r \o SubSeq(b, 1, Min({Len(b), cap - Len(r)}))
    OBVIOUS
  <2>1. PICK u \in BOOLEAN : /\ s = r \o SubSeq(b, 1, Min({Len(b), cap - Len(r)}))
                             /\ u = (t \/ Len(b) > cap - Len(r))
    BY <2>0
  <2>2. x = [i EXCEPT !.response = s, !.responseTruncated = u]
    <3>1. ~ (cap = 0) /\ ~ (cap < 0)
      BY <1>9
    <3>2. QED
      BY <1>1, <1>9, <2>1, <3>1 DEF Capture
  <2>3. x.response = s /\ x.responseTruncated = u
    BY <1>1, <2>2 DEF PayloadWriters
  <2>4. Shown(cap, s, u, p \o b)
    BY <1>4, <1>9, <2>1
  <2>5. /\ x.maxResponse = cap /\ x.maxRequest = i.maxRequest
        /\ x.request = i.request /\ x.requestTruncated = i.requestTruncated
    BY <1>1, <2>2 DEF PayloadWriters
  <2>6. Captured(x, p \o b, n)
    BY <1>6, <2>3, <2>4, <2>5
  <2>7. QED
    BY <1>1, <2>6
<1>10. CASE cap > 0 /\ ~ (cap - Len(r) > 0)
  <2>1. PICK u \in BOOLEAN : u = TRUE
    OBVIOUS
  <2>2. x = [i EXCEPT !.responseTruncated = u]
    <3>1. ~ (cap = 0) /\ ~ (cap < 0)
      BY <1>10
    <3>2. QED
      BY <1>1, <1>10, <2>1, <3>1 DEF Capture
  <2>3. x.response = r /\ x.responseTruncated = u
    BY <1>1, <2>2 DEF PayloadWriters
  <2>4. Shown(cap, r, u, p \o b)
    BY <1>4, <1>10, <2>1
  <2>5. /\ x.maxResponse = cap /\ x.maxRequest = i.maxRequest
        /\ x.request = i.request /\ x.requestTruncated = i.requestTruncated
    BY <1>1, <2>2 DEF PayloadWriters
  <2>6. Captured(x, p \o b, n)
    BY <1>6, <2>3, <2>4, <2>5
  <2>7. QED
    BY <1>1, <2>6
<1>11. cap = 0 \/ cap < 0 \/ cap > 0
  OBVIOUS
<1>12. QED
  BY <1>1, <1>7, <1>8, <1>9, <1>10, <1>11

\* So does every read of the request.
LEMMA TeeGrows ==
    ASSUME NEW i \in PayloadWriters, NEW p, NEW n \in Nat, NEW m \in Nat, Captured(i, p, n)
    PROVE  Captured(Tee(i, m), p, n + m)
<1>1. PICK cap \in Int, r \in Nat, t \in BOOLEAN, x \in {Tee(i, m)} :
          /\ cap = i.maxRequest /\ r = i.request /\ t = i.requestTruncated /\ x = Tee(i, m)
  BY DEF PayloadWriters
<1>2. Counted(cap, r, t, n) /\ Shown(i.maxResponse, i.response, i.responseTruncated, p)
  BY <1>1 DEF Captured
<1>3. ASSUME NEW s, NEW u,
             x \in {i, [i EXCEPT !.request = s], [i EXCEPT !.request = s, !.requestTruncated = u]}
      PROVE  /\ x.maxRequest = cap /\ x.maxResponse = i.maxResponse
             /\ x.response = i.response /\ x.responseTruncated = i.responseTruncated
  BY <1>1, <1>3 DEF PayloadWriters
<1>4. CASE ~ (cap > 0)
  <2>1. PICK s : s = r + m
    OBVIOUS
  <2>2. x \in {i, [i EXCEPT !.request = s]}
    BY <1>1, <1>4, <2>1 DEF Tee
  <2>3. QED
    BY <1>1, <1>2, <1>3, <1>4, <2>2 DEF Captured, Counted
<1>5. CASE cap > 0
  <2>0. PICK s : s = r + Min({m, cap - r})
    OBVIOUS
  <2>1. PICK u \in BOOLEAN : s = r + Min({m, cap - r}) /\ u = (t \/ m > cap - r)
    BY <2>0
  <2>2. x = [i EXCEPT !.request = s, !.requestTruncated = u]
    <3>1. ~ (cap = 0) /\ ~ (cap < 0)
      BY <1>5
    <3>2. QED
      BY <1>1, <2>1, <3>1 DEF Tee
  <2>3. x.request = s /\ x.requestTruncated = u
    BY <2>2 DEF PayloadWriters
  <2>4. /\ cap \in Int /\ r \in Nat /\ t \in BOOLEAN /\ n \in Nat /\ m \in Nat /\ cap > 0
        /\ u \in BOOLEAN
    BY <1>5
  <2>5. Counted(cap, s, u, n + m)
    BY <1>2, <2>1, <2>4, CountGrows
  <2>6. QED
    BY <1>1, <1>2, <1>3, <2>2, <2>3, <2>5 DEF Captured
<1>6. QED
  BY <1>1, <1>4, <1>5

\* The capture of one is that of the other.
SameCapture(i, j) ==
    /\ j.maxResponse = i.maxResponse /\ j.response = i.response
    /\ j.responseTruncated = i.responseTruncated /\ j.maxRequest = i.maxRequest
    /\ j.request = i.request /\ j.requestTruncated = i.requestTruncated

\* Nothing of a body goes by.
Quiet(ch, ch2) ==
    /\ Outermost(ch2).body = Outermost(ch).body
    /\ \A j \in 1..(Len(ch) - 1) : ch[j].kind = "payload" => SameCapture(ch[j], ch2[j])

\* Quiet steps add up,
LEMMA QuietTrans ==
    ASSUME NEW a, NEW b, NEW c, Quiet(a, b), Quiet(b, c), Keeps(a, b)
    PROVE  Quiet(a, c)
BY DEF Quiet, SameCapture, Keeps, IsChain

\* and keep what has been captured.
LEMMA QuietCaptured ==
    ASSUME NEW i, NEW j, SameCapture(i, j), NEW p, NEW n, Captured(i, p, n)
    PROVE  Captured(j, p, n)
BY DEF SameCapture, Captured

\* A status is no part of a body,
LEMMA WriteHeaderQuiet ==
    ASSUME NEW ch, IsChain(ch), NEW k, NEW c \in Statuses
    PROVE  Quiet(ch, WriteHeader(ch, k, c))
<1>1. \A j \in 1..Len(ch) : WriteHeader(ch, k, c)[j] \in {ch[j], OnWriteHeader(ch[j], c)}
  BY DEF WriteHeader, IsChain
<1>2. Len(WriteHeader(ch, k, c)) = Len(ch)
  BY WriteHeaderKeeps DEF Keeps
<1>3. Len(ch) \in 1..Len(ch) /\ ch[Len(ch)] \in Wires /\ ch[Len(ch)].kind = "wire"
      /\ \A j \in 1..(Len(ch) - 1) : j \in 1..Len(ch) /\ ch[j] \in Layers
  BY DEF IsChain, Wires
<1>4. OnWriteHeader(ch[Len(ch)], c).body = ch[Len(ch)].body
  BY <1>3, CommitFacts DEF OnWriteHeader
<1>5. ASSUME NEW j \in 1..(Len(ch) - 1), ch[j].kind = "payload"
      PROVE  SameCapture(ch[j], WriteHeader(ch, k, c)[j])
  <2>1. PICK i \in PayloadWriters : i = ch[j]
    BY <1>3, <1>5, KindOf DEF Writers
  <2>2. PICK x : x = [i EXCEPT !.code = c]
    OBVIOUS
  <2>3. SameCapture(i, x) /\ SameCapture(i, i)
    BY <2>2 DEF SameCapture, PayloadWriters
  <2>4. OnWriteHeader(i, c) = x
    BY <1>5, <2>1, <2>2 DEF OnWriteHeader
  <2>5. QED
    BY <1>1, <1>3, <2>1, <2>3, <2>4
<1>6. QED
  BY <1>1, <1>2, <1>3, <1>4, <1>5 DEF Quiet, Outermost

\* nor are headers,
LEMMA OneQuiet ==
    ASSUME NEW ch, IsChain(ch), NEW o \in 1..Len(ch), NEW w,
           ch[o].kind \in {"recover", "wire"}, ch[o].kind = "wire" => w.body = ch[o].body
    PROVE  Quiet(ch, [ch EXCEPT ![o] = w])
<1>1. PICK ch2 : ch2 = [ch EXCEPT ![o] = w]
  OBVIOUS
<1>2. /\ Len(ch2) = Len(ch) /\ Len(ch) \in 1..Len(ch)
      /\ \A j \in 1..Len(ch) : ch2[j] = IF j = o THEN w ELSE ch[j]
  BY <1>1 DEF IsChain
<1>3. ch[Len(ch)].kind = "wire" /\ \A j \in 1..(Len(ch) - 1) : j \in 1..Len(ch)
  BY DEF IsChain, Wires
<1>4. \A j \in 1..(Len(ch) - 1) : ch[j].kind = "payload" => ch2[j] = ch[j]
  BY <1>2, <1>3
<1>5. QED
  BY <1>1, <1>2, <1>3, <1>4 DEF Quiet, Outermost, SameCapture

\* a copy of the headers,
LEMMA HeaderQuiet ==
    ASSUME NEW ch, IsChain(ch), NEW k \in 1..Len(ch)
    PROVE  Quiet(ch, Header(ch, k))
<1>1. PICK o \in k..Len(ch) : o = HeaderOwner(ch, k)
  BY OwnerFacts
<1>2. o \in 1..Len(ch)
  BY DEF IsChain
<1>3. CASE ch[o].kind = "recover" /\ ~ ch[o].cloned
  <2>1. PICK w : w = [ch[o] EXCEPT !.cloned = TRUE, !.headers = Outermost(ch).headers]
    OBVIOUS
  <2>2. Header(ch, k) = [ch EXCEPT ![o] = w]
    BY <1>1, <1>3, <2>1 DEF Header
  <2>3. ch[o].kind \in {"recover", "wire"} /\ (ch[o].kind = "wire" => w.body = ch[o].body)
    BY <1>3
  <2>4. Quiet(ch, [ch EXCEPT ![o] = w])
    BY <1>2, <2>3, OneQuiet
  <2>5. QED
    BY <2>2, <2>4
<1>4. CASE ~ (ch[o].kind = "recover" /\ ~ ch[o].cloned)
  BY <1>1, <1>4 DEF Header, Quiet, SameCapture
<1>5. QED
  BY <1>3, <1>4

\* the headers themselves,
LEMMA SetHeadersQuiet ==
    ASSUME NEW ch, IsChain(ch), NEW k \in 1..Len(ch), NEW add, NEW del
    PROVE  Quiet(ch, SetHeaders(ch, k, add, del))
<1>1. PICK o \in k..Len(ch) : o = HeaderOwner(ch, k) /\ ch[o].kind \in {"recover", "wire"}
  BY OwnerFacts
<1>2. o \in 1..Len(ch)
  BY DEF IsChain
<1>3. PICK hd : hd = Header(ch, k) /\ Keeps(ch, hd) /\ Quiet(ch, hd)
  BY HeaderKeeps, HeaderQuiet
<1>4. /\ IsChain(hd) /\ Len(hd) = Len(ch) /\ hd[o].kind = ch[o].kind
  BY <1>2, <1>3 DEF Keeps
<1>5. PICK hs : hs = (hd[o].headers \cup add) \ del
  OBVIOUS
<1>6. PICK w : w = [hd[o] EXCEPT !.headers = hs]
  OBVIOUS
<1>7. SetHeaders(ch, k, add, del) = [hd EXCEPT ![o] = w]
  BY <1>1, <1>3, <1>5, <1>6 DEF SetHeaders
<1>8. hd[o].kind = "wire" => w.body = hd[o].body
  <2>1. hd[o].kind = "wire" => hd[o] \in Wires
    BY <1>2, <1>4, KindOf DEF IsChain, Writers
  <2>2. QED
    BY <1>6, <2>1 DEF Wires
<1>9. Quiet(hd, [hd EXCEPT ![o] = w])
  BY <1>1, <1>2, <1>4, <1>8, OneQuiet
<1>10. QED
  BY <1>3, <1>7, <1>9, QuietTrans

\* a flush,
LEMMA FlushQuiet == ASSUME NEW ch, IsChain(ch) PROVE Quiet(ch, Flush(ch))
<1>1. /\ Outermost(Flush(ch)) = Commit(Outermost(ch), OK) /\ Outermost(ch) \in Wires
      /\ \A j \in 1..(Len(ch) - 1) : Flush(ch)[j] = ch[j]
  BY FlushRecord
<1>2. Commit(Outermost(ch), OK).body = Outermost(ch).body
  BY <1>1, StatusType, CommitFacts
<1>3. QED
  BY <1>1, <1>2 DEF Quiet, SameCapture

\* or a hijack.
LEMMA HijackQuiet == ASSUME NEW ch, IsChain(ch), NEW ok \in BOOLEAN PROVE Quiet(ch, Hijack(ch, ok))
<1>1. /\ \A j \in 1..(Len(ch) - 1) : Hijack(ch, ok)[j] = [ch[j] EXCEPT !.hijacked = TRUE]
      /\ Outermost(Hijack(ch, ok)) = [Outermost(ch) EXCEPT !.hijacked = ok]
  BY HijackRecord
<1>2. Outermost(ch) \in Wires /\ \A j \in 1..(Len(ch) - 1) : ch[j] \in Layers
  BY DEF IsChain, Outermost
<1>3. Outermost(Hijack(ch, ok)).body = Outermost(ch).body
  BY <1>1, <1>2 DEF Wires
<1>4. ASSUME NEW j \in 1..(Len(ch) - 1), ch[j].kind = "payload"
      PROVE  SameCapture(ch[j], Hijack(ch, ok)[j])
  <2>1. PICK i \in PayloadWriters : i = ch[j]
    BY <1>2, <1>4, KindOf DEF Writers
  <2>2. PICK x : x = [i EXCEPT !.hijacked = TRUE]
    OBVIOUS
  <2>3. SameCapture(i, x)
    BY <2>2 DEF SameCapture, PayloadWriters
  <2>4. QED
    BY <1>1, <2>1, <2>2, <2>3
<1>5. QED
  BY <1>3, <1>4 DEF Quiet

\* What is written reaches the capture of every element outside.
LEMMA WriteCaptured ==
    ASSUME NEW ch, IsChain(ch), NEW k \in 1..Len(ch), ClearFrom(ch, k), NEW b \in Seq(Nat),
           ~ Outermost(ch).hijacked, NEW j \in k..(Len(ch) - 1), ch[j].kind = "payload",
           NEW n \in Nat, Captured(ch[j], Outermost(ch).body, n),
           b # <<>> \/ Outermost(ch).body = <<>>
    PROVE  Captured(Write(ch, k, b)[j], Outermost(Write(ch, k, b)).body, n)
<1>1. /\ Outermost(Write(ch, k, b)) = OnWrite(Outermost(ch), b)
      /\ Write(ch, k, b)[j] = OnWrite(ch[j], b)
  <2>1. /\ Len(ch) \in k..Len(ch) /\ j \in k..Len(ch)
        /\ Len(Write(ch, k, b)) = Len(ch)
    <3>1. Len(ch) \in k..Len(ch) /\ j \in k..Len(ch)
      BY DEF IsChain
    <3>2. Keeps(ch, Write(ch, k, b))
      BY WriteKeeps
    <3>3. QED
      BY <3>1, <3>2 DEF Keeps
  <2>2. \A i \in k..Len(ch) : Write(ch, k, b)[i] = OnWrite(ch[i], b)
    BY WriteOutside
  <2>3. QED
    BY <2>1, <2>2 DEF Outermost
<1>2. PICK w \in Wires : w = Outermost(ch) /\ w.kind = "wire" /\ ~ w.hijacked
  BY DEF IsChain, Outermost, Wires
<1>3. PICK i \in PayloadWriters : i = ch[j] /\ i.kind = "payload"
  BY KindOf DEF IsChain, Writers
<1>4. PICK v \in Wires : v = Commit(w, OK) /\ v.body = w.body
  BY <1>2, StatusType, CommitFacts
<1>a. w.body \in Seq(Nat)
  BY <1>2 DEF Wires
<1>5. PICK body : body = w.body \o b
  OBVIOUS
<1>6. PICK x : x = [v EXCEPT !.body = body]
  OBVIOUS
<1>7. OnWrite(w, b) = x
  BY <1>2, <1>4, <1>5, <1>6 DEF OnWrite
<1>8. x.body = body
  BY <1>6 DEF Wires
<1>9. OnWrite(i, b) = Capture(i, b)
  BY <1>3 DEF OnWrite
<1>10. w.body \in Seq(Nat)
  BY DEF Wires
<1>11. Captured(Capture(i, b), w.body \o b, n)
  BY <1>2, <1>3, <1>10, CaptureGrows
<1>12. QED
  BY <1>1, <1>2, <1>3, <1>5, <1>7, <1>8, <1>9, <1>11

\* What goes by of the response and of the request is captured, up to the caps, and
\* nothing goes by before the recover handler has unwound.
CaptureInv ==
    /\ \A k \in Outside : chain[k].kind = "payload" => Captured(chain[k], wire.body, read)
    /\ \A r \in Middleware : chain[r].kind = "recover" /\ depth <= r => wire.body = <<>>

\* The elements outside of every recover handler are layers of the chain.
LEMMA OutsideShape ==
    ASSUME TypeInv, NEW k \in Outside
    PROVE  /\ k \in Middleware /\ k \in 1..(Len(chain) - 1) /\ k \in 1..Len(chain)
           /\ ClearFrom(chain, k + 1) /\ chain[k] \in Writers
           /\ chain[k].kind = "payload" => chain[k] \in PayloadWriters
<1>1. k \in Middleware
  BY DEF Outside
<1>2. k \in 1..(Len(chain) - 1) /\ k \in 1..Len(chain) /\ chain[k] \in Writers
  BY <1>1 DEF Middleware, TypeInv, IsChain
<1>3. QED
  BY <1>1, <1>2, OutsideClear, KindOf

\* Steps that let nothing of a body go by keep it.
LEMMA QuietKeeps ==
    ASSUME TypeInv, CaptureInv, Quiet(chain, chain'), Middleware' = Middleware,
           \A j \in Middleware : chain'[j].kind = chain[j].kind,
           depth' \in {depth, depth + 1}, read' = read
    PROVE  CaptureInv'
<1>1. Outside' = Outside
  BY DEF Outside
<1>2. wire'.body = wire.body
  BY DEF Quiet, wire
<1>3. ASSUME NEW k \in Outside, chain'[k].kind = "payload"
      PROVE  Captured(chain'[k], wire.body, read)
  <2>1. k \in Middleware /\ k \in 1..(Len(chain) - 1)
    BY OutsideShape
  <2>2. Captured(chain[k], wire.body, read) /\ SameCapture(chain[k], chain'[k])
    BY <1>3, <2>1 DEF CaptureInv, Quiet
  <2>3. QED
    BY <2>2, QuietCaptured
<1>4. ASSUME NEW r \in Middleware, chain'[r].kind = "recover", depth' <= r PROVE wire.body = <<>>
  <2>1. depth <= r
    BY <1>4 DEF TypeInv, IsChain, Middleware
  <2>2. QED
    BY <1>4, <2>1 DEF CaptureInv
<1>5. QED
  BY <1>1, <1>2, <1>3, <1>4 DEF CaptureInv

\* A handler writes nothing of length 0 below a payload log.
LEMMA WritesSome ==
    ASSUME NoEmptyWrites, TypeInv, FlowInv, NEW k \in Middleware, chain[k].kind = "payload",
           CallWrite
    PROVE  \E b \in Seq(Nat) : b # <<>> /\ chain' = Write(chain, 1, b)
<1>1. "payload" \in Range(Stack)
  BY DEF Range, Stack, Middleware
<1>2. "empty" \notin Ops[Stack]
  BY <1>1 DEF NoEmptyWrites, FlowInv
<1>3. PICK n \in 0..MaxWrite :
          /\ Call(IF n = 0 THEN "empty" ELSE "write")
          /\ chain' = Write(chain, 1, [i \in 1..n |-> Len(bare[1].body) + i])
  BY DEF CallWrite
<1>4. n \in Nat /\ n # 0 /\ n > 0
  BY <1>2, <1>3, Params DEF Call
<1>5. Len(bare[1].body) \in Nat
  BY DEF TypeInv, IsChain, Wires
<1>6. PICK b : b = [i \in 1..n |-> Len(bare[1].body) + i]
  OBVIOUS
<1>7. b \in Seq(Nat) /\ Len(b) = n
  BY <1>4, <1>5, <1>6
<1>8. b # <<>>
  BY <1>4, <1>7
<1>9. QED
  BY <1>3, <1>6, <1>7, <1>8

\* A write of the handler.
LEMMA CaptureWrite ==
    ASSUME NoEmptyWrites, TypeInv, HijackInv, FlowInv, CaptureInv, CallWrite
    PROVE  CaptureInv'
<1>1. /\ Middleware' = Middleware /\ Len(chain') = Len(chain)
      /\ \A j \in Middleware : chain'[j].kind = chain[j].kind
      /\ depth' = depth /\ read' = read /\ ~ wire.hijacked /\ depth = 1
  <2>1. Keeps(chain, chain') /\ depth' = depth /\ read' = read /\ ~ wire.hijacked /\ pc = "handler"
    BY CallsKeep DEF CallWrite, Call, wire
  <2>2. \A j \in Middleware : j \in 1..Len(chain)
    BY DEF Middleware, TypeInv, IsChain
  <2>3. QED
    BY <2>1, <2>2, StackKept DEF Keeps, FlowInv
<1>2. Outside' = Outside
  BY <1>1 DEF Outside
<1>a. IsChain(chain) /\ 1 \in 1..Len(chain) /\ read \in Nat
  BY DEF TypeInv, IsChain
<1>3. ASSUME NEW r \in Middleware, chain[r].kind = "recover"
      PROVE  wire' = wire /\ \A k \in Outside : chain[k].kind = "payload" => chain'[k] = chain[k]
  <2>1. PICK b : chain' = Write(chain, 1, b)
    BY DEF CallWrite
  <2>2. r \in 1..(Len(chain) - 1) /\ 1 \in 1..r
    BY DEF Middleware, TypeInv, IsChain
  <2>3. Spares(chain, chain', r)
    BY <1>3, <1>a, <2>1, <2>2, WriteSpares
  <2>4. wire' = wire
    BY <1>1, <1>a, <2>2, <2>3, FreshSpared DEF wire
  <2>5. ASSUME NEW k \in Outside, chain[k].kind = "payload" PROVE chain'[k] = chain[k]
    <3>1. k \in Middleware /\ k \in 1..(Len(chain) - 1) /\ k # r /\ ~ (r > k)
      BY <1>3, <2>5, OutsideShape DEF Outside
    <3>2. k \in (r + 1)..Len(chain)
      BY <1>a, <2>2, <3>1 DEF IsChain
    <3>3. QED
      BY <2>3, <3>2 DEF Spares
  <2>6. QED
    BY <2>4, <2>5
<1>4. ASSUME \A r \in Middleware : chain[r].kind # "recover", NEW k \in Outside,
             chain[k].kind = "payload"
      PROVE  Captured(chain'[k], wire'.body, read)
  <2>1. k \in Middleware /\ k \in 1..(Len(chain) - 1)
    BY OutsideShape
  <2>2. PICK b \in Seq(Nat) : b # <<>> /\ chain' = Write(chain, 1, b)
    BY <1>4, <2>1, WritesSome
  <2>3. ClearFrom(chain, 1)
    BY <1>4 DEF ClearFrom, Middleware
  <2>4. Captured(chain[k], Outermost(chain).body, read) /\ ~ Outermost(chain).hijacked
    BY <1>1, <1>4 DEF CaptureInv, wire
  <2>5. Captured(Write(chain, 1, b)[k], Outermost(Write(chain, 1, b)).body, read)
    BY <1>4, <1>a, <2>1, <2>2, <2>3, <2>4, WriteCaptured
  <2>6. QED
    BY <2>2, <2>5 DEF wire
<1>5. ASSUME NEW k \in Outside, chain'[k].kind = "payload" PROVE Captured(chain'[k], wire'.body, read)
  <2>1. k \in Middleware /\ chain[k].kind = "payload"
    BY <1>1, <1>5, OutsideShape
  <2>2. CASE \A r \in Middleware : chain[r].kind # "recover"
    BY <1>4, <2>1, <2>2
  <2>3. CASE \E r \in Middleware : chain[r].kind = "recover"
    BY <1>3, <2>1, <2>3 DEF CaptureInv
  <2>4. QED
    BY <2>2, <2>3
<1>6. ASSUME NEW r \in Middleware, chain'[r].kind = "recover" PROVE wire'.body = <<>>
  <2>1. chain[r].kind = "recover" /\ depth <= r
    BY <1>1, <1>6 DEF Middleware
  <2>2. QED
    BY <1>3, <2>1 DEF CaptureInv
<1>7. QED
  BY <1>1, <1>2, <1>5, <1>6 DEF CaptureInv

\* A read of the handler.
LEMMA CaptureRead ==
    ASSUME TypeInv, HijackInv, CaptureInv, CallRead
    PROVE  CaptureInv'
<1>1. PICK n \in 1..MaxWrite : read' = read + n /\ chain' = Read(chain, n)
  BY DEF CallRead
<1>2. /\ n \in Nat /\ IsChain(chain) /\ read \in Nat /\ depth' = depth
      /\ Len(chain) \in 1..Len(chain) /\ chain[Len(chain)].kind = "wire" /\ DOMAIN chain = 1..Len(chain)
  BY Params DEF TypeInv, IsChain, Wires, CallRead, Call
<1>3. Keeps(chain, chain')
  BY <1>1, <1>2, ReadKeeps
<1>4. /\ Middleware' = Middleware /\ Len(chain') = Len(chain)
      /\ \A j \in Middleware : chain'[j].kind = chain[j].kind
  <2>1. \A j \in Middleware : j \in 1..Len(chain)
    BY DEF Middleware, TypeInv, IsChain
  <2>2. QED
    BY <1>3, <2>1, StackKept DEF Keeps
<1>5. Outside' = Outside
  BY <1>4 DEF Outside
<1>6. wire' = wire
  <2>1. chain'[Len(chain)] = chain[Len(chain)]
    BY <1>1, <1>2, ReadSpares
  <2>2. QED
    BY <1>4, <2>1 DEF wire, Outermost
<1>7. ASSUME NEW k \in Outside, chain'[k].kind = "payload" PROVE Captured(chain'[k], wire.body, read')
  <2>1. k \in Middleware /\ k \in 1..Len(chain) /\ chain[k].kind = "payload"
    BY <1>4, <1>7, OutsideShape
  <2>2. PICK i \in PayloadWriters : i = chain[k] /\ Captured(i, wire.body, read)
    BY <2>1, OutsideShape DEF CaptureInv
  <2>3. chain'[k] = Tee(i, n)
    BY <1>1, <1>2, <2>1, <2>2 DEF Read, Tee
  <2>4. Captured(Tee(i, n), wire.body, read + n)
    BY <1>2, <2>2, TeeGrows
  <2>5. QED
    BY <1>1, <2>3, <2>4
<1>8. QED
  BY <1>2, <1>4, <1>5, <1>6, <1>7 DEF CaptureInv

\* After next the payload log lets nothing of a body go by.
LEMMA PayloadEndQuiet ==
    ASSUME TypeInv, PayloadEnd, depth < Len(chain)
    PROVE  Quiet(chain, chain')
<1>1. PICK ch : ch = IF panicking = "no" /\ ~chain[depth].hijacked /\ Outermost(chain).flusher
                     THEN Flush(chain) ELSE chain
  OBVIOUS
<1>2. chain' = Header(ch, depth + 1)
  BY <1>1 DEF PayloadEnd
<1>3. IsChain(chain) /\ depth + 1 \in 1..Len(chain)
  BY DEF TypeInv, IsChain
<1>4. Quiet(chain, chain)
  BY DEF Quiet, SameCapture
<1>5. Keeps(chain, ch) /\ Quiet(chain, ch)
  BY <1>1, <1>3, <1>4, FlushKeeps, FlushQuiet DEF Keeps
<1>6. IsChain(ch) /\ Len(ch) = Len(chain)
  BY <1>5 DEF Keeps
<1>7. Quiet(ch, Header(ch, depth + 1))
  BY <1>3, <1>6, HeaderQuiet
<1>8. QED
  BY <1>2, <1>5, <1>7, QuietTrans

\* The calls of the handler that write no body.
LEMMA CallsQuiet ==
    ASSUME TypeInv, HijackInv, CallWriteHeader \/ CallHeader \/ CallFlush \/ CallHijack
    PROVE  Quiet(chain, chain') /\ depth' = depth /\ read' = read
<1>1. IsChain(chain) /\ 1 \in 1..Len(chain)
  BY DEF TypeInv, IsChain
<1>2. CASE CallWriteHeader
  <2>1. PICK c \in Codes : chain' = WriteHeader(chain, 1, c)
    BY <1>2 DEF CallWriteHeader
  <2>2. c \in Statuses
    BY StatusType
  <2>3. QED
    BY <1>1, <1>2, <2>1, <2>2, WriteHeaderQuiet DEF CallWriteHeader, Call
<1>3. CASE CallHeader
  <2>1. PICK add, del : chain' = SetHeaders(chain, 1, add, del)
    BY <1>3 DEF CallHeader, EditHeader
  <2>2. QED
    BY <1>1, <1>3, <2>1, SetHeadersQuiet DEF CallHeader, EditHeader, Call
<1>4. CASE CallFlush
  BY <1>1, <1>4, FlushQuiet DEF CallFlush, Call
<1>5. CASE CallHijack
  BY <1>1, <1>5, HijackQuiet DEF CallHijack, Call
<1>6. QED
  BY <1>2, <1>3, <1>4, <1>5

\* What a recover handler writes for those inside, it writes once.
LEMMA CaptureReply ==
    ASSUME TypeInv, HijackInv, FlowInv, CaptureInv, depth \in Middleware,
           chain[depth].kind = "recover", ~ chain[depth].hijacked,
           NEW ch, Keeps(chain, ch), Quiet(chain, ch), NEW b \in Seq(Nat),
           chain' = Write(ch, depth + 1, b), depth' = depth + 1, read' = read,
           Middleware' = Middleware, \A j \in Middleware : chain'[j].kind = chain[j].kind
    PROVE  CaptureInv'
<1>1. Outside' = Outside
  BY DEF Outside
<1>2. /\ IsChain(chain) /\ IsChain(ch) /\ Len(ch) = Len(chain) /\ read \in Nat
      /\ depth + 1 \in 1..Len(ch) /\ depth \in 1..(Len(chain) - 1)
  BY DEF TypeInv, Keeps, IsChain, Middleware
<1>3. ClearFrom(ch, depth + 1)
  <2>1. ClearFrom(chain, depth + 1)
    BY OutsideIsClear DEF Middleware
  <2>2. \A j \in (depth + 1)..(Len(chain) - 1) : j \in 1..Len(chain)
    BY <1>2 DEF IsChain
  <2>3. QED
    BY <1>2, <2>1, <2>2 DEF ClearFrom, Keeps
<1>4. wire.body = <<>> /\ Outermost(ch).body = wire.body
  BY <1>2 DEF CaptureInv, Quiet, wire
<1>5. ~ Outermost(ch).hijacked
  <2>1. ~ wire.hijacked
    BY DEF HijackInv
  <2>2. Len(chain) \in 1..Len(chain)
    BY <1>2 DEF IsChain
  <2>3. QED
    BY <1>2, <2>1, <2>2 DEF Keeps, Outermost, wire
<1>6. ASSUME NEW k \in Outside, chain'[k].kind = "payload" PROVE Captured(chain'[k], wire'.body, read)
  <2>1. k \in Middleware /\ k \in 1..(Len(chain) - 1) /\ chain[k].kind = "payload" /\ ~ (depth > k)
    BY <1>6, OutsideShape DEF Outside
  <2>2. k \in (depth + 1)..(Len(ch) - 1)
    BY <1>2, <2>1 DEF Middleware, IsChain
  <2>3. Captured(chain[k], wire.body, read) /\ SameCapture(chain[k], ch[k])
    BY <2>1 DEF CaptureInv, Quiet
  <2>4. Captured(ch[k], Outermost(ch).body, read)
    BY <1>4, <2>3, QuietCaptured
  <2>5. ch[k].kind = "payload"
    BY <1>2, <2>1 DEF Keeps, IsChain
  <2>6. Captured(Write(ch, depth + 1, b)[k], Outermost(Write(ch, depth + 1, b)).body, read)
    BY <1>2, <1>3, <1>4, <1>5, <2>2, <2>4, <2>5, WriteCaptured
  <2>7. QED
    BY <2>6 DEF wire
<1>7. ASSUME NEW r \in Middleware, chain'[r].kind = "recover", depth + 1 <= r PROVE FALSE
  <2>1. r = depth
    BY <1>7, OneOfAKind
  <2>2. QED
    BY <1>2, <1>7, <2>1
<1>8. QED
  BY <1>1, <1>6, <1>7 DEF CaptureInv

\* The middlewares after next.
LEMMA CaptureUnwind ==
    ASSUME TypeInv, HijackInv, FlowInv, CaptureInv, Middleware' = Middleware,
           \A j \in Middleware : chain'[j].kind = chain[j].kind,
           \/ RecoverClean \/ RecoverPanic \/ RecoverAbort \/ AccessReturn \/ PayloadReturn
           \/ RecoverSinkPanics \/ AccessSinkPanics \/ PayloadSinkPanics
    PROVE  CaptureInv'
<1>1. /\ depth \in Middleware /\ depth < Len(chain) /\ depth' \in {depth, depth + 1}
      /\ read' = read /\ IsChain(chain) /\ depth + 1 \in 1..Len(chain)
  BY UnwindShape DEF TypeInv, IsChain
<1>2. Quiet(chain, chain) /\ Keeps(chain, chain)
  BY <1>1 DEF Quiet, SameCapture, Keeps
<1>3. CASE chain' = chain
  BY <1>1, <1>2, <1>3, QuietKeeps
<1>4. CASE PayloadEnd
  BY <1>1, <1>4, PayloadEndQuiet, QuietKeeps
<1>5. CASE RecoverClean /\ ~ chain[depth].hijacked
  <2>1. /\ chain' = flushTo(chain, depth) /\ chain[depth].kind = "recover" /\ depth' = depth + 1
    BY <1>5 DEF RecoverClean, Unwinding
  <2>2. PICK rrw \in RecoverWriters : rrw = chain[depth]
    BY <1>1, <2>1, KindOf DEF IsChain, Middleware
  <2>3. rrw.headers \in HeaderSets /\ {} \in HeaderSets /\ rrw.code \in Statuses /\ rrw.body \in Seq(Nat)
    BY DEF RecoverWriters, HeaderSets
  <2>4. PICK a : a = IF rrw.cloned THEN SetHeaders(chain, depth + 1, rrw.headers, {}) ELSE chain
    OBVIOUS
  <2>5. PICK b : b = IF rrw.wrote THEN WriteHeader(a, depth + 1, rrw.code) ELSE a
    OBVIOUS
  <2>6. chain' = Write(b, depth + 1, rrw.body)
    BY <2>1, <2>2, <2>4, <2>5 DEF flushTo
  <2>7. Keeps(chain, a) /\ Quiet(chain, a)
    <3>1. Keeps(chain, SetHeaders(chain, depth + 1, rrw.headers, {}))
      BY <1>1, <2>3, SetHeadersKeeps
    <3>2. Quiet(chain, SetHeaders(chain, depth + 1, rrw.headers, {}))
      BY <1>1, SetHeadersQuiet
    <3>3. QED
      BY <1>2, <2>4, <3>1, <3>2
  <2>8. IsChain(a) /\ Len(a) = Len(chain)
    BY <2>7 DEF Keeps
  <2>9. Keeps(chain, b) /\ Quiet(chain, b)
    <3>1. Keeps(a, WriteHeader(a, depth + 1, rrw.code))
      BY <2>3, <2>8, WriteHeaderKeeps
    <3>2. Quiet(a, WriteHeader(a, depth + 1, rrw.code))
      BY <2>3, <2>8, WriteHeaderQuiet
    <3>3. Keeps(chain, WriteHeader(a, depth + 1, rrw.code))
      BY <1>1, <2>7, <3>1, KeepsTrans
    <3>4. Quiet(chain, WriteHeader(a, depth + 1, rrw.code))
      BY <2>7, <3>2, QuietTrans
    <3>5. QED
      BY <2>5, <2>7, <3>3, <3>4
  <2>10. QED
    BY <1>1, <1>5, <2>1, <2>3, <2>6, <2>9, CaptureReply
<1>6. CASE RecoverPanic /\ ~ chain[depth].hijacked
  <2>1. PICK a : a = SetHeaders(chain, depth + 1, {"fallback"}, {})
    OBVIOUS
  <2>2. PICK b : b = WriteHeader(a, depth + 1, InternalServerError)
    OBVIOUS
  <2>3. chain' = Write(b, depth + 1, Fallback) /\ chain[depth].kind = "recover" /\ depth' = depth + 1
    BY <1>6, <2>1, <2>2 DEF RecoverPanic, Unwinding
  <2>4. {"fallback"} \in HeaderSets /\ {} \in HeaderSets /\ Fallback \in Seq(Nat)
    BY DEF HeaderSets, Fallback
  <2>5. Keeps(chain, a) /\ Quiet(chain, a)
    BY <1>1, <2>1, <2>4, SetHeadersKeeps, SetHeadersQuiet
  <2>6. IsChain(a)
    BY <2>5 DEF Keeps
  <2>7. Keeps(a, b) /\ Quiet(a, b)
    BY <2>2, <2>6, StatusType, WriteHeaderKeeps, WriteHeaderQuiet
  <2>8. Keeps(chain, b) /\ Quiet(chain, b)
    BY <1>1, <2>5, <2>7, KeepsTrans, QuietTrans
  <2>9. QED
    BY <1>1, <1>6, <2>3, <2>4, <2>8, CaptureReply
<1>7. \/ chain' = chain \/ PayloadEnd
      \/ RecoverClean /\ ~ chain[depth].hijacked
      \/ RecoverPanic /\ ~ chain[depth].hijacked
  BY StepKinds DEF RecoverClean, RecoverPanic, RecoverAbort, RecoverSinkPanics
<1>8. QED
  BY <1>3, <1>4, <1>5, <1>6, <1>7

\* Every step keeps it.
LEMMA CaptureStep ==
    ASSUME NoEmptyWrites, TypeInv, HijackInv, FlowInv, CaptureInv, [Next]_vars
    PROVE  CaptureInv'
<1>1. Middleware' = Middleware /\ \A k \in Middleware : chain'[k].kind = chain[k].kind
  BY KindsStay
<1>2. IsChain(chain)
  BY DEF TypeInv
<1>3. Quiet(chain, chain)
  BY DEF Quiet, SameCapture
<1>4. CASE CallWriteHeader \/ CallHeader \/ CallFlush \/ CallHijack
  BY <1>1, <1>4, CallsQuiet, QuietKeeps
<1>5. CASE CallWrite
  BY <1>5, CaptureWrite
<1>6. CASE CallRead
  BY <1>6, CaptureRead
<1>7. CASE \/ RecoverClean \/ RecoverPanic \/ RecoverAbort \/ AccessReturn \/ PayloadReturn
           \/ RecoverSinkPanics \/ AccessSinkPanics \/ PayloadSinkPanics
  BY <1>1, <1>7, CaptureUnwind
<1>8. CASE Serve
  <2>1. depth' = depth /\ read' = read /\ chain' \in {chain, Flush(chain)}
    BY <1>8 DEF Serve
  <2>2. Quiet(chain, chain')
    BY <1>2, <1>3, <2>1, FlushQuiet
  <2>3. QED
    BY <1>1, <2>1, <2>2, QuietKeeps
<1>9. CASE End \/ UNCHANGED vars
  <2>1. depth' = depth /\ read' = read /\ chain' = chain
    BY <1>9 DEF End, vars
  <2>2. QED
    BY <1>1, <1>3, <2>1, QuietKeeps
<1>10. QED
  BY <1>4, <1>5, <1>6, <1>7, <1>8, <1>9 DEF Next

\* Nothing has gone by yet, and nothing is captured.
LEMMA CaptureInit == Init => CaptureInv
<1> SUFFICES ASSUME Init PROVE CaptureInv
  OBVIOUS
<1>1. wire.body = <<>> /\ read = 0
  <2>1. PICK f \in BOOLEAN, h \in BOOLEAN : wire = Wire(f, h)
    BY InitShape
  <2>2. QED
    BY <2>1 DEF Wire, Init
<1>2. ASSUME NEW k \in Outside, chain[k].kind = "payload" PROVE Captured(chain[k], <<>>, 0)
  <2>1. k \in Middleware
    BY DEF Outside
  <2>2. PICK c \in Caps : chain[k] = newInterceptorWithConfig(c[1], c[2])
    BY <1>2, <2>1, InitShape DEF Middlewares
  <2>3. c[1] \in Int /\ c[2] \in Int
    BY Params
  <2>4. PICK i : i = chain[k]
    OBVIOUS
  <2>5. /\ i.maxRequest = c[1] /\ i.request = 0 /\ i.requestTruncated = FALSE
        /\ i.maxResponse = c[2] /\ i.response = <<>> /\ i.responseTruncated = FALSE
    BY <2>2, <2>4 DEF newInterceptorWithConfig
  <2>6. Shown(c[2], <<>>, FALSE, <<>>)
    <3>1. PICK q \in Seq(Nat) : q = <<>>
      <4>1. <<>> \in Seq(Nat)
        OBVIOUS
      <4>2. QED
        BY <4>1
    <3>2. PICK u \in BOOLEAN : u = FALSE
      OBVIOUS
    <3>3. CASE c[2] > 0
      <4>1. Len(q) < c[2] /\ ~ (Len(q) >= c[2]) /\ ~ (Len(q) > c[2])
        BY <2>3, <3>1, <3>3
      <4>2. Shown(c[2], q, u, q)
        BY <2>3, <3>2, <3>3, <4>1, ShownBy
      <4>3. QED
        BY <3>1, <3>2, <4>2
    <3>4. CASE ~ (c[2] > 0)
      BY <3>4 DEF Shown
    <3>5. QED
      BY <3>3, <3>4
  <2>7. Counted(c[1], 0, FALSE, 0)
    <3>1. CASE c[1] > 0
      <4>0. PICK a \in Int, b \in Int : a = c[1] /\ b = 0
        BY <2>3
      <4>1. Min({a, b}) = IF a <= b THEN a ELSE b
        BY MinOfTwo
      <4>2. Min({c[1], 0}) = 0 /\ ~ (0 > c[1])
        BY <2>3, <3>1, <4>0, <4>1
      <4>3. QED
        BY <4>2 DEF Counted
    <3>2. CASE ~ (c[1] > 0)
      BY <3>2 DEF Counted
    <3>3. QED
      BY <3>1, <3>2
  <2>8. QED
    BY <2>4, <2>5, <2>6, <2>7 DEF Captured
<1>3. QED
  BY <1>1, <1>2 DEF CaptureInv

\* So it is in every behaviour.
LEMMA CaptureAlways == ASSUME NoEmptyWrites PROVE Spec => []CaptureInv
<1>1. TypeInv /\ HijackInv /\ FlowInv /\ CaptureInv /\ [Next]_vars => CaptureInv'
  BY CaptureStep
<1>2. QED
  BY <1>1, CaptureInit, TypeInvAlways, FlowAlways, PTL DEF Spec

\* The payload log shows exactly the bytes that went by it, in order and up to the caps,
\* and marks a body truncated exactly if a byte of it is missing (interceptor.go), when
\* nothing inside it writes a body of length 0.
THEOREM CapturesAreExact == ASSUME NoEmptyWrites PROVE Spec => []CaptureExact
<1>1. TypeInv /\ FlowInv /\ LinesInv /\ CaptureInv => CaptureExact
  <2> SUFFICES ASSUME TypeInv, FlowInv, LinesInv, CaptureInv, Ended,
                      NEW k \in Outside \ {lost}, chain[k].kind = "payload"
               PROVE  /\ lines[k][1].max > 0 =>
                           /\ lines[k][1].response
                                = SubSeq(wire.body, 1, Min({lines[k][1].max, Len(wire.body)}))
                           /\ lines[k][1].truncated <=> Len(wire.body) > lines[k][1].max
                      /\ lines[k][1].max < 0 => lines[k][1].response = wire.body
                      /\ lines[k][1].maxRequest > 0 =>
                           /\ lines[k][1].request = Min({lines[k][1].maxRequest, read})
                           /\ lines[k][1].requestTruncated <=> read > lines[k][1].maxRequest
    BY DEF CaptureExact
  <2>1. k \in Middleware /\ k < depth
    <3>1. depth = Len(chain) /\ k \in 1..(Len(chain) - 1)
      BY OutsideShape DEF FlowInv, Ended
    <3>2. QED
      BY <3>1, OutsideShape DEF TypeInv, IsChain
  <2>2. lines[k][1] = LineOf(chain[k])
    BY <2>1 DEF LinesInv
  <2>3. PICK i : i = chain[k] /\ Captured(i, wire.body, read) /\ i.kind = "payload"
    BY DEF CaptureInv
  <2>4. PICK line : line = lines[k][1]
    OBVIOUS
  <2>5. /\ line.max = i.maxResponse /\ line.response = i.response
        /\ line.truncated = i.responseTruncated /\ line.maxRequest = i.maxRequest
        /\ line.request = i.request /\ line.requestTruncated = i.requestTruncated
    BY <2>2, <2>3, <2>4 DEF LineOf
  <2>6. QED
    BY <2>3, <2>4, <2>5 DEF Captured, Shown, Counted
<1>2. QED
  BY <1>1, TypeInvAlways, FlowAlways, LinesAlways, CaptureAlways, PTL

-----------------------------------------------------------------------------
(* What the logs tell of the status *)

\* A log tells the status of the wire: the access log the one that it saw, or none if
\* nothing was written; the payload log the one that is sent.
Told(i, w) ==
    /\ i.kind = "access" /\ i.wrote => w.wrote /\ i.code = w.code /\ i.code >= 200
    /\ i.kind = "access" /\ ~ i.wrote =>
          i.code = 0 /\ w.body = <<>> /\ (w.wrote => w.code = OK) /\ (~ w.wrote => w.code = 0)
    /\ i.kind = "payload" => i.code >= 200 /\ i.code = (IF w.wrote THEN w.code ELSE OK)

\* It is what is told that matters.
LEMMA ToldSame ==
    ASSUME NEW i, NEW w, Told(i, w), NEW j, NEW x,
           j.kind = i.kind, j.code = i.code, i.kind = "access" => j.wrote = i.wrote,
           x.wrote = w.wrote, x.code = w.code, x.body = w.body
    PROVE  Told(j, x)
BY DEF Told

\* A status,
LEMMA ToldHeader ==
    ASSUME NEW i \in Layers, NEW w \in Wires, ~ w.hijacked, ~ w.wrote,
           NEW c \in Statuses, c >= 200, Told(i, w)
    PROVE  /\ i.kind = "access" => ~ i.wrote /\ OnWriteHeader(i, c).wrote
           /\ i.kind # "recover" => Told(OnWriteHeader(i, c), Commit(w, c))
<1>1. PICK x \in Wires : x = Commit(w, c) /\ x.wrote /\ x.code = c
  BY CommitFacts, CommitFinal
<1>2. i \in Writers
  BY DEF Writers
<1>3. CASE i.kind = "access"
  <2>1. PICK a \in AccessWriters : a = i
    BY <1>2, <1>3, KindOf
  <2>2. ~ a.wrote
    BY <1>3, <2>1 DEF Told
  <2>3. PICK y : y = [a EXCEPT !.code = c, !.wrote = TRUE]
    OBVIOUS
  <2>4. OnWriteHeader(i, c) = y
    BY <1>3, <2>1, <2>2, <2>3 DEF OnWriteHeader
  <2>5. y.kind = "access" /\ y.code = c /\ y.wrote
    BY <2>3 DEF AccessWriters
  <2>6. QED
    BY <1>1, <1>3, <2>1, <2>2, <2>4, <2>5 DEF Told
<1>4. CASE i.kind = "payload"
  <2>1. PICK a \in PayloadWriters : a = i
    BY <1>2, <1>4, KindOf
  <2>2. PICK y : y = [a EXCEPT !.code = c]
    OBVIOUS
  <2>3. OnWriteHeader(i, c) = y
    BY <1>4, <2>1, <2>2 DEF OnWriteHeader
  <2>4. y.kind = "payload" /\ y.code = c
    BY <2>2 DEF PayloadWriters
  <2>5. QED
    BY <1>1, <1>4, <2>3, <2>4 DEF Told
<1>5. CASE i.kind = "recover"
  BY <1>5
<1>6. QED
  BY <1>2, <1>3, <1>4, <1>5 DEF Layers, AccessWriters, PayloadWriters, RecoverWriters

\* a flush,
LEMMA ToldFlush ==
    ASSUME NEW i, NEW w \in Wires, ~ w.hijacked, Told(i, w)
    PROVE  Told(i, Commit(w, OK))
<1>1. OK \in Statuses /\ OK >= 200
  BY StatusType DEF OK
<1>2. PICK x \in Wires : x = Commit(w, OK) /\ x.body = w.body /\ x.wrote
  BY <1>1, CommitFacts, CommitFinal
<1>3. CASE w.wrote
  BY <1>1, <1>3, CommitFinal
<1>4. CASE ~ w.wrote
  <2>1. x.code = OK
    BY <1>1, <1>2, <1>4, CommitFinal
  <2>2. i.kind = "access" => ~ i.wrote
    BY <1>4 DEF Told
  <2>3. Told(i, x)
    BY <1>2, <1>4, <2>1, <2>2 DEF Told
  <2>4. QED
    BY <1>2, <2>3
<1>5. QED
  BY <1>3, <1>4

\* The capture of a body or a read is none of the status.
LEMMA CodeKept ==
    ASSUME NEW i \in PayloadWriters
    PROVE  /\ \A b \in Seq(Nat) : Capture(i, b).code = i.code /\ Capture(i, b).kind = "payload"
           /\ \A n \in Nat : Tee(i, n).code = i.code /\ Tee(i, n).kind = "payload"
<1>1. ASSUME NEW b \in Seq(Nat) PROVE Capture(i, b).code = i.code /\ Capture(i, b).kind = "payload"
  <2>1. PICK s : s = i.response \o b
    OBVIOUS
  <2>2. PICK p : p = i.response \o SubSeq(b, 1, Min({Len(b), i.maxResponse - Len(i.response)}))
    OBVIOUS
  <2>3. PICK u : u = (i.responseTruncated \/ Len(b) > i.maxResponse - Len(i.response))
    OBVIOUS
  <2>4. PICK t : t = TRUE
    OBVIOUS
  <2>5. Capture(i, b) \in {i, [i EXCEPT !.response = s],
                           [i EXCEPT !.response = p, !.responseTruncated = u],
                           [i EXCEPT !.responseTruncated = t]}
    BY <2>1, <2>2, <2>3, <2>4 DEF Capture
  <2>6. QED
    BY <2>5 DEF PayloadWriters
<1>2. ASSUME NEW n \in Nat PROVE Tee(i, n).code = i.code /\ Tee(i, n).kind = "payload"
  <2>1. PICK s : s = i.request + n
    OBVIOUS
  <2>2. PICK p : p = i.request + Min({n, i.maxRequest - i.request})
    OBVIOUS
  <2>3. PICK u : u = (i.requestTruncated \/ n > i.maxRequest - i.request)
    OBVIOUS
  <2>4. Tee(i, n) \in {i, [i EXCEPT !.request = s],
                       [i EXCEPT !.request = p, !.requestTruncated = u]}
    BY <2>1, <2>2, <2>3 DEF Tee
  <2>5. QED
    BY <2>4 DEF PayloadWriters
<1>3. QED
  BY <1>1, <1>2

\* bytes,
LEMMA ToldWrite ==
    ASSUME NEW i \in Layers, NEW w \in Wires, ~ w.hijacked, NEW b \in Seq(Nat), Told(i, w)
    PROVE  /\ i.kind = "access" => OnWrite(i, b).wrote
           /\ i.kind # "recover" => Told(OnWrite(i, b), OnWrite(w, b))
           /\ OnWrite(w, b).wrote
<1>0. OK \in Statuses /\ OK >= 200
  BY StatusType DEF OK
<1>1. PICK v \in Wires : v = Commit(w, OK) /\ v.wrote
  BY <1>0, CommitFacts, CommitFinal
<1>2. PICK body : body = v.body \o b
  OBVIOUS
<1>3. PICK x : x = [v EXCEPT !.body = body]
  OBVIOUS
<1>4. OnWrite(w, b) = x
  BY <1>1, <1>2, <1>3 DEF OnWrite, Wires
<1>5. x.wrote /\ x.code = v.code
  BY <1>1, <1>3 DEF Wires
<1>6. i \in Writers
  BY DEF Writers
<1>7. v.code = IF w.wrote THEN w.code ELSE OK
  BY <1>0, <1>1, CommitFinal
<1>8. CASE i.kind = "access"
  <2>1. PICK a \in AccessWriters : a = i
    BY <1>6, <1>8, KindOf
  <2>2. PICK y : y = [a EXCEPT !.code = OK, !.wrote = TRUE]
    OBVIOUS
  <2>3. OnWrite(i, b) = IF a.wrote THEN a ELSE y
    BY <1>8, <2>1, <2>2 DEF OnWrite, OnWriteHeader
  <2>4. y.kind = "access" /\ y.code = OK /\ y.wrote
    BY <2>2 DEF AccessWriters
  <2>5. CASE a.wrote
    BY <1>4, <1>5, <1>7, <1>8, <2>1, <2>3, <2>5 DEF Told
  <2>6. CASE ~ a.wrote
    <3>1. v.code = OK
      BY <1>7, <1>8, <2>1, <2>6 DEF Told
    <3>2. QED
      BY <1>0, <1>4, <1>5, <1>8, <2>3, <2>4, <2>6, <3>1 DEF Told
  <2>7. QED
    BY <2>5, <2>6
<1>9. CASE i.kind = "payload"
  <2>1. PICK a \in PayloadWriters : a = i
    BY <1>6, <1>9, KindOf
  <2>2. PICK y : y = Capture(a, b) /\ y.code = a.code /\ y.kind = "payload"
    BY CodeKept
  <2>3. OnWrite(i, b) = y
    BY <1>9, <2>1, <2>2 DEF OnWrite
  <2>4. Told(y, x)
    BY <1>5, <1>7, <1>9, <2>1, <2>2 DEF Told
  <2>5. QED
    BY <1>4, <1>5, <1>9, <2>3, <2>4
<1>10. CASE i.kind = "recover"
  BY <1>4, <1>5, <1>10
<1>11. QED
  BY <1>6, <1>8, <1>9, <1>10 DEF Layers, AccessWriters, PayloadWriters, RecoverWriters

\* The elements from k on tell the status.
Tells(ch, k) == \A j \in k..(Len(ch) - 1) : Told(ch[j], Outermost(ch))

\* They still do after headers were set,
LEMMA TellsHeaders ==
    ASSUME NEW ch, IsChain(ch), NEW k \in 1..Len(ch), ClearFrom(ch, k), NEW add, NEW del, Tells(ch, k)
    PROVE  /\ Tells(SetHeaders(ch, k, add, del), k)
           /\ Outermost(SetHeaders(ch, k, add, del)).wrote = Outermost(ch).wrote
           /\ \A j \in 1..(Len(ch) - 1) : SetHeaders(ch, k, add, del)[j] = ch[j]
<1>1. PICK ch2 : ch2 = SetHeaders(ch, k, add, del)
  OBVIOUS
<1>2. /\ \A j \in 1..(Len(ch) - 1) : ch2[j] = ch[j]
      /\ Len(ch2) = Len(ch) /\ Outermost(ch2) = [Outermost(ch) EXCEPT !.headers = (@ \cup add) \ del]
  BY <1>1, SetHeadersOutside
<1>3. PICK w \in Wires : w = Outermost(ch)
  BY DEF IsChain, Outermost
<1>4. PICK hs : hs = (w.headers \cup add) \ del
  OBVIOUS
<1>5. PICK x : x = [w EXCEPT !.headers = hs]
  OBVIOUS
<1>6. Outermost(ch2) = x
  BY <1>2, <1>3, <1>4, <1>5
<1>7. x.wrote = w.wrote /\ x.code = w.code /\ x.body = w.body
  BY <1>5 DEF Wires
<1>8. ASSUME NEW j \in k..(Len(ch) - 1) PROVE Told(ch2[j], x)
  <2>1. Told(ch[j], w) /\ ch2[j] = ch[j]
    BY <1>2, <1>3 DEF Tells, IsChain
  <2>2. QED
    BY <1>7, <2>1 DEF Told
<1>9. QED
  BY <1>1, <1>2, <1>3, <1>6, <1>7, <1>8 DEF Tells

\* a first status was sent,
LEMMA TellsStatus ==
    ASSUME NEW ch, IsChain(ch), NEW k \in 1..Len(ch), ClearFrom(ch, k), NEW c \in Statuses, c >= 200,
           ~ Outermost(ch).hijacked, ~ Outermost(ch).wrote, Tells(ch, k)
    PROVE  /\ Tells(WriteHeader(ch, k, c), k)
           /\ \A j \in k..(Len(ch) - 1) : ch[j].kind = "access" => WriteHeader(ch, k, c)[j].wrote
<1>1. PICK ch2 : ch2 = WriteHeader(ch, k, c)
  OBVIOUS
<1>2. PICK w \in Wires : w = Outermost(ch)
  BY DEF IsChain, Outermost
<1>3. ASSUME NEW j \in k..(Len(ch) - 1)
      PROVE  ch[j] \in Layers /\ ch[j].kind # "recover" /\ Told(ch[j], w) /\ j \in k..Len(ch)
  BY <1>2 DEF IsChain, ClearFrom, Tells
<1>4. \A j \in k..(Len(ch) - 1) : ch[j].kind = "access" => ~ ch[j].wrote
  BY <1>2, <1>3 DEF Told
<1>5. /\ Outermost(ch2) = Commit(w, c)
      /\ \A j \in k..Len(ch) : ch2[j] = OnWriteHeader(ch[j], c)
  BY <1>1, <1>2, <1>4, WriteHeaderOutside
<1>6. Len(ch2) = Len(ch)
  BY <1>1, WriteHeaderKeeps DEF Keeps
<1>7. ASSUME NEW j \in k..(Len(ch) - 1)
      PROVE  Told(ch2[j], Outermost(ch2)) /\ (ch[j].kind = "access" => ch2[j].wrote)
  BY <1>2, <1>3, <1>5, ToldHeader
<1>8. QED
  BY <1>1, <1>6, <1>7 DEF Tells

\* bytes were written,
LEMMA TellsWrite ==
    ASSUME NEW ch, IsChain(ch), NEW k \in 1..Len(ch), ClearFrom(ch, k), NEW b \in Seq(Nat),
           ~ Outermost(ch).hijacked, Tells(ch, k)
    PROVE  /\ Tells(Write(ch, k, b), k)
           /\ \A j \in k..(Len(ch) - 1) : ch[j].kind = "access" => Write(ch, k, b)[j].wrote
<1>1. PICK ch2 : ch2 = Write(ch, k, b)
  OBVIOUS
<1>2. PICK w \in Wires : w = Outermost(ch)
  BY DEF IsChain, Outermost
<1>3. ASSUME NEW j \in k..(Len(ch) - 1)
      PROVE  ch[j] \in Layers /\ ch[j].kind # "recover" /\ Told(ch[j], w) /\ j \in k..Len(ch)
  BY <1>2 DEF IsChain, ClearFrom, Tells
<1>4. /\ Outermost(ch2) = OnWrite(w, b)
      /\ \A j \in k..Len(ch) : ch2[j] = OnWrite(ch[j], b)
  BY <1>1, <1>2, WriteOutside
<1>5. Len(ch2) = Len(ch)
  BY <1>1, WriteKeeps DEF Keeps
<1>6. ASSUME NEW j \in k..(Len(ch) - 1)
      PROVE  Told(ch2[j], Outermost(ch2)) /\ (ch[j].kind = "access" => ch2[j].wrote)
  BY <1>2, <1>3, <1>4, ToldWrite
<1>7. QED
  BY <1>1, <1>5, <1>6 DEF Tells

\* The logs outside of every recover handler tell the status, and an access log below a
\* handler that sends several has seen the first of them.
TellsInv ==
    /\ \A k \in Outside : Told(chain[k], wire)
    /\ pc = "handler" /\ ~ Has("recover") /\ "again" \in Ops[Stack] /\ wire.wrote =>
          \A k \in Middleware : chain[k].kind = "access" => chain[k].wrote

\* Elements that keep their status on a wire that keeps its own.
LEMMA TellsKept ==
    ASSUME TypeInv, TellsInv, Middleware' = Middleware,
           \A k \in Middleware : chain'[k].kind = chain[k].kind /\ chain'[k].code = chain[k].code,
           \A k \in Middleware : chain[k].kind = "access" => chain'[k].wrote = chain[k].wrote,
           wire'.wrote = wire.wrote, wire'.code = wire.code, wire'.body = wire.body,
           pc' \in {pc, "unwind", "done", "aborted", "crashed"}
    PROVE  TellsInv'
<1>1. Outside' = Outside /\ Stack' = Stack /\ (Has("recover")' <=> Has("recover"))
  BY DEF Outside, Stack, Has, Middleware
<1>2. ASSUME NEW k \in Outside PROVE Told(chain'[k], wire')
  <2>1. k \in Middleware /\ Told(chain[k], wire)
    BY <1>2 DEF Outside, TellsInv
  <2>2. QED
    BY <2>1, ToldSame
<1>3. pc' = "handler" => pc = "handler"
  OBVIOUS
<1>4. QED
  BY <1>1, <1>2, <1>3 DEF TellsInv

\* A hijack, or an attempt at one.
LEMMA TellsHijack ==
    ASSUME TypeInv, HijackInv, TellsInv, CallHijack
    PROVE  TellsInv'
<1>1. PICK ok \in BOOLEAN : wire' = [wire EXCEPT !.hijacked = ok] /\ chain' = Hijack(chain, ok)
  BY HijackMarks
<1>2. PICK w \in Wires : w = wire
  BY DEF TypeInv, IsChain, wire, Outermost
<1>3. wire'.wrote = wire.wrote /\ wire'.code = wire.code /\ wire'.body = wire.body
  BY <1>1, <1>2 DEF Wires
<1>4. Middleware' = Middleware /\ pc' = pc
  BY HijackShape DEF CallHijack, Call
<1>5. ASSUME NEW k \in Middleware
      PROVE  /\ chain'[k].kind = chain[k].kind /\ chain'[k].code = chain[k].code
             /\ chain[k].kind = "access" => chain'[k].wrote = chain[k].wrote
  <2>1. k \in 1..(Len(chain) - 1) /\ IsChain(chain)
    BY DEF Middleware, TypeInv
  <2>2. PICK i \in Layers : i = chain[k]
    BY <2>1 DEF IsChain
  <2>3. PICK x : x = [i EXCEPT !.hijacked = TRUE]
    OBVIOUS
  <2>4. chain'[k] = [chain[k] EXCEPT !.hijacked = TRUE]
    BY <1>1, <2>1, HijackRecord
  <2>5. x.kind = i.kind /\ x.code = i.code /\ (i.kind = "access" => x.wrote = i.wrote)
    BY <2>3 DEF Layers, AccessWriters, PayloadWriters, RecoverWriters
  <2>6. QED
    BY <2>2, <2>3, <2>4, <2>5
<1>6. QED
  BY <1>3, <1>4, <1>5, TellsKept

\* A read.
LEMMA TellsRead ==
    ASSUME TypeInv, HijackInv, TellsInv, CallRead
    PROVE  TellsInv'
<1>1. PICK n \in 1..MaxWrite : chain' = Read(chain, n)
  BY DEF CallRead
<1>2. /\ n \in Nat /\ IsChain(chain) /\ pc' = pc
      /\ Len(chain) \in 1..Len(chain) /\ chain[Len(chain)].kind = "wire" /\ DOMAIN chain = 1..Len(chain)
  BY Params DEF TypeInv, IsChain, Wires, CallRead, Call
<1>3. Keeps(chain, chain')
  BY <1>1, <1>2, ReadKeeps
<1>4. Middleware' = Middleware /\ Len(chain') = Len(chain)
  BY <1>3, StackKept
<1>5. wire' = wire
  <2>1. chain'[Len(chain)] = chain[Len(chain)]
    BY <1>1, <1>2, ReadSpares
  <2>2. QED
    BY <1>4, <2>1 DEF wire, Outermost
<1>6. ASSUME NEW k \in Middleware
      PROVE  /\ chain'[k].kind = chain[k].kind /\ chain'[k].code = chain[k].code
             /\ chain[k].kind = "access" => chain'[k].wrote = chain[k].wrote
  <2>1. k \in 1..Len(chain) /\ chain[k] \in Writers
    BY <1>2 DEF Middleware, IsChain
  <2>2. CASE chain[k].kind # "payload"
    BY <1>1, <1>2, <2>1, <2>2, ReadSpares
  <2>3. CASE chain[k].kind = "payload"
    <3>1. PICK i \in PayloadWriters : i = chain[k]
      BY <2>1, <2>3, KindOf
    <3>2. chain'[k] = Tee(i, n)
      BY <1>1, <1>2, <2>1, <2>3, <3>1 DEF Read, Tee
    <3>3. QED
      BY <1>2, <2>3, <3>1, <3>2, CodeKept
  <2>4. QED
    BY <2>2, <2>3
<1>7. QED
  BY <1>2, <1>4, <1>5, <1>6, TellsKept

\* A flush of a handler whose stack tells no more than one status, and any flush after it.
LEMMA TellsFlush ==
    ASSUME TypeInv, TellsInv, ~ wire.hijacked, chain' = Flush(chain),
           \/ pc' # "handler"
           \/ "again" \notin Ops[Stack]
    PROVE  TellsInv'
<1>1. IsChain(chain) /\ Keeps(chain, chain')
  BY FlushKeeps DEF TypeInv
<1>2. Middleware' = Middleware /\ Stack' = Stack /\ Len(chain') = Len(chain)
  BY <1>1, StackKept
<1>3. /\ wire' = Commit(wire, OK) /\ wire \in Wires
      /\ \A j \in Middleware : chain'[j] = chain[j]
  BY <1>1, FlushRecord DEF wire, Middleware
<1>4. Outside' = Outside
  BY <1>2, <1>3 DEF Outside
<1>5. ASSUME NEW k \in Outside PROVE Told(chain'[k], wire')
  <2>1. k \in Middleware /\ Told(chain[k], wire)
    BY <1>5 DEF Outside, TellsInv
  <2>2. QED
    BY <1>3, <2>1, ToldFlush
<1>6. QED
  BY <1>2, <1>4, <1>5 DEF TellsInv

\* Outside of the recover handler is all that is outside of it.
LEMMA OutsideOf ==
    ASSUME TypeInv, FlowInv, NEW r \in Middleware, chain[r].kind = "recover", NEW k \in Outside
    PROVE  k = r \/ k \in (r + 1)..(Len(chain) - 1)
<1>1. k \in Middleware /\ ~ (r > k)
  BY DEF Outside
<1>2. QED
  BY <1>1 DEF Middleware, TypeInv, IsChain

\* The handler's calls below a recover handler.
LEMMA TellsInside ==
    ASSUME TypeInv, HijackInv, FlowInv, TellsInv, NEW r \in Middleware, chain[r].kind = "recover",
           CallWriteHeader \/ CallWrite \/ CallHeader
    PROVE  TellsInv'
<1>1. IsChain(chain) /\ r \in 1..(Len(chain) - 1) /\ 1 \in 1..r
  BY DEF TypeInv, Middleware, IsChain
<1>2. Keeps(chain, chain') /\ Stack' = Stack /\ Middleware' = Middleware /\ Len(chain') = Len(chain)
  BY CallsKeep, StackKept
<1>3. \A j \in Middleware : chain'[j].kind = chain[j].kind
  BY <1>1, <1>2 DEF Keeps, Middleware, IsChain
<1>4. Spares(chain, chain', r)
  <2>1. CASE CallWriteHeader
    <3>1. PICK c : chain' = WriteHeader(chain, 1, c)
      BY <2>1 DEF CallWriteHeader
    <3>2. QED
      BY <1>1, <3>1, WriteHeaderSpares
  <2>2. CASE CallWrite
    <3>1. PICK b : chain' = Write(chain, 1, b)
      BY <2>2 DEF CallWrite
    <3>2. QED
      BY <1>1, <3>1, WriteSpares
  <2>3. CASE CallHeader
    <3>1. PICK add, del : chain' = SetHeaders(chain, 1, add, del)
      BY <2>3 DEF CallHeader, EditHeader
    <3>2. QED
      BY <1>1, <3>1, SetHeadersSpares
  <2>4. QED
    BY <2>1, <2>2, <2>3
<1>5. wire' = wire
  BY <1>1, <1>2, <1>4, FreshSpared DEF wire
<1>6. Outside' = Outside
  BY <1>2, <1>3 DEF Outside
<1>7. ASSUME NEW k \in Outside PROVE Told(chain'[k], wire')
  <2>1. k = r \/ k \in (r + 1)..(Len(chain) - 1)
    BY <1>7, OutsideOf
  <2>2. CASE k = r
    BY <1>3, <2>2 DEF Told
  <2>3. CASE k \in (r + 1)..(Len(chain) - 1)
    <3>1. chain'[k] = chain[k]
      BY <1>1, <1>4, <2>3 DEF Spares, IsChain
    <3>2. QED
      BY <1>5, <1>7, <3>1 DEF TellsInv
  <2>4. QED
    BY <2>1, <2>2, <2>3
<1>8. Has("recover")'
  BY <1>2, <1>3 DEF Has
<1>9. QED
  BY <1>6, <1>7, <1>8 DEF TellsInv

\* What a handler writes is a sequence of bytes.
LEMMA BytesWritten ==
    ASSUME TypeInv, CallWrite
    PROVE  \E b \in Seq(Nat) : chain' = Write(chain, 1, b)
<1>1. PICK n \in 0..MaxWrite : chain' = Write(chain, 1, [i \in 1..n |-> Len(bare[1].body) + i])
  BY DEF CallWrite
<1>2. n \in Nat /\ Len(bare[1].body) \in Nat
  BY Params DEF TypeInv, IsChain, Wires
<1>3. PICK b : b = [i \in 1..n |-> Len(bare[1].body) + i]
  OBVIOUS
<1>4. b \in Seq(Nat)
  BY <1>2, <1>3
<1>5. QED
  BY <1>1, <1>3, <1>4

\* The same without one: the first status, headers and bytes reach all.
LEMMA TellsDirect ==
    ASSUME FinalCodes, OneStatus, TypeInv, HijackInv, FlowInv, DirectInv, TellsInv, ~ Has("recover"),
           CallWriteHeader \/ CallWrite \/ CallHeader
    PROVE  TellsInv'
<1>a. IsChain(chain) /\ 1 \in 1..Len(chain) /\ ClearFrom(chain, 1)
  BY NoRecover DEF TypeInv, IsChain
<1>b. Keeps(chain, chain') /\ Stack' = Stack /\ Middleware' = Middleware /\ Len(chain') = Len(chain)
  BY CallsKeep, StackKept
<1>c. \A j \in Middleware : chain'[j].kind = chain[j].kind
  BY <1>a, <1>b DEF Keeps, Middleware, IsChain
<1>d. pc = "handler" /\ pc' = "handler" /\ ~ wire.hijacked /\ wire = bare[1]
  BY CallShape DEF DirectInv
<1>e. Outside = Middleware /\ Outside' = Middleware
  BY <1>b, <1>c DEF Outside, Has
<1>f. ~ Has("recover")'
  BY <1>b, <1>c DEF Has
<1>g. Tells(chain, 1)
  BY <1>e DEF TellsInv, Tells, Middleware, wire
<1>1. ASSUME Tells(chain', 1),
             "again" \in Ops[Stack] /\ wire'.wrote =>
                 \A k \in Middleware : chain[k].kind = "access" => chain'[k].wrote
      PROVE  TellsInv'
  <2>1. \A k \in Middleware : Told(chain'[k], wire')
    BY <1>1, <1>b DEF Tells, Middleware, wire
  <2>2. QED
    BY <1>1, <1>b, <1>c, <1>e, <2>1 DEF TellsInv
<1>2. CASE CallWriteHeader
  <2>1. PICK c \in Codes : chain' = WriteHeader(chain, 1, c)
    BY <1>2 DEF CallWriteHeader
  <2>2. c \in Statuses /\ c >= 200
    BY StatusType DEF FinalCodes
  <2>3. CASE ~ wire.wrote
    <3>1. /\ Tells(WriteHeader(chain, 1, c), 1)
          /\ \A j \in 1..(Len(chain) - 1) : chain[j].kind = "access" => WriteHeader(chain, 1, c)[j].wrote
      BY <1>a, <1>d, <1>g, <2>2, <2>3, TellsStatus DEF wire
    <3>2. QED
      BY <1>1, <2>1, <3>1 DEF Middleware
  <2>4. CASE wire.wrote
    <3>1. "again" \in Ops[Stack]
      BY <1>2, <1>d, <2>4 DEF CallWriteHeader, Call
    <3>2. \A k \in Middleware : chain[k].kind = "access" /\ chain[k].wrote
      <4>1. "recover" \notin Range(Stack)
        BY DEF Range, Stack, Has, Middleware
      <4>2. "payload" \notin Range(Stack)
        BY <3>1, <4>1 DEF OneStatus, FlowInv
      <4>3. \A k \in Middleware : chain[k].kind # "payload" /\ chain[k].kind # "recover"
        BY <4>1, <4>2 DEF Range, Stack, Middleware
      <4>4. \A k \in Middleware : chain[k].kind = "access"
        BY <1>a, <4>3 DEF Middleware, IsChain, Layers, AccessWriters, PayloadWriters, RecoverWriters
      <4>5. QED
        BY <1>d, <2>4, <3>1, <4>4 DEF TellsInv
    <3>3. ASSUME NEW k \in Middleware PROVE chain'[k] = chain[k]
      <4>1. chain'[k] \in {chain[k], OnWriteHeader(chain[k], c)}
        BY <1>a, <2>1 DEF WriteHeader, Middleware, IsChain
      <4>2. OnWriteHeader(chain[k], c) = chain[k]
        BY <3>2 DEF OnWriteHeader
      <4>3. QED
        BY <4>1, <4>2
    <3>4. wire' = wire
      <4>1. wire' = Commit(wire, c)
        BY <1>d, <2>1, <2>2, StatusDirect
      <4>2. wire \in Wires
        BY <1>a DEF IsChain, wire, Outermost
      <4>3. QED
        BY <1>d, <2>2, <2>4, <4>1, <4>2, CommitFinal
    <3>5. Tells(chain', 1)
      BY <1>b, <1>g, <3>3, <3>4 DEF Tells, Middleware, wire
    <3>6. QED
      BY <1>1, <3>2, <3>3, <3>5
  <2>5. QED
    BY <2>3, <2>4
<1>3. CASE CallWrite
  <2>1. PICK b \in Seq(Nat) : chain' = Write(chain, 1, b)
    BY <1>3, BytesWritten
  <2>2. /\ Tells(Write(chain, 1, b), 1)
        /\ \A j \in 1..(Len(chain) - 1) : chain[j].kind = "access" => Write(chain, 1, b)[j].wrote
    BY <1>a, <1>d, <1>g, TellsWrite DEF wire
  <2>3. QED
    BY <1>1, <2>1, <2>2 DEF Middleware
<1>4. CASE CallHeader
  <2>1. PICK add, del : chain' = SetHeaders(chain, 1, add, del)
    BY <1>4 DEF CallHeader, EditHeader
  <2>2. /\ Tells(chain', 1) /\ wire'.wrote = wire.wrote
        /\ \A j \in Middleware : chain'[j] = chain[j]
    BY <1>a, <1>g, <2>1, TellsHeaders DEF wire, Middleware
  <2>3. "again" \in Ops[Stack] /\ wire'.wrote =>
            \A k \in Middleware : chain[k].kind = "access" => chain'[k].wrote
    BY <1>d, <2>2 DEF TellsInv
  <2>4. QED
    BY <1>1, <2>2, <2>3
<1>5. QED
  BY <1>2, <1>3, <1>4

\* What the recover handler writes for those inside, those outside tell.
LEMMA TellsReply ==
    ASSUME TypeInv, HijackInv, FlowInv, depth \in Middleware, chain[depth].kind = "recover",
           ~ chain[depth].hijacked, NEW ch, Keeps(chain, ch), Tells(ch, depth + 1),
           NEW b \in Seq(Nat), chain' = Write(ch, depth + 1, b), pc' # "handler",
           Middleware' = Middleware, \A j \in Middleware : chain'[j].kind = chain[j].kind
    PROVE  TellsInv'
<1>1. Outside' = Outside
  BY DEF Outside
<1>2. /\ IsChain(chain) /\ depth + 1 \in 1..Len(chain) /\ Len(ch) = Len(chain) /\ IsChain(ch)
  BY DEF TypeInv, Keeps, IsChain, Middleware
<1>3. ClearFrom(ch, depth + 1)
  <2>1. depth >= depth
    BY DEF Middleware
  <2>2. ClearFrom(chain, depth + 1)
    BY <2>1, OutsideIsClear
  <2>3. QED
    BY <1>2, <2>2, ClearKept
<1>4. ~ Outermost(ch).hijacked
  <2>1. ~ wire.hijacked
    BY DEF HijackInv
  <2>2. Len(chain) \in 1..Len(chain)
    BY <1>2 DEF IsChain
  <2>3. QED
    BY <1>2, <2>1, <2>2 DEF Keeps, Outermost, wire
<1>5. Tells(chain', depth + 1)
  BY <1>2, <1>3, <1>4, TellsWrite
<1>6. Len(chain') = Len(chain)
  BY <1>2, WriteKeeps DEF Keeps
<1>7. ASSUME NEW k \in Outside PROVE Told(chain'[k], wire')
  <2>1. k = depth \/ k \in (depth + 1)..(Len(chain) - 1)
    BY OutsideOf
  <2>2. CASE k = depth
    BY <2>2 DEF Told
  <2>3. CASE k \in (depth + 1)..(Len(chain) - 1)
    BY <1>5, <1>6, <2>3 DEF Tells, wire
  <2>4. QED
    BY <2>1, <2>2, <2>3
<1>8. QED
  BY <1>1, <1>7 DEF TellsInv

\* The middlewares after next.
LEMMA TellsUnwind ==
    ASSUME Tidy, TypeInv, HijackInv, FlowInv, RecoverInv, SyncInv, TellsInv,
           Middleware' = Middleware, \A j \in Middleware : chain'[j].kind = chain[j].kind,
           \/ RecoverClean \/ RecoverPanic \/ RecoverAbort \/ AccessReturn \/ PayloadReturn
           \/ RecoverSinkPanics \/ AccessSinkPanics \/ PayloadSinkPanics
    PROVE  TellsInv'
<1>1. /\ depth \in Middleware /\ depth < Len(chain) /\ pc' \in {"unwind", "crashed"}
      /\ IsChain(chain) /\ depth + 1 \in 1..Len(chain)
      /\ Keeps(chain, chain)
  BY UnwindShape DEF TypeInv, IsChain, Keeps
<1>2. CASE chain' = chain
  BY <1>1, <1>2, TellsKept DEF wire
<1>3. CASE PayloadReturn \/ PayloadSinkPanics
  <2>1. chain[depth].kind = "payload" /\ PayloadEnd
    BY <1>3, StepKinds
  <2>2. ClearFrom(chain, depth + 1)
    <3> SUFFICES ASSUME NEW j \in (depth + 1)..(Len(chain) - 1), chain[j].kind = "recover" PROVE FALSE
      BY DEF ClearFrom
    <3>1. j \in Middleware /\ depth \in 1..(j - 1)
      BY <1>1 DEF Middleware, IsChain
    <3>2. chain[depth].kind = "access"
      BY <3>1, InsideIsAccess DEF Tidy
    <3>3. QED
      BY <2>1, <3>2
  <2>3. chain' = chain \/ (~ chain[depth].hijacked /\ chain' = Flush(chain))
    BY <1>1, <2>1, <2>2, PayloadOutside
  <2>4. wire.hijacked => chain[depth].hijacked
    BY <1>1 DEF HijackInv
  <2>5. QED
    BY <1>1, <1>2, <2>3, <2>4, TellsFlush
<1>4. ASSUME RecoverClean \/ RecoverPanic
      PROVE  /\ chain[depth].kind = "recover" /\ ClearFrom(chain, depth + 1)
             /\ ~ wire.wrote /\ Tells(chain, depth + 1)
  <2>1. chain[depth].kind = "recover" /\ depth >= depth /\ depth <= depth
    BY <1>1, <1>4, StepKinds DEF Middleware
  <2>2. ClearFrom(chain, depth + 1)
    BY <1>1, <2>1, OutsideIsClear
  <2>3. FreshFrom(chain, depth)
    BY <1>1, <2>1, InsideIsAccess DEF Tidy, RecoverInv, RecoverBody
  <2>4. ASSUME NEW j \in (depth + 1)..(Len(chain) - 1) PROVE j \in Outside
    <3>1. j \in Middleware /\ j + 1 \in 1..Len(chain)
      BY <1>1 DEF Middleware, IsChain
    <3>2. ClearFrom(chain, j + 1)
      <4>1. \A i \in (j + 1)..(Len(chain) - 1) : i \in (depth + 1)..(Len(chain) - 1)
        BY <1>1 DEF Middleware, IsChain
      <4>2. QED
        BY <2>2, <4>1 DEF ClearFrom
    <3>3. QED
      BY <3>1, <3>2, OutsideClear
  <2>5. Tells(chain, depth + 1)
    BY <2>4 DEF Tells, TellsInv, wire
  <2>6. QED
    BY <2>1, <2>2, <2>3, <2>5 DEF FreshFrom, Untouched, wire
<1>5. CASE RecoverClean /\ ~ chain[depth].hijacked
  <2>1. chain' = flushTo(chain, depth) /\ depth \in Nat
    BY <1>1, <1>5 DEF RecoverClean, Middleware
  <2>2. /\ chain[depth].kind = "recover" /\ ClearFrom(chain, depth + 1)
        /\ ~ wire.wrote /\ Tells(chain, depth + 1) /\ ~ wire.hijacked
    BY <1>1, <1>4, <1>5 DEF HijackInv
  <2>3. PICK rrw \in RecoverWriters : rrw = chain[depth]
    BY <1>1, <2>2, KindOf DEF IsChain, Middleware
  <2>4. rrw.headers \in HeaderSets /\ {} \in HeaderSets /\ rrw.code \in Statuses /\ rrw.body \in Seq(Nat)
    BY DEF RecoverWriters, HeaderSets
  <2>5. rrw.wrote => rrw.code >= 200
    <3>1. Buffers(rrw, bare[1]) /\ Settled(bare[1])
      <4>1. depth <= depth
        BY <2>1
      <4>2. QED
        BY <1>1, <2>2, <2>3, <4>1 DEF SyncInv, SyncBody
    <3>2. QED
      BY <3>1 DEF Buffers, Settled
  <2>6. PICK a : a = IF rrw.cloned THEN SetHeaders(chain, depth + 1, rrw.headers, {}) ELSE chain
    OBVIOUS
  <2>7. PICK b : b = IF rrw.wrote THEN WriteHeader(a, depth + 1, rrw.code) ELSE a
    OBVIOUS
  <2>8. chain' = Write(b, depth + 1, rrw.body)
    BY <2>1, <2>3, <2>6, <2>7 DEF flushTo
  <2>9. Keeps(chain, a) /\ Tells(a, depth + 1) /\ ~ Outermost(a).wrote
    <3>1. Keeps(chain, SetHeaders(chain, depth + 1, rrw.headers, {}))
      BY <1>1, <2>4, SetHeadersKeeps
    <3>2. /\ Tells(SetHeaders(chain, depth + 1, rrw.headers, {}), depth + 1)
          /\ Outermost(SetHeaders(chain, depth + 1, rrw.headers, {})).wrote = Outermost(chain).wrote
      BY <1>1, <2>2, TellsHeaders
    <3>3. QED
      BY <1>1, <2>2, <2>6, <3>1, <3>2 DEF wire
  <2>10. IsChain(a) /\ Len(a) = Len(chain) /\ ClearFrom(a, depth + 1)
    BY <1>1, <2>2, <2>9, ClearKept
  <2>11. ~ Outermost(a).hijacked
    <3>1. Len(chain) \in 1..Len(chain)
      BY <1>1 DEF IsChain
    <3>2. QED
      BY <2>2, <2>9, <2>10, <3>1 DEF Keeps, Outermost, wire
  <2>12. Keeps(chain, b) /\ Tells(b, depth + 1)
    <3>1. CASE rrw.wrote
      <4>1. Keeps(a, WriteHeader(a, depth + 1, rrw.code))
        BY <2>4, <2>10, WriteHeaderKeeps
      <4>2. Keeps(chain, WriteHeader(a, depth + 1, rrw.code))
        BY <1>1, <2>9, <4>1, KeepsTrans
      <4>3. Tells(WriteHeader(a, depth + 1, rrw.code), depth + 1)
        BY <1>1, <2>4, <2>5, <2>9, <2>10, <2>11, <3>1, TellsStatus
      <4>4. QED
        BY <2>7, <3>1, <4>2, <4>3
    <3>2. CASE ~ rrw.wrote
      BY <2>7, <2>9, <3>2
    <3>3. QED
      BY <3>1, <3>2
  <2>13. pc' # "handler"
    BY <1>1
  <2>14. QED
    BY <1>1, <1>5, <2>2, <2>4, <2>8, <2>12, <2>13, TellsReply
<1>6. CASE RecoverPanic /\ ~ chain[depth].hijacked
  <2>1. PICK a : a = SetHeaders(chain, depth + 1, {"fallback"}, {})
    OBVIOUS
  <2>2. PICK b : b = WriteHeader(a, depth + 1, InternalServerError)
    OBVIOUS
  <2>3. chain' = Write(b, depth + 1, Fallback)
    BY <1>6, <2>1, <2>2 DEF RecoverPanic
  <2>4. /\ chain[depth].kind = "recover" /\ ClearFrom(chain, depth + 1)
        /\ ~ wire.wrote /\ Tells(chain, depth + 1) /\ ~ wire.hijacked
    BY <1>1, <1>4, <1>6 DEF HijackInv
  <2>5. /\ {"fallback"} \in HeaderSets /\ {} \in HeaderSets /\ Fallback \in Seq(Nat)
        /\ InternalServerError \in Statuses /\ InternalServerError >= 200
    BY StatusType DEF HeaderSets, Fallback, InternalServerError
  <2>6. Keeps(chain, a) /\ Tells(a, depth + 1) /\ ~ Outermost(a).wrote
    BY <1>1, <2>1, <2>4, <2>5, SetHeadersKeeps, TellsHeaders DEF wire
  <2>7. IsChain(a) /\ Len(a) = Len(chain) /\ ClearFrom(a, depth + 1)
    BY <1>1, <2>4, <2>6, ClearKept
  <2>8. ~ Outermost(a).hijacked
    <3>1. Len(chain) \in 1..Len(chain)
      BY <1>1 DEF IsChain
    <3>2. QED
      BY <2>4, <2>6, <2>7, <3>1 DEF Keeps, Outermost, wire
  <2>9. Keeps(a, b) /\ Tells(b, depth + 1)
    BY <1>1, <2>2, <2>5, <2>6, <2>7, <2>8, WriteHeaderKeeps, TellsStatus
  <2>10. Keeps(chain, b)
    BY <1>1, <2>6, <2>9, KeepsTrans
  <2>11. pc' # "handler"
    BY <1>1
  <2>12. QED
    BY <1>1, <1>6, <2>3, <2>4, <2>5, <2>9, <2>10, <2>11, TellsReply
<1>7. \/ chain' = chain
      \/ PayloadReturn \/ PayloadSinkPanics
      \/ RecoverClean /\ ~ chain[depth].hijacked
      \/ RecoverPanic /\ ~ chain[depth].hijacked
  BY StepKinds DEF RecoverClean, RecoverPanic, RecoverAbort, RecoverSinkPanics
<1>8. QED
  BY <1>2, <1>3, <1>5, <1>6, <1>7

\* Every step keeps it.
LEMMA TellsStep ==
    ASSUME Tidy, OneStatus, TypeInv, HijackInv, FlowInv, RecoverInv, SyncInv, DirectInv, TellsInv,
           [Next]_vars
    PROVE  TellsInv'
<1>1. Middleware' = Middleware /\ \A k \in Middleware : chain'[k].kind = chain[k].kind
  BY KindsStay
<1>2. CASE CallWriteHeader \/ CallWrite \/ CallHeader
  <2>1. CASE Has("recover")
    BY <1>2, <2>1, TellsInside DEF Has
  <2>2. CASE ~ Has("recover")
    BY <1>2, <2>2, TellsDirect DEF Tidy
  <2>3. QED
    BY <2>1, <2>2
<1>3. CASE CallRead
  BY <1>3, TellsRead
<1>4. CASE CallHijack
  BY <1>4, TellsHijack
<1>5. CASE CallFlush
  <2>1. ~ Has("recover")
    BY <1>5, NoFlushCall DEF Tidy, Has
  <2>2. "flush" \in Ops[Stack] /\ ~ wire.hijacked /\ chain' = Flush(chain)
    BY <1>5 DEF CallFlush, Call, wire
  <2>3. "recover" \notin Range(Stack)
    BY <2>1 DEF Range, Stack, Has, Middleware
  <2>4. "again" \notin Ops[Stack]
    BY <2>2, <2>3 DEF OneStatus, FlowInv
  <2>5. QED
    BY <2>2, <2>4, TellsFlush
<1>6. CASE End \/ UNCHANGED vars
  <2>1. chain' = chain /\ pc' \in {pc, "unwind"}
    BY <1>6 DEF End, vars
  <2>2. QED
    BY <1>1, <2>1, TellsKept DEF wire
<1>7. CASE \/ RecoverClean \/ RecoverPanic \/ RecoverAbort \/ AccessReturn \/ PayloadReturn
           \/ RecoverSinkPanics \/ AccessSinkPanics \/ PayloadSinkPanics
  BY <1>1, <1>7, TellsUnwind
<1>8. CASE Serve
  <2>1. /\ pc' \in {"done", "aborted"}
        /\ chain' = chain \/ (~ wire.hijacked /\ chain' = Flush(chain))
    BY <1>8 DEF Serve, wire
  <2>2. CASE chain' = chain
    BY <1>1, <2>1, <2>2, TellsKept DEF wire
  <2>3. CASE ~ wire.hijacked /\ chain' = Flush(chain)
    BY <2>1, <2>3, TellsFlush
  <2>4. QED
    BY <2>1, <2>2, <2>3
<1>9. QED
  BY <1>2, <1>3, <1>4, <1>5, <1>6, <1>7, <1>8 DEF Next

\* It holds at the beginning.
LEMMA TellsInit == Init => TellsInv
<1> SUFFICES ASSUME Init PROVE TellsInv
  OBVIOUS
<1>1. wire.wrote = FALSE /\ wire.code = 0 /\ wire.body = <<>>
  <2>1. PICK f \in BOOLEAN, h \in BOOLEAN : wire = Wire(f, h)
    BY InitShape
  <2>2. QED
    BY <2>1 DEF Wire
<1>2. ASSUME NEW k \in Outside PROVE Told(chain[k], wire)
  <2>1. k \in Middleware /\ chain[k] \in Middlewares(chain[k].kind)
    BY InitShape DEF Outside
  <2>2. CASE chain[k].kind = "access"
    <3>1. chain[k] = accessResponseWriter
      BY <2>1, <2>2 DEF Middlewares
    <3>2. chain[k].wrote = FALSE /\ chain[k].code = 0
      BY <3>1 DEF accessResponseWriter
    <3>3. QED
      BY <1>1, <2>2, <3>2 DEF Told
  <2>3. CASE chain[k].kind = "payload"
    <3>1. PICK c \in Caps : chain[k] = newInterceptorWithConfig(c[1], c[2])
      BY <2>1, <2>3 DEF Middlewares
    <3>2. chain[k].code = OK /\ OK >= 200
      BY <3>1 DEF newInterceptorWithConfig, OK
    <3>3. QED
      BY <1>1, <2>3, <3>2 DEF Told
  <2>4. CASE chain[k].kind \notin {"access", "payload"}
    BY <2>4 DEF Told
  <2>5. QED
    BY <2>2, <2>3, <2>4
<1>3. QED
  BY <1>1, <1>2 DEF TellsInv

\* So it is in every behaviour.
LEMMA TellsAlways == ASSUME Tidy, OneStatus PROVE Spec => []TellsInv
<1>1. TypeInv /\ HijackInv /\ FlowInv /\ RecoverInv /\ SyncInv /\ (BareInv /\ DirectInv) /\ TellsInv
      /\ [Next]_vars => TellsInv'
  BY TellsStep
<1>2. Spec => []RecoverInv
  BY RecoverAlways DEF Tidy
<1>3. Spec => [](BareInv /\ DirectInv)
  BY DirectAlways DEF Tidy
<1>4. QED
  BY <1>1, <1>2, <1>3, TellsInit, TypeInvAlways, FlowAlways, SyncAlways, PTL DEF Spec

\* The access and the payload log write one line each however the handler ends, also when
\* the sink of another log panics, and it shows the status that the client was sent
\* (access.go, payload.go); a 0 in the access log stands for a response without a body
\* that nobody gave a status.
THEOREM StatusesAreLogged == ASSUME Tidy, OneStatus PROVE Spec => []StatusLogged
<1>1. TypeInv /\ FlowInv /\ LinesInv /\ TellsInv => StatusLogged
  <2> SUFFICES ASSUME TypeInv, FlowInv, LinesInv, TellsInv, Ended,
                      NEW k \in Middleware \ {lost}, chain[k].kind # "recover"
               PROVE  /\ Len(lines[k]) = 1
                      /\ k \in Outside /\ wire.wrote => lines[k][1].code \in {0, wire.code}
                      /\ k \in Outside /\ lines[k][1].code = 0 =>
                            wire.code \in {0, OK} /\ wire.body = <<>>
    BY DEF StatusLogged
  <2>1. k < depth
    <3>1. depth = Len(chain) /\ k \in 1..(Len(chain) - 1)
      BY DEF FlowInv, Ended, Middleware
    <3>2. QED
      BY <3>1 DEF TypeInv, IsChain
  <2>2. Len(lines[k]) = 1 /\ (k \in Outside => lines[k][1] = LineOf(chain[k]))
    BY <2>1 DEF LinesInv
  <2>3. ASSUME k \in Outside
        PROVE  /\ wire.wrote => lines[k][1].code \in {0, wire.code}
               /\ lines[k][1].code = 0 => wire.code \in {0, OK} /\ wire.body = <<>>
    <3>1. PICK i \in Layers : i = chain[k] /\ Told(i, wire)
      BY <2>3 DEF TellsInv, TypeInv, IsChain, Middleware
    <3>2. lines[k][1].code = i.code
      BY <2>2, <2>3, <3>1 DEF LineOf
    <3>3. CASE i.kind = "access"
      <4>1. i.wrote \in BOOLEAN
        BY <3>3 DEF Layers, AccessWriters, PayloadWriters, RecoverWriters
      <4>2. i.code >= 200 => i.code # 0
        BY <3>1 DEF Layers, AccessWriters, PayloadWriters, RecoverWriters
      <4>3. QED
        BY <3>1, <3>2, <3>3, <4>1, <4>2 DEF Told
    <3>4. CASE i.kind = "payload"
      <4>1. i.code >= 200 => i.code # 0
        OBVIOUS
      <4>2. QED
        BY <3>1, <3>2, <3>4, <4>1 DEF Told
    <3>5. i.kind \in {"access", "payload"}
      BY <3>1 DEF Layers, AccessWriters, PayloadWriters, RecoverWriters
    <3>6. QED
      BY <3>3, <3>4, <3>5
  <2>4. QED
    BY <2>2, <2>3
<1>2. QED
  BY <1>1, TypeInvAlways, FlowAlways, LinesAlways, TellsAlways, PTL

=============================================================================
