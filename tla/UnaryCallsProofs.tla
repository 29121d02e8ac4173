---------------------------- MODULE UnaryCallsProofs ----------------------------
(***************************************************************************)
(* Proofs about UnaryCalls, for every number of goroutines, messages,      *)
(* calls, attempts and options, on both transports: slices stay within     *)
(* their arrays, calls use options and headers of their own, and, as long  *)
(* as no message is passed twice, all attempts of a call carry one id of   *)
(* its own and the server performs the call at most once.                  *)
(***************************************************************************)
EXTENDS UnaryCalls, SequenceTheorems, FiniteSetTheorems, TLAPS

(* What the cells of arrays hold. *)
Cells == Callers \cup {"retry", "metrics", "free", "added", "x-goog", "json"}
SliceSet == [array : Arrays, len : Nat, cap : Nat]
Steps == {"idle", "ids", "headers", "metadata", "opts", "invoke", "attempt", "waiting"}

(* Memory is typed, and every slice has an array that nobody else appends to:
   the methods' options theirs, each call its own two. *)
MemoryTyped ==
  /\ transport \in {"grpc", "rest"}
  /\ field \in Structs
  /\ memory \in [Arrays -> Seq(Cells)]
  /\ methodOpts \in [Structs -> SliceSet]
  /\ opts \in [Callers -> SliceSet]
  /\ hds \in [Callers -> SliceSet]
  /\ pc \in [Callers -> Steps]
  /\ settings \in [Callers -> Seq(Cells)]
  /\ metadata \in [Callers -> Seq(Cells)]
SlicesApart ==
  /\ xGoogHeaders = Slice(Shared("headers"), 1, 1)
  /\ \A s \in Structs : methodOpts[s].array = Shared(s)
  /\ \A c \in Callers : /\ opts[c].array = Own(c, "opts")
                        /\ hds[c].array = Own(c, "hds")
SlicesWithin ==
  /\ \A s \in Structs : SliceOK(methodOpts[s])
  /\ SliceOK(xGoogHeaders)
  /\ \A c \in Callers : SliceOK(opts[c]) /\ SliceOK(hds[c])

(* What a call has built before the statement that reads it. *)
MethodsOptions == Content(methodOpts[CallOptions])
OptionsBuilt ==
  \A c \in Callers :
    pc[c] = "invoke" => Content(opts[c]) = Append(MethodsOptions, c)
HeadersBuilt ==
  \A c \in Callers :
    pc[c] = "metadata" => Content(hds[c]) = Content(xGoogHeaders) \o OwnHeaders(c)

MemInv == /\ MemoryTyped /\ SlicesApart /\ SlicesWithin
          /\ OptionsBuilt /\ HeadersBuilt /\ OptionsAreOwn /\ HeadersAreOwn

-------------------------------------------------------------------------------
(* Ids are fresh: every one in use is older than the next, and no two
   messages share one. *)
MessagesTyped ==
  /\ nextId \in Nat \ {0}
  /\ requests \in [Msgs -> [id : Nat, byUser : BOOLEAN, passed : BOOLEAN]]
  /\ jsonReq \in [Callers -> Nat]
IdsFresh ==
  /\ \A m \in Msgs : requests[m].id < nextId
  /\ \A m, n \in Msgs : requests[m].id = requests[n].id /\ requests[m].id # NoId => m = n

(* A call in progress is one of those issued, works on a message of its own
   and has filled in the id once it is past that statement. *)
PastIds(c) ==
  pc[c] \in {"opts", "invoke", "attempt", "waiting"}
            \cup (IF transport = "rest" THEN {"headers", "metadata"} ELSE {})
CallsTyped ==
  /\ transport \in {"grpc", "rest"}
  /\ pc \in [Callers -> Steps]
  /\ call \in [Callers -> Nat]
  /\ msg \in [Callers -> Msgs \cup {CHOOSE m \in Msgs : TRUE}]
  /\ tries \in [Callers -> Nat]
  /\ calls \in 0 .. MaxCalls
  /\ outcome \in [1 .. MaxCalls -> {"new", "issued", "ok", "failed"}]
  /\ \A k \in 1 .. MaxCalls : outcome[k] = "new" <=> k > calls
InProgress ==
  \A c \in Callers :
    /\ pc[c] # "idle" =>
         /\ call[c] \in 1 .. calls /\ outcome[call[c]] = "issued"
         /\ msg[c] \in Msgs /\ requests[msg[c]].passed
         /\ \A d \in Callers \ {c} : pc[d] # "idle" => call[d] # call[c] /\ msg[d] # msg[c]
    /\ PastIds(c) => /\ requests[msg[c]].id # NoId
                     /\ transport = "rest" => jsonReq[c] = requests[msg[c]].id

(* What was sent: by calls that were issued, under the id of their message,
   which no other call has. *)
SentTyped ==
  sent \subseteq [call : 1 .. calls, try : Nat, id : 1 .. nextId - 1]
SentByCall ==
  \A c \in Callers, r \in sent :
    pc[c] # "idle" /\ r.call = call[c] =>
      pc[c] \in {"attempt", "waiting"} /\ r.id = requests[msg[c]].id
SentWithMessage ==
  \A m \in Msgs, r \in sent :
    r.id = requests[m].id =>
      requests[m].passed /\ \A c \in Callers : pc[c] # "idle" /\ msg[c] = m => r.call = call[c]

(* This much holds also when messages are passed again ... *)
CallsInv == /\ MessagesTyped /\ CallsTyped /\ SentTyped
            /\ IdsFresh /\ InProgress /\ SentByCall

(* ... and this if they are not. *)
IdsInv == SentWithMessage /\ RetriesReuseId

(* What the server did: it performed requests that were sent, one for each
   id, and answers only calls that it performed. *)
ServerInv ==
  /\ network \subseteq sent
  /\ effects \subseteq sent
  /\ \A e, f \in effects : e.id = f.id => e = f
  /\ \A a \in answered : \E e \in effects : e.call = a[1]

-------------------------------------------------------------------------------
(* The arrays of the client and of the calls' locals are all different. *)
LEMMA ArraysApart ==
  /\ \A s \in Structs : Shared(s) \in Arrays
  /\ Shared("headers") \in Arrays
  /\ \A s \in Structs : Shared(s) # Shared("headers")
  /\ \A s, t \in Structs : Shared(s) = Shared(t) => s = t
  /\ \A c \in Callers, n \in {"opts", "hds"} : Own(c, n) \in Arrays
  /\ \A c \in Callers, n \in {"opts", "hds"} :
       /\ Own(c, n) # Shared("headers")
       /\ \A s \in Structs : Own(c, n) # Shared(s)
       /\ \A d \in Callers, k \in {"opts", "hds"} : Own(c, n) = Own(d, k) => c = d /\ n = k
BY DEF Arrays, Structs, Shared, Own

(* The statements of the emitted methods in order (unaryGRPCCall and
   unaryRESTCall). *)
LEMMA StatementOrder ==
  ASSUME transport \in {"grpc", "rest"}
  PROVE  /\ Order(transport)[1] = (IF transport = "grpc" THEN "headers" ELSE "ids")
         /\ After("headers") = "metadata"
         /\ After("metadata") = (IF transport = "grpc" THEN "ids" ELSE "opts")
         /\ After("ids") = (IF transport = "grpc" THEN "opts" ELSE "headers")
         /\ After("opts") = "invoke"
         /\ After("invoke") = "attempt"
<1>1. CASE transport = "grpc"
  <2>1. DOMAIN Order(transport) = 1 .. 5 /\ Len(Order(transport)) = 5
    BY <1>1 DEF Order
  <2>2. /\ \A j \in 1 .. 5 : Order(transport)[j] = "headers" <=> j = 1
        /\ \A j \in 1 .. 5 : Order(transport)[j] = "metadata" <=> j = 2
        /\ \A j \in 1 .. 5 : Order(transport)[j] = "ids" <=> j = 3
        /\ \A j \in 1 .. 5 : Order(transport)[j] = "opts" <=> j = 4
        /\ \A j \in 1 .. 5 : Order(transport)[j] = "invoke" <=> j = 5
    BY <1>1 DEF Order
  <2>3. /\ (CHOOSE j \in 1 .. 5 : Order(transport)[j] = "headers") = 1
        /\ (CHOOSE j \in 1 .. 5 : Order(transport)[j] = "metadata") = 2
        /\ (CHOOSE j \in 1 .. 5 : Order(transport)[j] = "ids") = 3
        /\ (CHOOSE j \in 1 .. 5 : Order(transport)[j] = "opts") = 4
        /\ (CHOOSE j \in 1 .. 5 : Order(transport)[j] = "invoke") = 5
    BY <2>2
  <2> QED
    BY <1>1, <2>1, <2>2, <2>3 DEF After
<1>2. CASE transport = "rest"
  <2>1. DOMAIN Order(transport) = 1 .. 5 /\ Len(Order(transport)) = 5
    BY <1>2 DEF Order
  <2>2. /\ \A j \in 1 .. 5 : Order(transport)[j] = "ids" <=> j = 1
        /\ \A j \in 1 .. 5 : Order(transport)[j] = "headers" <=> j = 2
        /\ \A j \in 1 .. 5 : Order(transport)[j] = "metadata" <=> j = 3
        /\ \A j \in 1 .. 5 : Order(transport)[j] = "opts" <=> j = 4
        /\ \A j \in 1 .. 5 : Order(transport)[j] = "invoke" <=> j = 5
    BY <1>2 DEF Order
  <2>3. /\ (CHOOSE j \in 1 .. 5 : Order(transport)[j] = "ids") = 1
        /\ (CHOOSE j \in 1 .. 5 : Order(transport)[j] = "headers") = 2
        /\ (CHOOSE j \in 1 .. 5 : Order(transport)[j] = "metadata") = 3
        /\ (CHOOSE j \in 1 .. 5 : Order(transport)[j] = "opts") = 4
        /\ (CHOOSE j \in 1 .. 5 : Order(transport)[j] = "invoke") = 5
    BY <2>2
  <2> QED
    BY <1>2, <2>1, <2>2, <2>3 DEF After
<1> QED
  BY <1>1, <1>2

(* Appending to a slice without capacity to spare copies: nothing but the
   fresh array is written, and the new slice holds the old content and what
   was appended. *)
LEMMA AppendCopies ==
  ASSUME memory \in [Arrays -> Seq(Cells)],
         NEW s \in SliceSet, SliceOK(s), s.cap = s.len,
         NEW xs \in Seq(Cells), xs # <<>>,
         NEW fresh \in Arrays
  PROVE  /\ Content(s) \in Seq(Cells)
         /\ Content(s) \o xs \in Seq(Cells)
         /\ Len(Content(s) \o xs) = s.len + Len(xs)
         /\ Appended(s, xs, fresh, 0) = Slice(fresh, s.len + Len(xs), s.len + Len(xs))
         /\ Written(s, xs, fresh, 0) = [memory EXCEPT ![fresh] = Content(s) \o xs]
         /\ SubSeq(Content(s) \o xs, 1, s.len + Len(xs)) = Content(s) \o xs
<1>1. s.len \in Nat /\ s.cap \in Nat /\ Len(xs) \in Nat \ {0} /\ s.len <= Len(memory[s.array])
  <2>1. Len(xs) \in Nat \ {0}
    BY EmptySeq, LenProperties
  <2> QED
    BY <2>1 DEF SliceSet, SliceOK
<1>2. ~Fits(s, xs)
  BY <1>1 DEF Fits
<1>3. Content(s) \in Seq(Cells) /\ Len(Content(s)) = s.len
  <2>1. memory[s.array] \in Seq(Cells)
    BY DEF SliceSet
  <2>2. SubSeq(memory[s.array], 1, s.len) \in Seq(Cells)
    BY <1>1, <2>1, SubSeqProperties
  <2>3. Len(SubSeq(memory[s.array], 1, s.len)) = s.len
    BY <1>1, <2>1, SubSeqProperties
  <2> QED
    BY <2>2, <2>3 DEF Content
<1>4. Content(s) \o xs \in Seq(Cells) /\ Len(Content(s) \o xs) = s.len + Len(xs)
  BY <1>3, ConcatProperties
<1>5. [i \in 1 .. 0 |-> "free"] = <<>>
  OBVIOUS
<1>6. (Content(s) \o xs) \o <<>> = Content(s) \o xs
  BY <1>4, ConcatEmptySeq
<1>7. Written(s, xs, fresh, 0) = [memory EXCEPT ![fresh] = Content(s) \o xs]
  BY <1>2, <1>5, <1>6, <1>3, ConcatAssociative DEF Written
<1>8. Appended(s, xs, fresh, 0) = Slice(fresh, s.len + Len(xs), s.len + Len(xs))
  BY <1>1, <1>2 DEF Appended, Slice
<1>9. SubSeq(Content(s) \o xs, 1, s.len + Len(xs)) = Content(s) \o xs
  BY <1>4, SubSeqFull
<1> QED
  BY <1>3, <1>4, <1>7, <1>8, <1>9

-------------------------------------------------------------------------------
(* The constructor (gRPCCallOptions, restCallOptions, setGoogleClientInfo). *)
LEMMA MemInit == Init => MemInv
<1> SUFFICES ASSUME Init PROVE MemInv
  OBVIOUS
<1> USE ArraysApart
<1>1. PICK options \in {<<"retry">>, <<"retry", "metrics", "free">>} :
        LET used == {i \in DOMAIN options : options[i] # "free"}
        IN  /\ methodOpts = [s \in Structs |-> Slice(Shared(s), Cardinality(used), Len(options))]
            /\ memory = [a \in Arrays |->
                 IF a \in {Shared(s) : s \in Structs} THEN options
                 ELSE IF a = Shared("headers") THEN [i \in 1 .. ClientInfo.cap |->
                                               IF i = 1 THEN "x-goog" ELSE "free"]
                 ELSE <<>>]
  BY DEF Init
<1> DEFINE used == {i \in DOMAIN options : options[i] # "free"}
<1>2. options \in Seq(Cells) /\ Len(options) \in Nat
  <2>1. CASE options = <<"retry">>
    BY <2>1 DEF Cells
  <2>2. CASE options = <<"retry", "metrics", "free">>
    BY <2>2 DEF Cells
  <2> QED
    BY <2>1, <2>2
<1>3. Cardinality(used) \in 0 .. Len(options)
  <2>1. used \subseteq 1 .. Len(options)
    BY <1>2
  <2>2. \A n \in Nat : IsFiniteSet(1 .. n) /\ Cardinality(1 .. n) = n
    BY FS_Interval
  <2> QED
    BY <1>2, <2>1, <2>2, FS_Subset, FS_CardinalityType
<1>4. [i \in 1 .. ClientInfo.cap |-> IF i = 1 THEN "x-goog" ELSE "free"] \in Seq(Cells)
  <2>1. ClientInfo.cap = 1
    BY DEF ClientInfo, Slice
  <2>2. \A i \in 1 .. 1 : (IF i = 1 THEN "x-goog" ELSE "free") \in Cells
    BY DEF Cells
  <2> QED
    BY <2>1, <2>2, IsASeq
<1>5. <<>> \in Seq(Cells) /\ Len(<<>>) = 0
  BY EmptySeq
<1>6. Len([i \in 1 .. ClientInfo.cap |-> IF i = 1 THEN "x-goog" ELSE "free"]) = 1
  BY DEF ClientInfo, Slice
<1>7. memory \in [Arrays -> Seq(Cells)]
  BY <1>1, <1>2, <1>4, <1>5
<1>8. methodOpts \in [Structs -> SliceSet]
  BY <1>1, <1>2, <1>3 DEF SliceSet, Slice
<1>9. MemoryTyped
  BY <1>5, <1>7, <1>8, UnaryAssumption
     DEF Init, MemoryTyped, Structs, SliceSet, Slice, Steps
<1>10. SlicesApart
  BY <1>1 DEF Init, SlicesApart, ClientInfo, Slice
<1>11. \A s \in Structs : SliceOK(methodOpts[s])
  <2> SUFFICES ASSUME NEW s \in Structs PROVE SliceOK(methodOpts[s])
    OBVIOUS
  <2>1. memory[Shared(s)] = options
    BY <1>1
  <2>2. methodOpts[s] = Slice(Shared(s), Cardinality(used), Len(options))
    BY <1>1
  <2> QED
    BY <1>3, <2>1, <2>2 DEF SliceOK, Slice
<1>12. SliceOK(xGoogHeaders)
  <2>1. memory[Shared("headers")] = [i \in 1 .. ClientInfo.cap |-> IF i = 1 THEN "x-goog" ELSE "free"]
    BY <1>1
  <2>2. Len(memory[Shared("headers")]) = 1
    BY <1>6, <2>1
  <2>3. xGoogHeaders.array = Shared("headers") /\ xGoogHeaders.len = 1 /\ xGoogHeaders.cap = 1
    BY <1>10 DEF SlicesApart, Slice
  <2>4. /\ xGoogHeaders.array \in Arrays
        /\ Len(memory[xGoogHeaders.array]) = 1
    BY <2>2, <2>3
  <2>5. xGoogHeaders.len <= xGoogHeaders.cap /\ xGoogHeaders.cap <= Len(memory[xGoogHeaders.array])
    BY <2>3, <2>4
  <2> QED
    BY <2>4, <2>5 DEF SliceOK
<1>13. \A c \in Callers : SliceOK(opts[c]) /\ SliceOK(hds[c])
  BY <1>5, <1>7, LenProperties DEF Init, SliceOK, Slice
<1> QED
  BY <1>9, <1>10, <1>11, <1>12, <1>13
     DEF MemInv, SlicesWithin, OptionsBuilt, HeadersBuilt, OptionsAreOwn, HeadersAreOwn, Init

(* Slices, memory and what calls have built are left alone by a step that
   completes none of the statements that build them. *)
LEMMA NothingBuilt ==
  ASSUME MemInv,
         UNCHANGED <<transport, memory, methodOpts, field, xGoogHeaders>>,
         UNCHANGED <<opts, hds, settings, metadata>>,
         pc' \in [Callers -> Steps],
         \A c \in Callers :
           \/ pc'[c] = pc[c]
           \/ pc'[c] \notin {"invoke", "metadata", "attempt", "waiting"}
           \/ pc[c] \in {"attempt", "waiting"} /\ pc'[c] \in {"attempt", "waiting"}
  PROVE  MemInv'
<1>1. MemoryTyped' /\ SlicesApart' /\ SlicesWithin'
  BY DEF MemInv, MemoryTyped, SlicesApart, SlicesWithin, SliceOK
<1>2. MethodsOptions' = MethodsOptions /\ Content(xGoogHeaders)' = Content(xGoogHeaders)
  BY DEF MethodsOptions, Content, CallOptions
<1>3. \A c \in Callers : /\ Content(opts[c])' = Content(opts[c])
                         /\ Content(hds[c])' = Content(hds[c])
                         /\ OwnHeaders(c)' = OwnHeaders(c)
  BY DEF Content, OwnHeaders
<1>4. OptionsBuilt'
  BY <1>2, <1>3 DEF MemInv, OptionsBuilt
<1>5. HeadersBuilt'
  BY <1>2, <1>3 DEF MemInv, HeadersBuilt
<1>6. OptionsAreOwn'
  BY <1>2 DEF MemInv, OptionsAreOwn, MethodsOptions
<1>7. HeadersAreOwn'
  BY <1>2, <1>3 DEF MemInv, HeadersAreOwn
<1> QED
  BY <1>1, <1>4, <1>5, <1>6, <1>7 DEF MemInv

(* The actions of this kind. *)
LEMMA MemOther ==
  ASSUME MemInv,
         \/ UNCHANGED vars
         \/ \E m \in Msgs : NewMessage(m) \/ \E c \in Callers : Begin(c, m)
         \/ \E c \in Callers : FillId(c) \/ Attempt(c) \/ Retry(c)
         \/ \E r \in network : ServerTakes(r)
  PROVE  MemInv'
<1> USE DEF clientVars, Steps
<1>0. pc \in [Callers -> Steps] /\ transport \in {"grpc", "rest"}
  BY DEF MemInv, MemoryTyped
<1>1. CASE UNCHANGED vars
  BY <1>0, <1>1, NothingBuilt DEF vars, localVars
<1>2. CASE \E m \in Msgs : NewMessage(m)
  BY <1>0, <1>2, NothingBuilt DEF NewMessage, localVars
<1>3. CASE \E m \in Msgs, c \in Callers : Begin(c, m)
  BY <1>0, <1>3, NothingBuilt, StatementOrder DEF Begin
<1>4. CASE \E c \in Callers : FillId(c)
  BY <1>0, <1>4, NothingBuilt, StatementOrder DEF FillId
<1>5. CASE \E c \in Callers : Attempt(c) \/ Retry(c)
  BY <1>0, <1>5, NothingBuilt DEF Attempt, Retry, localVars
<1>6. CASE \E r \in network : ServerTakes(r)
  BY <1>0, <1>6, NothingBuilt DEF ServerTakes, localVars
<1> QED
  BY <1>1, <1>2, <1>3, <1>4, <1>5, <1>6

(* A new options struct, while no call is in progress. *)
LEMMA MemReplaceOptions == MemInv /\ ReplaceOptions => MemInv'
<1> SUFFICES ASSUME MemInv, ReplaceOptions PROVE MemInv'
  OBVIOUS
<1> USE DEF ReplaceOptions, Quiet, localVars
<1>1. MemoryTyped' /\ SlicesApart' /\ SlicesWithin'
  BY DEF MemInv, MemoryTyped, SlicesApart, SlicesWithin, SliceOK, Structs
<1>2. Content(xGoogHeaders)' = Content(xGoogHeaders) /\ \A c \in Callers : OwnHeaders(c)' = OwnHeaders(c)
  BY DEF Content, OwnHeaders
<1>3. OptionsBuilt' /\ HeadersBuilt' /\ OptionsAreOwn'
  BY DEF OptionsBuilt, HeadersBuilt, OptionsAreOwn
<1>4. HeadersAreOwn'
  BY <1>2 DEF MemInv, HeadersAreOwn
<1> QED
  BY <1>1, <1>3, <1>4 DEF MemInv

(* An option appended to the method's slice, in place or not, touches no other
   array; no call is in progress. *)
LEMMA MemAddOption == MemInv /\ AddOption => MemInv'
<1> SUFFICES ASSUME MemInv, AddOption PROVE MemInv'
  OBVIOUS
<1>1. PICK spare \in {0, 1} :
        /\ methodOpts' = [methodOpts EXCEPT ![field] =
             Appended(@, <<"added">>, Shared(field), spare)]
        /\ memory' = Written(methodOpts[field], <<"added">>, Shared(field), spare)
  BY DEF AddOption
<1>2. /\ UNCHANGED <<transport, field, xGoogHeaders, pc, opts, hds, settings, metadata>>
      /\ \A c \in Callers : pc[c] = "idle"
  BY DEF AddOption, localVars, Quiet
<1> DEFINE s == methodOpts[field]
           xs == <<"added">>
           n == s.len + 1
<1>3. /\ field \in Structs /\ s \in SliceSet /\ s.array = Shared(field) /\ SliceOK(s)
      /\ memory \in [Arrays -> Seq(Cells)]
      /\ Shared(field) \in Arrays
  BY ArraysApart DEF MemInv, MemoryTyped, SlicesApart, SlicesWithin
<1>4. s.len \in Nat /\ s.cap \in Nat /\ s.len <= s.cap /\ s.cap <= Len(memory[Shared(field)])
      /\ memory[Shared(field)] \in Seq(Cells) /\ Len(xs) = 1 /\ xs \in Seq(Cells)
      /\ Len(memory[Shared(field)]) \in Nat
  BY <1>3, LenProperties DEF SliceSet, SliceOK, Cells
<1>5. \E v \in Seq(Cells), t \in SliceSet :
        /\ memory' = [memory EXCEPT ![Shared(field)] = v]
        /\ methodOpts' = [methodOpts EXCEPT ![field] = t]
        /\ t.array = Shared(field) /\ t.len <= t.cap /\ t.cap <= Len(v)
  <2>1. CASE Fits(s, xs)
    <3> DEFINE old == memory[Shared(field)]
               v == [i \in DOMAIN old |-> IF i > s.len /\ i <= s.len + Len(xs)
                                          THEN xs[i - s.len] ELSE old[i]]
    <3>1. v \in Seq(Cells) /\ Len(v) = Len(old)
      <4>1. DOMAIN old = 1 .. Len(old)
        BY <1>4, LenProperties
      <4>2. \A i \in 1 .. Len(old) :
              (IF i > s.len /\ i <= s.len + Len(xs) THEN xs[i - s.len] ELSE old[i]) \in Cells
        <5> SUFFICES ASSUME NEW i \in 1 .. Len(old), i > s.len, i <= s.len + 1
                     PROVE  xs[i - s.len] \in Cells
          BY <1>4, ElementOfSeq
        <5>1. i - s.len = 1
          BY <1>4
        <5> QED
          BY <5>1 DEF Cells
      <4> HIDE DEF s, xs
      <4>3. v = [i \in 1 .. Len(old) |-> IF i > s.len /\ i <= s.len + Len(xs)
                                         THEN xs[i - s.len] ELSE old[i]]
        BY <4>1
      <4> DEFINE w == Len(old)
      <4>4. w \in Nat
        BY <1>4
      <4> HIDE DEF w, old
      <4>5. v \in Seq(Cells) /\ DOMAIN v = 1 .. Len(old)
        BY <4>2, <4>3, <4>4, IsASeq DEF w
      <4> QED
        BY <4>4, <4>5, LenProperties DEF w
    <3>2. memory' = [memory EXCEPT ![Shared(field)] = v]
      BY <1>1, <1>3, <2>1 DEF Written
    <3>3. methodOpts' = [methodOpts EXCEPT ![field] = [s EXCEPT !.len = n]]
      BY <1>1, <1>4, <2>1 DEF Appended
    <3>4. n <= s.cap
      BY <1>4, <2>1 DEF Fits
    <3>5. n \in Nat
      BY <1>4
    <3>6. \A k \in Nat : /\ [s EXCEPT !.len = k] \in SliceSet
                         /\ [s EXCEPT !.len = k].len = k
                         /\ [s EXCEPT !.len = k].array = s.array
                         /\ [s EXCEPT !.len = k].cap = s.cap
      BY <1>3 DEF SliceSet
    <3>7. s.cap <= Len(v)
      BY <1>4, <3>1
    <3> DEFINE t == [s EXCEPT !.len = n]
    <3>8. t \in SliceSet /\ t.array = Shared(field) /\ t.len <= t.cap /\ t.cap <= Len(v)
      BY <1>3, <3>4, <3>5, <3>6, <3>7
    <3> HIDE DEF v, t
    <3> QED
      BY <3>1, <3>2, <3>3, <3>8 DEF t
  <2>2. CASE ~Fits(s, xs)
    <3> DEFINE free == [i \in 1 .. spare |-> "free"]
               v == Content(s) \o xs \o free
               t == Slice(Shared(field), n, n + spare)
    <3>1. free \in Seq(Cells) /\ Len(free) = spare
      BY IsASeq DEF Cells
    <3>2. Content(s) \in Seq(Cells) /\ Len(Content(s)) = s.len
      <4>1. \A i \in 1 .. s.len : memory[Shared(field)][i] \in Cells
        BY <1>4, ElementOfSeq
      <4> QED
        BY <1>3, <1>4, <4>1, SubSeqProperties DEF Content
    <3>3. v \in Seq(Cells) /\ Len(v) = n + spare
      <4>1. Content(s) \o xs \in Seq(Cells) /\ Len(Content(s) \o xs) = n
        BY <1>4, <3>2, ConcatProperties
      <4> QED
        BY <3>1, <4>1, ConcatProperties
    <3>4. memory' = [memory EXCEPT ![Shared(field)] = v]
      BY <1>1, <2>2 DEF Written
    <3>5. methodOpts' = [methodOpts EXCEPT ![field] = t]
      BY <1>1, <1>4, <2>2 DEF Appended
    <3>6. t \in SliceSet /\ t.array = Shared(field) /\ t.len <= t.cap /\ t.cap = n + spare
      BY <1>3, <1>4 DEF SliceSet, Slice
    <3>7. t.cap <= Len(v)
      BY <1>4, <3>3, <3>6
    <3> HIDE DEF v, t
    <3> QED
      BY <3>3, <3>4, <3>5, <3>6, <3>7
  <2> QED
    BY <2>1, <2>2
<1>6. PICK v \in Seq(Cells), t \in SliceSet :
        /\ memory' = [memory EXCEPT ![Shared(field)] = v]
        /\ methodOpts' = [methodOpts EXCEPT ![field] = t]
        /\ t.array = Shared(field) /\ t.len <= t.cap /\ t.cap <= Len(v)
  BY <1>5
<1> HIDE DEF s, xs, n
<1>7. /\ memory' \in [Arrays -> Seq(Cells)]
      /\ methodOpts' \in [Structs -> SliceSet]
      /\ memory'[Shared(field)] = v
      /\ \A a \in Arrays : a # Shared(field) => memory'[a] = memory[a]
  BY <1>3, <1>6 DEF MemInv, MemoryTyped
<1>8. MemoryTyped'
  BY <1>2, <1>7 DEF MemInv, MemoryTyped
<1>9. SlicesApart'
  BY <1>2, <1>6 DEF MemInv, SlicesApart, MemoryTyped
<1>10. SlicesWithin'
  <2>1. \A r \in Structs : SliceOK(methodOpts[r])'
    <3> SUFFICES ASSUME NEW r \in Structs PROVE SliceOK(methodOpts[r])'
      OBVIOUS
    <3>1. CASE r = field
      BY <1>3, <1>6, <1>7, <3>1 DEF SliceOK, MemInv, MemoryTyped
    <3>2. CASE r # field
      BY <1>3, <1>6, <1>7, <3>2, ArraysApart
         DEF SliceOK, MemInv, MemoryTyped, SlicesApart, SlicesWithin
    <3> QED
      BY <3>1, <3>2
  <2>2. SliceOK(xGoogHeaders)'
    BY <1>2, <1>3, <1>7, ArraysApart DEF SliceOK, MemInv, SlicesApart, SlicesWithin, Slice
  <2>3. \A c \in Callers : SliceOK(opts[c])' /\ SliceOK(hds[c])'
    BY <1>2, <1>3, <1>7, ArraysApart DEF SliceOK, MemInv, SlicesApart, SlicesWithin
  <2> QED
    BY <2>1, <2>2, <2>3 DEF SlicesWithin
<1>11. OptionsBuilt' /\ HeadersBuilt' /\ OptionsAreOwn'
  BY <1>2 DEF OptionsBuilt, HeadersBuilt, OptionsAreOwn
<1>12. HeadersAreOwn'
  <2>1. xGoogHeaders.array = Shared("headers")
    BY DEF MemInv, SlicesApart, Slice
  <2>2. Content(xGoogHeaders)' = Content(xGoogHeaders)
    BY <1>2, <1>3, <1>7, <2>1, ArraysApart DEF Content
  <2> QED
    BY <1>2, <2>2 DEF MemInv, HeadersAreOwn, OwnHeaders
<1> QED
  BY <1>8, <1>9, <1>10, <1>11, <1>12 DEF MemInv

(* A write to an array of a call disturbs no slice but the one that has it. *)
LEMMA PrivateWrite ==
  ASSUME MemInv, UNCHANGED clientVars,
         NEW c \in Callers, NEW name \in {"opts", "hds"}, NEW v \in Seq(Cells),
         memory' = [memory EXCEPT ![Own(c, name)] = v]
  PROVE  /\ memory' \in [Arrays -> Seq(Cells)]
         /\ memory'[Own(c, name)] = v
         /\ MethodsOptions' = MethodsOptions
         /\ Content(xGoogHeaders)' = Content(xGoogHeaders)
         /\ \A s \in Structs : SliceOK(methodOpts[s])'
         /\ SliceOK(xGoogHeaders)'
         /\ \A d \in Callers : c # d \/ name # "opts" =>
              memory'[opts[d].array] = memory[opts[d].array]
         /\ \A d \in Callers : c # d \/ name # "hds" =>
              memory'[hds[d].array] = memory[hds[d].array]
         /\ \A d \in Callers : OwnHeaders(d)' = OwnHeaders(d)
<1>1. /\ memory \in [Arrays -> Seq(Cells)]
      /\ Own(c, name) \in Arrays
  BY ArraysApart DEF MemInv, MemoryTyped
<1>2. /\ memory' \in [Arrays -> Seq(Cells)]
      /\ memory'[Own(c, name)] = v
      /\ \A a \in Arrays : a # Own(c, name) => memory'[a] = memory[a]
  BY <1>1
<1>3. /\ \A s \in Structs : memory'[Shared(s)] = memory[Shared(s)]
      /\ memory'[Shared("headers")] = memory[Shared("headers")]
  BY <1>2, ArraysApart
<1>4. /\ \A s \in Structs : methodOpts[s].array = Shared(s)
      /\ xGoogHeaders.array = Shared("headers")
      /\ CallOptions \in Structs
  BY DEF MemInv, SlicesApart, Slice, MemoryTyped, CallOptions, Structs
<1>5. UNCHANGED <<transport, methodOpts, field, xGoogHeaders>>
  BY DEF clientVars
<1>6. /\ MethodsOptions' = MethodsOptions
      /\ Content(xGoogHeaders)' = Content(xGoogHeaders)
  BY <1>3, <1>4, <1>5 DEF MethodsOptions, Content, CallOptions
<1>7. (\A s \in Structs : SliceOK(methodOpts[s])') /\ SliceOK(xGoogHeaders)'
  BY <1>3, <1>4, <1>5 DEF MemInv, SlicesWithin, SliceOK
<1>8. /\ \A d \in Callers : c # d \/ name # "opts" =>
           memory'[opts[d].array] = memory[opts[d].array]
      /\ \A d \in Callers : c # d \/ name # "hds" =>
           memory'[hds[d].array] = memory[hds[d].array]
  BY <1>2, ArraysApart DEF MemInv, SlicesApart
<1>9. \A d \in Callers : OwnHeaders(d)' = OwnHeaders(d)
  BY <1>5 DEF OwnHeaders
<1> QED
  BY <1>2, <1>6, <1>7, <1>8, <1>9

(* hds = append(c.xGoogHeaders, hds...) always copies: the slice literal has
   no capacity to spare. *)
LEMMA MemAppendHeaders ==
  ASSUME MemInv, NEW c \in Callers, AppendHeaders(c)
  PROVE  MemInv'
<1> DEFINE v == Content(xGoogHeaders) \o OwnHeaders(c)
           n == 1 + Len(OwnHeaders(c))
<1>1. /\ xGoogHeaders \in SliceSet /\ SliceOK(xGoogHeaders)
      /\ xGoogHeaders.cap = xGoogHeaders.len /\ xGoogHeaders.len = 1
      /\ memory \in [Arrays -> Seq(Cells)]
      /\ Own(c, "hds") \in Arrays
  BY ArraysApart DEF MemInv, MemoryTyped, SlicesApart, SlicesWithin, Slice, SliceSet
<1>2. OwnHeaders(c) \in Seq(Cells) /\ OwnHeaders(c) # <<>> /\ Len(OwnHeaders(c)) \in Nat
  <2>1. <<c>> \in Seq(Cells) /\ <<c, "json">> \in Seq(Cells)
    BY DEF Cells
  <2>2. /\ Len(<<c>>) = 1 /\ Len(<<c, "json">>) = 2
        /\ <<c>> # <<>> /\ <<c, "json">> # <<>>
    OBVIOUS
  <2> QED
    BY <2>1, <2>2 DEF OwnHeaders
<1>3. /\ v \in Seq(Cells) /\ Len(v) = n
      /\ hds' = [hds EXCEPT ![c] = Slice(Own(c, "hds"), n, n)]
      /\ memory' = [memory EXCEPT ![Own(c, "hds")] = v]
      /\ SubSeq(v, 1, n) = v
  <2>1. /\ v \in Seq(Cells) /\ Len(v) = n
        /\ Appended(xGoogHeaders, OwnHeaders(c), Own(c, "hds"), 0) = Slice(Own(c, "hds"), n, n)
        /\ Written(xGoogHeaders, OwnHeaders(c), Own(c, "hds"), 0)
             = [memory EXCEPT ![Own(c, "hds")] = v]
        /\ SubSeq(v, 1, n) = v
    BY <1>1, <1>2, AppendCopies
  <2> HIDE DEF v, n
  <2> QED
    BY <2>1 DEF AppendHeaders
<1>4. /\ UNCHANGED clientVars /\ UNCHANGED <<opts, settings, metadata>>
      /\ pc[c] = "headers" /\ pc' = [pc EXCEPT ![c] = "metadata"]
      /\ pc \in [Callers -> Steps] /\ transport \in {"grpc", "rest"}
  BY StatementOrder DEF AppendHeaders, MemInv, MemoryTyped
<1>5. n \in Nat
  BY <1>2
<1> HIDE DEF v, n
<1>6. /\ memory' \in [Arrays -> Seq(Cells)]
      /\ memory'[Own(c, "hds")] = v
      /\ MethodsOptions' = MethodsOptions
      /\ Content(xGoogHeaders)' = Content(xGoogHeaders)
      /\ \A s \in Structs : SliceOK(methodOpts[s])'
      /\ SliceOK(xGoogHeaders)'
      /\ \A d \in Callers : memory'[opts[d].array] = memory[opts[d].array]
      /\ \A d \in Callers : c # d => memory'[hds[d].array] = memory[hds[d].array]
      /\ \A d \in Callers : OwnHeaders(d)' = OwnHeaders(d)
  BY <1>3, <1>4, PrivateWrite
<1>7. Slice(Own(c, "hds"), n, n) \in SliceSet
  BY <1>1, <1>5 DEF SliceSet, Slice
<1>8. MemoryTyped'
  BY <1>3, <1>4, <1>7, <1>6 DEF MemInv, MemoryTyped, Steps, clientVars
<1>9. hds' \in [Callers -> SliceSet] /\ hds'[c] = Slice(Own(c, "hds"), n, n)
      /\ \A d \in Callers \ {c} : hds'[d] = hds[d] /\ pc'[d] = pc[d]
  BY <1>3, <1>4, <1>7 DEF MemInv, MemoryTyped
<1>10. SlicesApart'
  BY <1>4, <1>9 DEF MemInv, SlicesApart, clientVars, Slice
<1>11. SlicesWithin'
  <2>1. SliceOK(hds[c])'
    BY <1>1, <1>3, <1>4, <1>9, <1>5, <1>6 DEF SliceOK, Slice
  <2>2. \A d \in Callers \ {c} : SliceOK(hds[d])'
    BY <1>3, <1>4, <1>9, <1>6 DEF SliceOK, MemInv, SlicesWithin
  <2>3. \A d \in Callers : SliceOK(opts[d])'
    BY <1>3, <1>4, <1>6 DEF SliceOK, MemInv, SlicesWithin
  <2> QED
    BY <1>3, <1>4, <2>1, <2>2, <2>3, <1>6 DEF SlicesWithin
<1>12. OptionsBuilt'
  <2> SUFFICES ASSUME NEW d \in Callers, pc'[d] = "invoke"
               PROVE  Content(opts[d])' = Append(MethodsOptions', d)
    BY DEF OptionsBuilt
  <2>1. d # c /\ pc[d] = "invoke"
    BY <1>4, <1>9
  <2>2. Content(opts[d])' = Content(opts[d])
    BY <1>3, <1>4, <1>6 DEF Content
  <2> QED
    BY <1>3, <1>4, <2>1, <2>2, <1>6 DEF MemInv, OptionsBuilt
<1>13. HeadersBuilt'
  <2> SUFFICES ASSUME NEW d \in Callers, pc'[d] = "metadata"
               PROVE  Content(hds[d])' = Content(xGoogHeaders)' \o OwnHeaders(d)'
    BY DEF HeadersBuilt
  <2>1. CASE d = c
    <3>1. hds'[c].array = Own(c, "hds") /\ hds'[c].len = n
      BY <1>9 DEF Slice
    <3>2. Content(hds[c])' = v
      BY <1>3, <1>6, <3>1 DEF Content
    <3> QED
      BY <1>6, <2>1, <3>2 DEF v
  <2>2. CASE d # c
    <3>1. Content(hds[d])' = Content(hds[d]) /\ pc[d] = "metadata"
      BY <1>3, <1>4, <1>9, <2>2, <1>6 DEF Content
    <3> QED
      BY <1>3, <1>4, <3>1, <1>6 DEF MemInv, HeadersBuilt
  <2> QED
    BY <2>1, <2>2
<1>14. OptionsAreOwn'
  <2>1. MethodsOptions' = MethodsOptions
    BY <1>3, <1>4, <1>6
  <2> QED
    BY <1>4, <2>1 DEF MemInv, OptionsAreOwn, MethodsOptions
<1>15. HeadersAreOwn'
  BY <1>3, <1>4, <1>6 DEF MemInv, HeadersAreOwn
<1> QED
  BY <1>8, <1>10, <1>11, <1>12, <1>13, <1>14, <1>15 DEF MemInv

(* appendCallOpts always copies too: the method's options are capped at their
   length, whatever their capacity was. *)
LEMMA MemAppendCallOpts ==
  ASSUME MemInv, NEW c \in Callers, AppendCallOpts(c)
  PROVE  MemInv'
<1> DEFINE s == methodOpts[CallOptions]
           defaults == Defaults(s)
           v == Content(defaults) \o <<c>>
           n == s.len + 1
<1>1. /\ s \in SliceSet /\ SliceOK(s)
      /\ memory \in [Arrays -> Seq(Cells)]
      /\ Own(c, "opts") \in Arrays
  BY ArraysApart DEF MemInv, MemoryTyped, SlicesApart, SlicesWithin, CallOptions, Structs
<1>2. /\ defaults \in SliceSet /\ SliceOK(defaults)
      /\ defaults.cap = defaults.len /\ defaults.len = s.len
      /\ Content(defaults) = MethodsOptions
  <2>1. /\ defaults \in SliceSet /\ defaults.cap = s.len /\ defaults.len = s.len
        /\ defaults.array = s.array
    BY <1>1 DEF SliceSet, Defaults
  <2>2. s.len \in Nat /\ s.cap \in Nat /\ Len(memory[s.array]) \in Nat
    BY <1>1, LenProperties DEF SliceSet
  <2> HIDE DEF defaults, s
  <2>3. SliceOK(defaults)
    BY <1>1, <2>1, <2>2 DEF SliceOK
  <2> QED
    BY <2>1, <2>3 DEF Content, MethodsOptions, s
<1>3. <<c>> \in Seq(Cells) /\ <<c>> # <<>> /\ Len(<<c>>) = 1 /\ s.len \in Nat /\ n \in Nat
  BY <1>1 DEF Cells, SliceSet
<1>4. /\ v \in Seq(Cells) /\ Len(v) = n
      /\ opts' = [opts EXCEPT ![c] = Slice(Own(c, "opts"), n, n)]
      /\ memory' = [memory EXCEPT ![Own(c, "opts")] = v]
      /\ SubSeq(v, 1, n) = v
      /\ v = Append(MethodsOptions, c)
  <2> HIDE DEF defaults
  <2>1. /\ Content(defaults) \in Seq(Cells)
        /\ v \in Seq(Cells) /\ Len(v) = n
        /\ Appended(defaults, <<c>>, Own(c, "opts"), 0) = Slice(Own(c, "opts"), n, n)
        /\ Written(defaults, <<c>>, Own(c, "opts"), 0) = [memory EXCEPT ![Own(c, "opts")] = v]
        /\ SubSeq(v, 1, n) = v
    <3> DEFINE xs == <<c>>
    <3>1. xs \in Seq(Cells) /\ xs # <<>> /\ defaults.len + Len(xs) = n
      BY <1>2, <1>3
    <3> HIDE DEF xs, n
    <3>2. /\ Content(defaults) \in Seq(Cells)
          /\ Content(defaults) \o xs \in Seq(Cells) /\ Len(Content(defaults) \o xs) = n
          /\ Appended(defaults, xs, Own(c, "opts"), 0) = Slice(Own(c, "opts"), n, n)
          /\ Written(defaults, xs, Own(c, "opts"), 0)
               = [memory EXCEPT ![Own(c, "opts")] = Content(defaults) \o xs]
          /\ SubSeq(Content(defaults) \o xs, 1, n) = Content(defaults) \o xs
      BY <1>1, <1>2, <3>1, AppendCopies
    <3> QED
      BY <3>2 DEF xs
  <2>2. v = Append(MethodsOptions, c)
    BY <1>2, <2>1, AppendIsConcat DEF Cells
  <2>3. /\ opts' = [opts EXCEPT ![c] = Appended(defaults, <<c>>, Own(c, "opts"), 0)]
        /\ memory' = Written(defaults, <<c>>, Own(c, "opts"), 0)
    BY DEF AppendCallOpts, defaults
  <2> HIDE DEF v, n
  <2> QED
    BY <2>1, <2>2, <2>3
<1>5. /\ UNCHANGED clientVars /\ UNCHANGED <<hds, settings, metadata>>
      /\ pc[c] = "opts" /\ pc' = [pc EXCEPT ![c] = "invoke"]
      /\ pc \in [Callers -> Steps] /\ transport \in {"grpc", "rest"}
  BY StatementOrder DEF AppendCallOpts, MemInv, MemoryTyped
<1> HIDE DEF s, defaults, v, n
<1>6. /\ memory' \in [Arrays -> Seq(Cells)]
      /\ memory'[Own(c, "opts")] = v
      /\ MethodsOptions' = MethodsOptions
      /\ Content(xGoogHeaders)' = Content(xGoogHeaders)
      /\ \A r \in Structs : SliceOK(methodOpts[r])'
      /\ SliceOK(xGoogHeaders)'
      /\ \A d \in Callers : c # d => memory'[opts[d].array] = memory[opts[d].array]
      /\ \A d \in Callers : memory'[hds[d].array] = memory[hds[d].array]
      /\ \A d \in Callers : OwnHeaders(d)' = OwnHeaders(d)
  BY <1>4, <1>5, PrivateWrite
<1>7. Slice(Own(c, "opts"), n, n) \in SliceSet
  BY <1>1, <1>3 DEF SliceSet, Slice
<1>8. MemoryTyped'
  BY <1>4, <1>5, <1>6, <1>7 DEF MemInv, MemoryTyped, Steps, clientVars
<1>9. opts' \in [Callers -> SliceSet] /\ opts'[c] = Slice(Own(c, "opts"), n, n)
      /\ \A d \in Callers \ {c} : opts'[d] = opts[d] /\ pc'[d] = pc[d]
  BY <1>4, <1>5, <1>7 DEF MemInv, MemoryTyped
<1>10. SlicesApart'
  BY <1>5, <1>9 DEF MemInv, SlicesApart, clientVars, Slice
<1>11. SlicesWithin'
  <2>1. SliceOK(opts[c])'
    BY <1>1, <1>3, <1>4, <1>6, <1>9 DEF SliceOK, Slice
  <2>2. \A d \in Callers \ {c} : SliceOK(opts[d])'
    BY <1>6, <1>9 DEF SliceOK, MemInv, SlicesWithin
  <2>3. \A d \in Callers : SliceOK(hds[d])'
    BY <1>5, <1>6 DEF SliceOK, MemInv, SlicesWithin
  <2> QED
    BY <1>6, <2>1, <2>2, <2>3 DEF SlicesWithin
<1>12. OptionsBuilt'
  <2> SUFFICES ASSUME NEW d \in Callers, pc'[d] = "invoke"
               PROVE  Content(opts[d])' = Append(MethodsOptions', d)
    BY DEF OptionsBuilt
  <2>1. CASE d = c
    <3>1. opts'[c].array = Own(c, "opts") /\ opts'[c].len = n
      BY <1>9 DEF Slice
    <3>2. Content(opts[c])' = v
      BY <1>4, <1>6, <3>1 DEF Content
    <3> QED
      BY <1>4, <1>6, <2>1, <3>2
  <2>2. CASE d # c
    <3>1. Content(opts[d])' = Content(opts[d]) /\ pc[d] = "invoke"
      BY <1>6, <1>9, <2>2 DEF Content
    <3> QED
      BY <1>6, <3>1 DEF MemInv, OptionsBuilt
  <2> QED
    BY <2>1, <2>2
<1>13. HeadersBuilt'
  <2> SUFFICES ASSUME NEW d \in Callers, pc'[d] = "metadata"
               PROVE  Content(hds[d])' = Content(xGoogHeaders)' \o OwnHeaders(d)'
    BY DEF HeadersBuilt
  <2>1. d # c /\ pc[d] = "metadata"
    BY <1>5, <1>9
  <2>2. Content(hds[d])' = Content(hds[d])
    BY <1>5, <1>6 DEF Content
  <2> QED
    BY <1>6, <2>1, <2>2 DEF MemInv, HeadersBuilt
<1>14. OptionsAreOwn'
  BY <1>5, <1>6 DEF MemInv, OptionsAreOwn, MethodsOptions
<1>15. HeadersAreOwn'
  BY <1>5, <1>6 DEF MemInv, HeadersAreOwn
<1> QED
  BY <1>8, <1>10, <1>11, <1>12, <1>13, <1>14, <1>15 DEF MemInv

(* gax.InsertMetadataIntoOutgoingContext, gax.BuildHeaders: a copy of hds. *)
LEMMA MemInsertMetadata ==
  ASSUME MemInv, NEW c \in Callers, InsertMetadata(c)
  PROVE  MemInv'
<1>1. /\ UNCHANGED <<clientVars, memory, opts, hds, settings>>
      /\ metadata' = [metadata EXCEPT ![c] = Content(hds[c])]
      /\ pc[c] = "metadata" /\ pc' = [pc EXCEPT ![c] = After("metadata")]
      /\ pc \in [Callers -> Steps] /\ After("metadata") \in {"ids", "opts"}
      /\ metadata \in [Callers -> Seq(Cells)]
  BY StatementOrder DEF InsertMetadata, MemInv, MemoryTyped
<1>2. Content(hds[c]) \in Seq(Cells)
  <2>1. /\ hds[c] \in SliceSet /\ SliceOK(hds[c]) /\ memory[hds[c].array] \in Seq(Cells)
    BY DEF MemInv, MemoryTyped, SlicesWithin, SliceSet
  <2>2. \A i \in 1 .. hds[c].len : memory[hds[c].array][i] \in Cells
    BY <2>1, ElementOfSeq, LenProperties DEF SliceSet, SliceOK
  <2> QED
    BY <2>1, <2>2, SubSeqProperties DEF Content, SliceSet
<1>3. MemoryTyped' /\ SlicesApart' /\ SlicesWithin'
  BY <1>1, <1>2 DEF MemInv, MemoryTyped, SlicesApart, SlicesWithin, SliceOK, clientVars, Steps
<1>4. /\ MethodsOptions' = MethodsOptions /\ Content(xGoogHeaders)' = Content(xGoogHeaders)
      /\ \A d \in Callers : /\ Content(opts[d])' = Content(opts[d])
                            /\ Content(hds[d])' = Content(hds[d])
                            /\ OwnHeaders(d)' = OwnHeaders(d)
  BY <1>1 DEF MethodsOptions, Content, CallOptions, OwnHeaders, clientVars
<1>5. OptionsBuilt' /\ HeadersBuilt' /\ OptionsAreOwn'
  BY <1>1, <1>4 DEF MemInv, OptionsBuilt, HeadersBuilt, OptionsAreOwn, MethodsOptions
<1>6. HeadersAreOwn'
  <2>1. Content(hds[c]) = Content(xGoogHeaders) \o OwnHeaders(c)
    BY <1>1 DEF MemInv, HeadersBuilt
  <2> QED
    BY <1>1, <1>4, <2>1 DEF MemInv, HeadersAreOwn
<1> QED
  BY <1>3, <1>5, <1>6 DEF MemInv

(* gax.Invoke resolves the options: a copy of opts. *)
LEMMA MemInvoke ==
  ASSUME MemInv, NEW c \in Callers, Invoke(c)
  PROVE  MemInv'
<1>1. /\ UNCHANGED <<clientVars, memory, opts, hds, metadata>>
      /\ settings' = [settings EXCEPT ![c] = Content(opts[c])]
      /\ pc[c] = "invoke" /\ pc' = [pc EXCEPT ![c] = "attempt"]
      /\ pc \in [Callers -> Steps]
      /\ settings \in [Callers -> Seq(Cells)]
  BY StatementOrder DEF Invoke, MemInv, MemoryTyped
<1>2. Content(opts[c]) \in Seq(Cells)
  <2>1. /\ opts[c] \in SliceSet /\ SliceOK(opts[c]) /\ memory[opts[c].array] \in Seq(Cells)
    BY DEF MemInv, MemoryTyped, SlicesWithin, SliceSet
  <2>2. \A i \in 1 .. opts[c].len : memory[opts[c].array][i] \in Cells
    BY <2>1, ElementOfSeq, LenProperties DEF SliceSet, SliceOK
  <2> QED
    BY <2>1, <2>2, SubSeqProperties DEF Content, SliceSet
<1>3. MemoryTyped' /\ SlicesApart' /\ SlicesWithin'
  BY <1>1, <1>2 DEF MemInv, MemoryTyped, SlicesApart, SlicesWithin, SliceOK, clientVars, Steps
<1>4. /\ MethodsOptions' = MethodsOptions /\ Content(xGoogHeaders)' = Content(xGoogHeaders)
      /\ \A d \in Callers : /\ Content(opts[d])' = Content(opts[d])
                            /\ Content(hds[d])' = Content(hds[d])
                            /\ OwnHeaders(d)' = OwnHeaders(d)
  BY <1>1 DEF MethodsOptions, Content, CallOptions, OwnHeaders, clientVars
<1>5. OptionsBuilt' /\ HeadersBuilt' /\ HeadersAreOwn'
  BY <1>1, <1>4 DEF MemInv, OptionsBuilt, HeadersBuilt, HeadersAreOwn
<1>6. OptionsAreOwn'
  <2>1. Content(opts[c]) = Append(MethodsOptions, c)
    BY <1>1 DEF MemInv, OptionsBuilt
  <2> QED
    BY <1>1, <1>4, <2>1 DEF MemInv, OptionsAreOwn, MethodsOptions
<1> QED
  BY <1>3, <1>5, <1>6 DEF MemInv

(* The locals of a call are gone when it returns; nobody else has them. *)
LEMMA MemReturn ==
  ASSUME MemInv, NEW c \in Callers, NEW result, Return(c, result)
  PROVE  MemInv'
<1>1. /\ UNCHANGED clientVars
      /\ memory' = [memory EXCEPT ![Own(c, "opts")] = <<>>, ![Own(c, "hds")] = <<>>]
      /\ opts' = [opts EXCEPT ![c] = Slice(Own(c, "opts"), 0, 0)]
      /\ hds' = [hds EXCEPT ![c] = Slice(Own(c, "hds"), 0, 0)]
      /\ settings' = [settings EXCEPT ![c] = <<>>]
      /\ metadata' = [metadata EXCEPT ![c] = <<>>]
      /\ pc' = [pc EXCEPT ![c] = "idle"]
  BY DEF Return
<1>2. <<>> \in Seq(Cells) /\ Len(<<>>) = 0
  BY EmptySeq
<1>3. /\ Slice(Own(c, "opts"), 0, 0) \in SliceSet
      /\ Slice(Own(c, "hds"), 0, 0) \in SliceSet
  BY ArraysApart DEF SliceSet, Slice
<1>4. MemoryTyped'
  BY <1>1, <1>2, <1>3 DEF MemInv, MemoryTyped, Steps, clientVars
<1>5. SlicesApart'
  BY <1>1 DEF MemInv, SlicesApart, MemoryTyped, clientVars, Slice
<1>6. /\ \A s \in Structs : memory'[methodOpts[s].array] = memory[methodOpts[s].array]
      /\ memory'[xGoogHeaders.array] = memory[xGoogHeaders.array]
      /\ \A d \in Callers \ {c} : /\ memory'[opts[d].array] = memory[opts[d].array]
                                  /\ memory'[hds[d].array] = memory[hds[d].array]
                                  /\ opts'[d] = opts[d] /\ hds'[d] = hds[d]
                                  /\ pc'[d] = pc[d]
  <2>1. \A a \in Arrays \ {Own(c, "opts"), Own(c, "hds")} : memory'[a] = memory[a]
    BY <1>1 DEF MemInv, MemoryTyped
  <2>2. xGoogHeaders.array = Shared("headers")
    BY DEF MemInv, SlicesApart, Slice
  <2> QED
    BY <1>1, <2>1, <2>2, ArraysApart DEF MemInv, MemoryTyped, SlicesApart
<1>7. SlicesWithin'
  <2>1. SliceOK(opts[c])' /\ SliceOK(hds[c])'
    <3>1. /\ opts'[c].array = Own(c, "opts") /\ opts'[c].len = 0 /\ opts'[c].cap = 0
          /\ hds'[c].array = Own(c, "hds") /\ hds'[c].len = 0 /\ hds'[c].cap = 0
      BY <1>1 DEF MemInv, MemoryTyped, Slice
    <3>2. memory'[Own(c, "opts")] = <<>> /\ memory'[Own(c, "hds")] = <<>>
      BY <1>1, ArraysApart DEF MemInv, MemoryTyped
    <3> QED
      BY <1>2, <3>1, <3>2, ArraysApart DEF SliceOK
  <2>2. \A d \in Callers \ {c} : SliceOK(opts[d])' /\ SliceOK(hds[d])'
    BY <1>6 DEF MemInv, SlicesWithin, SliceOK
  <2>3. (\A s \in Structs : SliceOK(methodOpts[s])') /\ SliceOK(xGoogHeaders)'
    BY <1>1, <1>6 DEF MemInv, SlicesWithin, SliceOK, clientVars
  <2> QED
    BY <2>1, <2>2, <2>3 DEF SlicesWithin
<1>8. /\ MethodsOptions' = MethodsOptions /\ Content(xGoogHeaders)' = Content(xGoogHeaders)
      /\ \A d \in Callers : OwnHeaders(d)' = OwnHeaders(d)
  BY <1>1, <1>6 DEF MethodsOptions, Content, CallOptions, OwnHeaders, clientVars, MemInv,
                   MemoryTyped, Structs
<1>9. \A d \in Callers \ {c} : /\ Content(opts[d])' = Content(opts[d])
                               /\ Content(hds[d])' = Content(hds[d])
  BY <1>6 DEF Content
<1>10. pc'[c] = "idle" /\ metadata'[c] = <<>>
       /\ \A d \in Callers \ {c} : settings'[d] = settings[d] /\ metadata'[d] = metadata[d]
  BY <1>1 DEF MemInv, MemoryTyped
<1>11. OptionsBuilt' /\ HeadersBuilt'
  BY <1>6, <1>8, <1>9, <1>10 DEF MemInv, OptionsBuilt, HeadersBuilt
<1>12. OptionsAreOwn' /\ HeadersAreOwn'
  BY <1>6, <1>8, <1>10 DEF MemInv, OptionsAreOwn, HeadersAreOwn, MethodsOptions
<1> QED
  BY <1>4, <1>5, <1>7, <1>11, <1>12 DEF MemInv

-------------------------------------------------------------------------------
(* Memory, slices and what calls have built from them. *)
THEOREM MemoryInvariant == Spec => []MemInv
<1>1. Init => MemInv
  BY MemInit
<1>2. MemInv /\ [Next]_vars => MemInv'
  <2> SUFFICES ASSUME MemInv, [Next]_vars PROVE MemInv'
    OBVIOUS
  <2>1. CASE UNCHANGED vars
    BY <2>1, MemOther
  <2>2. CASE AddOption \/ ReplaceOptions
    BY <2>2, MemAddOption, MemReplaceOptions
  <2>3. CASE \E m \in Msgs : NewMessage(m) \/ \E c \in Callers : Begin(c, m)
    BY <2>3, MemOther
  <2>4. ASSUME NEW c \in Callers, CallSteps(c) PROVE MemInv'
    <3>1. CASE FillId(c) \/ Attempt(c) \/ Retry(c)
      BY <3>1, MemOther
    <3>2. CASE AppendHeaders(c)
      BY <3>2, MemAppendHeaders
    <3>3. CASE InsertMetadata(c)
      BY <3>3, MemInsertMetadata
    <3>4. CASE AppendCallOpts(c)
      BY <3>4, MemAppendCallOpts
    <3>5. CASE Invoke(c)
      BY <3>5, MemInvoke
    <3>6. CASE Answered(c) \/ GiveUp(c)
      BY <3>6, MemReturn DEF Answered, GiveUp
    <3> QED
      BY <2>4, <3>1, <3>2, <3>3, <3>4, <3>5, <3>6 DEF CallSteps
  <2>5. CASE \E r \in network : ServerTakes(r)
    BY <2>5, MemOther
  <2> QED
    BY <2>1, <2>2, <2>3, <2>4, <2>5 DEF Next
<1> QED
  BY <1>1, <1>2, PTL DEF Spec

(* The attempts of a call use the options of the method and the call's own,
   whatever concurrent calls append (appendCallOpts). *)
THEOREM OptionsNeverShared == Spec => []OptionsAreOwn
BY MemoryInvariant, PTL DEF MemInv

(* Nor do calls see each other's headers (setGoogleClientInfo, hds). *)
THEOREM HeadersNeverShared == Spec => []HeadersAreOwn
BY MemoryInvariant, PTL DEF MemInv

-------------------------------------------------------------------------------
(* What was an id before the next one still is when that has moved on. *)
LEMMA OlderIds ==
  \A i, j \in Nat : i <= j => \A k \in 1 .. i - 1 : k \in 1 .. j - 1
OBVIOUS

(* Calls, their messages and ids. *)
LEMMA CallsInit == Init => CallsInv
<1> SUFFICES ASSUME Init PROVE CallsInv
  OBVIOUS
<1> USE DEF Init, NoId
<1>1. MessagesTyped /\ CallsTyped
  BY UnaryAssumption DEF MessagesTyped, CallsTyped, Steps
<1>2. SentTyped /\ IdsFresh /\ SentByCall
  BY DEF SentTyped, IdsFresh, SentByCall
<1>3. InProgress
  BY DEF InProgress, PastIds
<1> QED
  BY <1>1, <1>2, <1>3 DEF CallsInv

(* Steps of the client's owner and of the server leave calls and messages
   alone. *)
LEMMA CallsElsewhere ==
  ASSUME CallsInv,
         UNCHANGED <<transport, messageVars, pc, call, msg, jsonReq, tries, callVars, sent>>
  PROVE  CallsInv'
<1> USE DEF CallsInv, messageVars, callVars
<1>1. MessagesTyped' /\ CallsTyped' /\ SentTyped'
  BY DEF MessagesTyped, CallsTyped, SentTyped
<1>2. IdsFresh' /\ InProgress' /\ SentByCall'
  BY DEF IdsFresh, InProgress, SentByCall, PastIds
<1> QED
  BY <1>1, <1>2

(* A statement that only moves on. *)
LEMMA CallsMoveOn ==
  ASSUME CallsInv, NEW c \in Callers,
         \/ AppendHeaders(c) \/ InsertMetadata(c) \/ AppendCallOpts(c) \/ Invoke(c) \/ Retry(c)
  PROVE  CallsInv'
<1>1. /\ UNCHANGED <<transport, messageVars, call, msg, jsonReq, tries, callVars, sent>>
      /\ pc \in [Callers -> Steps] /\ transport \in {"grpc", "rest"}
  BY DEF AppendHeaders, InsertMetadata, AppendCallOpts, Invoke, Retry, localVars, serverVars,
         CallsInv, CallsTyped, clientVars
<1>2. /\ pc[c] # "idle"
      /\ pc' = [pc EXCEPT ![c] = pc'[c]] /\ pc'[c] \in Steps \ {"idle", "waiting"}
      /\ PastIds(c)' => PastIds(c)
      /\ pc'[c] = "attempt" \/ (pc'[c] # "attempt" /\ pc[c] \notin {"attempt", "waiting"})
      /\ pc'[c] = "attempt" /\ pc[c] \notin {"attempt", "waiting"} => pc[c] = "invoke"
      /\ pc[c] \in {"attempt", "waiting"} => pc'[c] = "attempt"
  BY <1>1, StatementOrder
     DEF AppendHeaders, InsertMetadata, AppendCallOpts, Invoke, Retry, PastIds, Steps
<1>3. \A d \in Callers \ {c} : pc'[d] = pc[d]
  BY <1>1, <1>2
<1>4. MessagesTyped' /\ CallsTyped' /\ SentTyped' /\ IdsFresh'
  BY <1>1, <1>2
     DEF CallsInv, MessagesTyped, CallsTyped, SentTyped, IdsFresh, messageVars, callVars
<1>5. InProgress'
  <2>1. \A d \in Callers : PastIds(d)' => PastIds(d)
    BY <1>1, <1>2, <1>3 DEF PastIds
  <2>2. \A d \in Callers : pc'[d] # "idle" => pc[d] # "idle"
    BY <1>2, <1>3
  <2> QED
    BY <1>1, <2>1, <2>2 DEF CallsInv, InProgress, messageVars, callVars
<1>6. SentByCall'
  BY <1>1, <1>2, <1>3 DEF CallsInv, SentByCall, messageVars
<1> QED
  BY <1>4, <1>5, <1>6 DEF CallsInv

(* A new message gets an id that is new, or none. *)
LEMMA CallsNewMessage ==
  ASSUME CallsInv, NEW m \in Msgs, NewMessage(m)
  PROVE  CallsInv'
<1> USE DEF NoId
<1>1. PICK byUser \in BOOLEAN :
        /\ requests' = [requests EXCEPT ![m] =
             [id |-> IF byUser THEN nextId ELSE NoId, byUser |-> byUser, passed |-> FALSE]]
        /\ nextId' = IF byUser THEN nextId + 1 ELSE nextId
  BY DEF NewMessage
<1>2. /\ UNCHANGED <<transport, pc, call, msg, jsonReq, tries, calls, outcome, sent>>
      /\ \A c \in Callers : pc[c] # "idle" => msg[c] # m
  BY DEF NewMessage, clientVars, localVars, callVars, serverVars
<1>3. MessagesTyped'
  BY <1>1, <1>2 DEF CallsInv, MessagesTyped
<1>4. /\ nextId \in Nat \ {0} /\ nextId' \in Nat /\ nextId' >= nextId
      /\ requests'[m].id < nextId' /\ (requests'[m].id = NoId \/ requests'[m].id = nextId)
      /\ \A n \in Msgs \ {m} : requests'[n] = requests[n]
      /\ \A n \in Msgs : requests[n].id \in Nat
  BY <1>1 DEF CallsInv, MessagesTyped
<1>5. CallsTyped' /\ SentTyped'
  <2>1. \A i \in 1 .. nextId - 1 : i \in 1 .. nextId' - 1
    BY <1>4, OlderIds
  <2> QED
    BY <1>2, <2>1 DEF CallsInv, CallsTyped, SentTyped
<1>6. IdsFresh'
  BY <1>4 DEF CallsInv, IdsFresh
<1>7. InProgress'
  <2>1. \A c \in Callers : PastIds(c)' <=> PastIds(c)
    BY <1>2 DEF PastIds
  <2>2. \A c \in Callers : PastIds(c) => pc[c] # "idle"
    BY DEF PastIds
  <2> QED
    BY <1>2, <1>4, <2>1, <2>2 DEF CallsInv, InProgress
<1>8. SentByCall'
  BY <1>2, <1>4 DEF CallsInv, SentByCall, InProgress
<1> QED
  BY <1>3, <1>5, <1>6, <1>7, <1>8 DEF CallsInv

(* A call begins with a message that no call in progress has. *)
LEMMA CallsBegin ==
  ASSUME CallsInv, NEW m \in Msgs, NEW c \in Callers, Begin(c, m)
  PROVE  CallsInv'
<1>1. /\ calls < MaxCalls /\ calls' = calls + 1 /\ pc[c] = "idle"
      /\ call' = [call EXCEPT ![c] = calls + 1]
      /\ outcome' = [outcome EXCEPT ![calls + 1] = "issued"]
      /\ msg' = [msg EXCEPT ![c] = m]
      /\ requests' = [requests EXCEPT ![m].passed = TRUE]
      /\ pc' = [pc EXCEPT ![c] = Order(transport)[1]]
      /\ \A d \in Callers : pc[d] # "idle" => msg[d] # m
      /\ UNCHANGED <<transport, nextId, jsonReq, tries, sent>>
  BY DEF Begin, clientVars, serverVars
<1>2. /\ calls \in Nat /\ MaxCalls \in Nat /\ calls + 1 \in 1 .. MaxCalls
      /\ pc \in [Callers -> Steps] /\ call \in [Callers -> Nat]
      /\ Order(transport)[1] \in {"headers", "ids"}
      /\ requests \in [Msgs -> [id : Nat, byUser : BOOLEAN, passed : BOOLEAN]]
  BY <1>1, StatementOrder, UnaryAssumption DEF CallsInv, CallsTyped, MessagesTyped
<1>3. /\ \A n \in Msgs : requests'[n].id = requests[n].id
      /\ \A n \in Msgs : requests[n].passed => requests'[n].passed
      /\ requests'[m].passed
      /\ \A d \in Callers \ {c} : pc'[d] = pc[d] /\ call'[d] = call[d]
      /\ pc'[c] \in {"headers", "ids"} /\ call'[c] = calls + 1
  BY <1>1, <1>2
<1>4. MessagesTyped' /\ IdsFresh'
  <2>1. requests' \in [Msgs -> [id : Nat, byUser : BOOLEAN, passed : BOOLEAN]]
    BY <1>1, <1>2
  <2>2. MessagesTyped'
    BY <1>1, <2>1 DEF CallsInv, MessagesTyped
  <2>3. IdsFresh'
    BY <1>1, <1>3 DEF CallsInv, IdsFresh
  <2> QED
    BY <2>2, <2>3
<1>5. CallsTyped'
  BY <1>1, <1>2 DEF CallsInv, CallsTyped, Steps
<1>6. SentTyped'
  BY <1>1, <1>2, <1>3 DEF CallsInv, SentTyped
<1>7. \A r \in sent : r.call \in 1 .. calls
  BY DEF CallsInv, SentTyped
<1>8. InProgress'
  <2> SUFFICES ASSUME NEW d \in Callers
      PROVE  /\ pc'[d] # "idle" =>
                  /\ call'[d] \in 1 .. calls' /\ outcome'[call'[d]] = "issued"
                  /\ msg'[d] \in Msgs /\ requests'[msg'[d]].passed
                  /\ \A e \in Callers \ {d} :
                       pc'[e] # "idle" => call'[e] # call'[d] /\ msg'[e] # msg'[d]
             /\ PastIds(d)' => /\ requests'[msg'[d]].id # NoId
                               /\ transport' = "rest" => jsonReq'[d] = requests'[msg'[d]].id
    BY DEF InProgress
  <2>1. msg'[c] = m /\ \A e \in Callers \ {c} : msg'[e] = msg[e]
    BY <1>1 DEF CallsInv, CallsTyped
  <2>2. \A e \in Callers : pc[e] # "idle" => call[e] \in 1 .. calls /\ msg[e] # m
    BY <1>1 DEF CallsInv, InProgress
  <2>3. /\ \A k \in 1 .. calls : outcome'[k] = outcome[k] /\ k # calls + 1
        /\ outcome'[calls + 1] = "issued"
    BY <1>1, <1>2 DEF CallsInv, CallsTyped
  <2>4. CASE d = c
    <3>1. call'[d] \in 1 .. calls'
      BY <1>1, <1>2, <1>3, <2>4
    <3>2. ~PastIds(d)'
      BY <1>1, <1>2, <2>4, StatementOrder DEF PastIds, CallsInv, CallsTyped
    <3>3. \A e \in Callers \ {d} : pc'[e] # "idle" => call'[e] # call'[d] /\ msg'[e] # msg'[d]
      BY <1>3, <2>1, <2>2, <2>3, <2>4
    <3> QED
      BY <1>3, <2>1, <2>3, <2>4, <3>1, <3>2, <3>3
  <2>5. CASE d # c
    <3>1. pc'[d] = pc[d] /\ call'[d] = call[d] /\ msg'[d] = msg[d]
      BY <1>3, <2>1, <2>5
    <3>2. PastIds(d)' <=> PastIds(d)
      BY <1>1, <3>1 DEF PastIds
    <3>3. PastIds(d) => pc[d] # "idle"
      BY DEF PastIds
    <3>4. pc[d] # "idle" => call'[d] \in 1 .. calls' /\ outcome'[call'[d]] = "issued"
      BY <1>1, <1>2, <2>2, <2>3, <3>1 DEF CallsInv, InProgress
    <3>5. pc[d] # "idle" => msg'[d] \in Msgs /\ requests'[msg'[d]].passed
      BY <1>3, <3>1 DEF CallsInv, InProgress
    <3>6. pc[d] # "idle" => \A e \in Callers \ {d} :
            pc'[e] # "idle" => call'[e] # call'[d] /\ msg'[e] # msg'[d]
      <4> SUFFICES ASSUME pc[d] # "idle", NEW e \in Callers \ {d}, pc'[e] # "idle"
                   PROVE  call'[e] # call'[d] /\ msg'[e] # msg'[d]
        OBVIOUS
      <4>1. CASE e = c
        BY <1>3, <2>1, <2>2, <2>3, <3>1, <4>1
      <4>2. CASE e # c
        BY <1>3, <2>1, <3>1, <4>2 DEF CallsInv, InProgress
      <4> QED
        BY <4>1, <4>2
    <3>7. PastIds(d) => /\ requests'[msg'[d]].id # NoId
                        /\ transport' = "rest" => jsonReq'[d] = requests'[msg'[d]].id
      BY <1>1, <1>3, <3>1, <3>3, <3>5 DEF CallsInv, InProgress
    <3> QED
      BY <3>1, <3>2, <3>4, <3>5, <3>6, <3>7
  <2> QED
    BY <2>4, <2>5
<1>9. SentByCall'
  <2>1. \A e \in Callers \ {c} : msg'[e] = msg[e]
    BY <1>1 DEF CallsInv, CallsTyped
  <2>2. \A r \in sent : r.call # calls + 1
    BY <1>2, <1>7
  <2>3. \A e \in Callers : pc[e] # "idle" => msg[e] \in Msgs
    BY DEF CallsInv, InProgress
  <2> QED
    BY <1>1, <1>3, <2>1, <2>2, <2>3 DEF CallsInv, SentByCall
<1> QED
  BY <1>4, <1>5, <1>6, <1>8, <1>9 DEF CallsInv

(* initializeAutoPopulatedFields gives the message a new id unless it has one;
   the body REST marshals then has the same. *)
LEMMA CallsFillId ==
  ASSUME CallsInv, NEW c \in Callers, FillId(c)
  PROVE  CallsInv'
<1> USE DEF NoId
<1> DEFINE m == msg[c]
<1>1. /\ pc[c] = "ids" /\ pc' = [pc EXCEPT ![c] = After("ids")]
      /\ UNCHANGED <<transport, call, msg, tries, calls, outcome, sent>>
  BY DEF FillId, clientVars, callVars, serverVars
<1>2. /\ m \in Msgs /\ pc \in [Callers -> Steps] /\ transport \in {"grpc", "rest"}
      /\ nextId \in Nat \ {0}
      /\ requests \in [Msgs -> [id : Nat, byUser : BOOLEAN, passed : BOOLEAN]]
      /\ jsonReq \in [Callers -> Nat]
  BY <1>1 DEF CallsInv, CallsTyped, MessagesTyped, InProgress
<1>3. /\ requests' \in [Msgs -> [id : Nat, byUser : BOOLEAN, passed : BOOLEAN]]
      /\ nextId' \in Nat /\ nextId' >= nextId
      /\ \A n \in Msgs \ {m} : requests'[n] = requests[n]
      /\ requests'[m].passed = requests[m].passed
      /\ IF requests[m].id = NoId THEN requests'[m].id = nextId /\ nextId' = nextId + 1
                                  ELSE requests' = requests /\ nextId' = nextId
  <2>1. CASE requests[m].id = NoId
    BY <1>2, <2>1 DEF FillId
  <2>2. CASE requests[m].id # NoId
    BY <1>2, <2>2 DEF FillId, messageVars
  <2> QED
    BY <2>1, <2>2
<1>4. jsonReq' = [jsonReq EXCEPT ![c] = IF transport = "rest" THEN requests'[m].id ELSE NoId]
  BY DEF FillId
<1>5. After("ids") \in {"opts", "headers"}
  BY <1>2, StatementOrder
<1> HIDE DEF m
<1>6. /\ pc' \in [Callers -> Steps] /\ pc'[c] \in {"opts", "headers"}
      /\ \A d \in Callers \ {c} : pc'[d] = pc[d] /\ jsonReq'[d] = jsonReq[d]
      /\ jsonReq' \in [Callers -> Nat]
  BY <1>1, <1>2, <1>3, <1>4, <1>5 DEF Steps
<1>7. MessagesTyped' /\ CallsTyped'
  BY <1>1, <1>2, <1>3, <1>6 DEF CallsInv, MessagesTyped, CallsTyped
<1>8. IdsFresh'
  BY <1>2, <1>3 DEF CallsInv, IdsFresh
<1>9. SentTyped'
  <2>1. \A i \in 1 .. nextId - 1 : i \in 1 .. nextId' - 1
    BY <1>2, <1>3, OlderIds
  <2> QED
    BY <1>1, <2>1 DEF CallsInv, SentTyped
<1>10. \A d \in Callers \ {c} : pc[d] # "idle" => msg[d] \in Msgs \ {m}
  BY <1>1 DEF CallsInv, InProgress, m
<1>11. InProgress'
  <2>1. \A d \in Callers : pc'[d] # "idle" => pc[d] # "idle"
    BY <1>1, <1>6
  <2>2. /\ requests'[m].id # NoId
        /\ transport = "rest" => jsonReq'[c] = requests'[m].id
    BY <1>2, <1>3, <1>4
  <2>3. \A d \in Callers \ {c} : PastIds(d)' <=> PastIds(d)
    BY <1>1, <1>6 DEF PastIds
  <2>4. \A d \in Callers : PastIds(d) => pc[d] # "idle"
    BY DEF PastIds
  <2>5. \A n \in Msgs : requests'[n].passed = requests[n].passed
    BY <1>3
  <2>6. \A d \in Callers \ {c} : PastIds(d)' =>
          /\ requests'[msg[d]].id # NoId
          /\ transport = "rest" => jsonReq'[d] = requests'[msg[d]].id
    BY <1>3, <1>6, <1>10, <2>3, <2>4 DEF CallsInv, InProgress
  <2> QED
    BY <1>1, <2>1, <2>2, <2>5, <2>6 DEF CallsInv, InProgress, m
<1>12. SentByCall'
  BY <1>1, <1>3, <1>6, <1>10 DEF CallsInv, SentByCall
<1> QED
  BY <1>7, <1>8, <1>9, <1>11, <1>12 DEF CallsInv

(* What an attempt of c sends: the id of its message, on both transports. *)
LEMMA BodyIsMessageId ==
  ASSUME CallsInv, NEW c \in Callers, pc[c] \in {"attempt", "waiting"}
  PROVE  Body(c) = requests[msg[c]].id /\ msg[c] \in Msgs /\ Body(c) \in 1 .. nextId - 1
<1>1. PastIds(c) /\ pc[c] # "idle"
  BY DEF PastIds
<1>2. Body(c) = requests[msg[c]].id /\ msg[c] \in Msgs /\ Body(c) # NoId
  BY <1>1 DEF CallsInv, InProgress, Body
<1>3. requests[msg[c]].id \in Nat /\ requests[msg[c]].id < nextId /\ nextId \in Nat
  BY <1>2 DEF CallsInv, MessagesTyped, IdsFresh
<1> QED
  BY <1>2, <1>3 DEF NoId

(* The request an attempt puts on the network. *)
Sending(c) == [call |-> call[c], try |-> tries[c] + 1, id |-> Body(c)]

LEMMA CallsAttempt ==
  ASSUME CallsInv, NEW c \in Callers, Attempt(c)
  PROVE  CallsInv'
<1>1. /\ pc[c] = "attempt" /\ pc' = [pc EXCEPT ![c] = "waiting"]
      /\ sent' = sent \cup {Sending(c)}
      /\ tries' = [tries EXCEPT ![c] = @ + 1]
      /\ UNCHANGED <<transport, requests, nextId, call, msg, jsonReq, calls, outcome>>
  BY DEF Attempt, Sending, clientVars, messageVars, callVars
<1>2. /\ pc \in [Callers -> Steps] /\ tries \in [Callers -> Nat]
      /\ call[c] \in 1 .. calls
  BY <1>1 DEF CallsInv, CallsTyped, InProgress
<1>3. /\ pc'[c] = "waiting" /\ tries'[c] = tries[c] + 1
      /\ \A d \in Callers \ {c} : pc'[d] = pc[d] /\ tries'[d] = tries[d]
  BY <1>1, <1>2
<1>4. MessagesTyped' /\ CallsTyped' /\ IdsFresh'
  BY <1>1, <1>2 DEF CallsInv, MessagesTyped, CallsTyped, IdsFresh, Steps
<1>5. SentTyped'
  BY <1>1, <1>2, BodyIsMessageId DEF CallsInv, SentTyped, Sending
<1>6. InProgress'
  <2>1. \A d \in Callers : PastIds(d)' => PastIds(d)
    BY <1>1, <1>3 DEF PastIds
  <2>2. \A d \in Callers : pc'[d] # "idle" => pc[d] # "idle"
    BY <1>1, <1>3
  <2> QED
    BY <1>1, <2>1, <2>2 DEF CallsInv, InProgress
<1>7. SentByCall'
  <2> SUFFICES ASSUME NEW d \in Callers, NEW r \in sent', pc'[d] # "idle", r.call = call[d]
               PROVE  pc'[d] \in {"attempt", "waiting"} /\ r.id = requests[msg[d]].id
    BY <1>1 DEF SentByCall
  <2>1. CASE r \in sent
    BY <1>1, <1>3, <2>1 DEF CallsInv, SentByCall
  <2>2. CASE r = Sending(c)
    <3>1. r.call = call[c] /\ r.id = requests[msg[c]].id
      BY <1>1, <2>2, BodyIsMessageId DEF Sending
    <3>2. pc[d] # "idle" /\ pc[c] # "idle" /\ call[d] = call[c]
      BY <1>1, <1>3, <3>1
    <3>3. d = c
      BY <3>2 DEF CallsInv, InProgress
    <3> QED
      BY <1>3, <3>1, <3>3
  <2> QED
    BY <1>1, <2>1, <2>2
<1> QED
  BY <1>4, <1>5, <1>6, <1>7 DEF CallsInv

(* A call that has returned is over: no other call has its number. *)
LEMMA CallsReturn ==
  ASSUME CallsInv, NEW c \in Callers, NEW result \in {"ok", "failed"},
         pc[c] = "waiting", Return(c, result)
  PROVE  CallsInv'
<1>1. /\ outcome' = [outcome EXCEPT ![call[c]] = result]
      /\ pc' = [pc EXCEPT ![c] = "idle"]
      /\ call' = [call EXCEPT ![c] = 0]
      /\ jsonReq' = [jsonReq EXCEPT ![c] = NoId]
      /\ tries' = [tries EXCEPT ![c] = 0]
      /\ UNCHANGED <<transport, requests, nextId, msg, calls, sent>>
  BY DEF Return, clientVars, messageVars, serverVars
<1>2. /\ pc \in [Callers -> Steps] /\ tries \in [Callers -> Nat] /\ call \in [Callers -> Nat]
      /\ jsonReq \in [Callers -> Nat] /\ call[c] \in 1 .. calls
      /\ calls \in 0 .. MaxCalls /\ MaxCalls \in Nat
  BY UnaryAssumption DEF CallsInv, CallsTyped, MessagesTyped, InProgress
<1>3. /\ pc'[c] = "idle" /\ tries'[c] = 0
      /\ \A d \in Callers \ {c} : /\ pc'[d] = pc[d] /\ tries'[d] = tries[d]
                                  /\ call'[d] = call[d] /\ jsonReq'[d] = jsonReq[d]
  BY <1>1, <1>2
<1>4. MessagesTyped' /\ IdsFresh'
  BY <1>1, <1>2 DEF CallsInv, MessagesTyped, IdsFresh, NoId
<1>5. CallsTyped'
  <2>1. \A k \in 1 .. MaxCalls : outcome'[k] = "new" <=> k > calls
    BY <1>1, <1>2 DEF CallsInv, CallsTyped
  <2> QED
    BY <1>1, <1>2, <2>1 DEF CallsInv, CallsTyped, Steps
<1>6. SentTyped'
  BY <1>1 DEF CallsInv, SentTyped
<1>7. InProgress'
  <2>1. \A d \in Callers : PastIds(d)' => PastIds(d) /\ d # c
    BY <1>1, <1>3 DEF PastIds
  <2>2. \A d \in Callers : pc'[d] # "idle" => pc[d] # "idle" /\ d # c
    BY <1>3
  <2>3. \A d \in Callers \ {c} : pc[d] # "idle" => outcome'[call[d]] = outcome[call[d]]
    BY <1>1, <1>2 DEF CallsInv, CallsTyped, InProgress
  <2> QED
    BY <1>1, <1>3, <2>1, <2>2, <2>3 DEF CallsInv, InProgress
<1>8. SentByCall'
  BY <1>1, <1>3 DEF CallsInv, SentByCall
<1> QED
  BY <1>4, <1>5, <1>6, <1>7, <1>8 DEF CallsInv

LEMMA CallsStep == CallsInv /\ [Next]_vars => CallsInv'
<1> SUFFICES ASSUME CallsInv, [Next]_vars PROVE CallsInv'
  OBVIOUS
<1>1. CASE UNCHANGED vars
  BY <1>1, CallsElsewhere DEF vars, clientVars, localVars, serverVars
<1>2. CASE AddOption \/ ReplaceOptions \/ \E r \in network : ServerTakes(r)
  BY <1>2, CallsElsewhere
     DEF AddOption, ReplaceOptions, ServerTakes, clientVars, localVars, serverVars
<1>3. CASE \E m \in Msgs : NewMessage(m) \/ \E c \in Callers : Begin(c, m)
  BY <1>3, CallsNewMessage, CallsBegin
<1>4. ASSUME NEW c \in Callers, CallSteps(c) PROVE CallsInv'
  <2>1. CASE AppendHeaders(c) \/ InsertMetadata(c) \/ AppendCallOpts(c) \/ Invoke(c) \/ Retry(c)
    BY <2>1, CallsMoveOn
  <2>2. CASE FillId(c) \/ Attempt(c)
    BY <2>2, CallsFillId, CallsAttempt
  <2>3. CASE Answered(c) \/ GiveUp(c)
    BY <2>3, CallsReturn DEF Answered, GiveUp
  <2> QED
    BY <1>4, <2>1, <2>2, <2>3 DEF CallSteps
<1> QED
  BY <1>1, <1>2, <1>3, <1>4 DEF Next

(* Calls in progress have messages and ids of their own, also when messages
   are passed again. *)
THEOREM CallsInvariant == Spec => []CallsInv
<1> QED
  BY CallsInit, CallsStep, PTL DEF Spec

(* Every slice of the client and of its calls lies within its backing array,
   so that no slice expression of the emitted method panics, and a call in
   progress was issued, has no outcome yet and is one goroutine's. *)
THEOREM TypeCorrect == Spec => []TypeOK
<1>1. MemInv /\ CallsInv => TypeOK
  BY DEF MemInv, SlicesWithin, CallsInv, CallsTyped, InProgress, Steps, TypeOK
<1> QED
  BY <1>1, MemoryInvariant, CallsInvariant, PTL

-------------------------------------------------------------------------------
(* The ids of requests.  A message that is in the hands of a call, or was, is
   not passed to another one, so its id remains that of one call. *)
LEMMA IdsKept ==
  ASSUME CallsInv, IdsInv, UNCHANGED <<requests, sent>>,
         \A c \in Callers : pc'[c] # "idle" => /\ pc[c] # "idle"
                                               /\ msg'[c] = msg[c] /\ call'[c] = call[c]
  PROVE  IdsInv'
BY DEF IdsInv, SentWithMessage, RetriesReuseId

LEMMA IdsNewMessage ==
  ASSUME CallsInv, IdsInv, NEW m \in Msgs, NewMessage(m)
  PROVE  IdsInv'
<1>1. /\ UNCHANGED <<pc, call, msg, sent>>
      /\ \A n \in Msgs \ {m} : requests'[n] = requests[n]
      /\ requests'[m].id \in {nextId, NoId}
  BY DEF NewMessage, localVars, serverVars, CallsInv, MessagesTyped
<1>2. \A r \in sent : r.id # NoId /\ r.id # nextId
  BY DEF CallsInv, SentTyped, MessagesTyped, NoId
<1> QED
  BY <1>1, <1>2 DEF IdsInv, SentWithMessage, RetriesReuseId

LEMMA IdsBegin ==
  ASSUME CallsInv, IdsInv, ~ReuseMessages, NEW m \in Msgs, NEW c \in Callers, Begin(c, m)
  PROVE  IdsInv'
<1>1. /\ ~requests[m].passed
      /\ requests' = [requests EXCEPT ![m].passed = TRUE]
      /\ pc' = [pc EXCEPT ![c] = Order(transport)[1]]
      /\ msg' = [msg EXCEPT ![c] = m]
      /\ call' = [call EXCEPT ![c] = calls + 1]
      /\ UNCHANGED sent
  BY DEF Begin, serverVars
<1>2. /\ \A n \in Msgs : requests'[n].id = requests[n].id
      /\ \A n \in Msgs : requests[n].passed => requests'[n].passed
  BY <1>1 DEF CallsInv, MessagesTyped
<1>3. /\ msg'[c] = m
      /\ \A d \in Callers \ {c} : pc'[d] = pc[d] /\ msg'[d] = msg[d] /\ call'[d] = call[d]
  BY <1>1 DEF CallsInv, CallsTyped
<1>4. \A r \in sent : r.id # requests[m].id
  BY <1>1 DEF IdsInv, SentWithMessage
<1> QED
  BY <1>1, <1>2, <1>3, <1>4 DEF IdsInv, SentWithMessage, RetriesReuseId

LEMMA IdsFillId ==
  ASSUME CallsInv, IdsInv, NEW c \in Callers, FillId(c)
  PROVE  IdsInv'
<1> DEFINE m == msg[c]
<1>1. /\ UNCHANGED <<call, msg, sent>>
      /\ pc[c] = "ids" /\ pc' = [pc EXCEPT ![c] = After("ids")]
      /\ m \in Msgs
  BY DEF FillId, serverVars, CallsInv, InProgress
<1>2. \A d \in Callers : pc'[d] # "idle" => pc[d] # "idle"
  BY <1>1 DEF CallsInv, CallsTyped
<1>3. CASE requests[m].id = NoId
  <2>1. /\ \A n \in Msgs \ {m} : requests'[n] = requests[n]
        /\ requests'[m].id = nextId
    BY <1>1, <1>3 DEF FillId, CallsInv, MessagesTyped
  <2>2. \A r \in sent : r.id # nextId
    BY DEF CallsInv, SentTyped, MessagesTyped
  <2> QED
    BY <1>1, <1>2, <2>1, <2>2 DEF IdsInv, SentWithMessage, RetriesReuseId
<1>4. CASE requests[m].id # NoId
  BY <1>1, <1>2, <1>4, IdsKept DEF FillId, messageVars
<1> QED
  BY <1>3, <1>4

LEMMA IdsAttempt ==
  ASSUME CallsInv, IdsInv, NEW c \in Callers, Attempt(c)
  PROVE  IdsInv'
<1> DEFINE r == Sending(c)
<1>1. /\ pc[c] = "attempt" /\ pc' = [pc EXCEPT ![c] = "waiting"]
      /\ sent' = sent \cup {r}
      /\ UNCHANGED <<requests, call, msg>>
  BY DEF Attempt, Sending, messageVars
<1>2. /\ r.id = requests[msg[c]].id /\ r.call = call[c] /\ r.id # NoId
      /\ msg[c] \in Msgs /\ requests[msg[c]].passed
  BY <1>1, BodyIsMessageId DEF Sending, NoId, CallsInv, InProgress, MessagesTyped
<1> HIDE DEF r
<1>3. \A d \in Callers : pc'[d] # "idle" => pc[d] # "idle"
  BY <1>1 DEF CallsInv, CallsTyped
<1>4. \A q \in sent : q.id = r.id <=> q.call = r.call
  <2> SUFFICES ASSUME NEW q \in sent PROVE q.id = r.id <=> q.call = r.call
    OBVIOUS
  <2>1. q.id = r.id => q.call = r.call
    BY <1>1, <1>2 DEF IdsInv, SentWithMessage
  <2>2. q.call = r.call => q.id = r.id
    BY <1>1, <1>2 DEF CallsInv, SentByCall
  <2> QED
    BY <2>1, <2>2
<1>5. RetriesReuseId'
  BY <1>1, <1>2, <1>4 DEF IdsInv, RetriesReuseId
<1>6. SentWithMessage'
  <2> SUFFICES ASSUME NEW m \in Msgs, NEW q \in sent', q.id = requests[m].id
               PROVE  /\ requests[m].passed
                      /\ \A d \in Callers : pc'[d] # "idle" /\ msg[d] = m => q.call = call[d]
    BY <1>1 DEF SentWithMessage
  <2>1. CASE q \in sent
    BY <1>1, <1>3, <2>1 DEF IdsInv, SentWithMessage
  <2>2. CASE q = r
    <3>1. m = msg[c]
      BY <1>2, <2>2 DEF CallsInv, IdsFresh
    <3>2. \A d \in Callers : pc[d] # "idle" /\ msg[d] = msg[c] => d = c
      BY <1>1 DEF CallsInv, InProgress
    <3> QED
      BY <1>2, <1>3, <2>2, <3>1, <3>2
  <2> QED
    BY <1>1, <2>1, <2>2
<1> QED
  BY <1>5, <1>6 DEF IdsInv

LEMMA IdsStep ==
  ASSUME ~ReuseMessages, CallsInv, IdsInv, [Next]_vars
  PROVE  IdsInv'
<1>1. CASE UNCHANGED vars
  BY <1>1, IdsKept DEF vars, messageVars, localVars, serverVars
<1>2. CASE AddOption \/ ReplaceOptions \/ \E r \in network : ServerTakes(r)
  BY <1>2, IdsKept
     DEF AddOption, ReplaceOptions, ServerTakes, messageVars, localVars, serverVars
<1>3. CASE \E m \in Msgs : NewMessage(m) \/ \E c \in Callers : Begin(c, m)
  BY <1>3, IdsNewMessage, IdsBegin
<1>4. ASSUME NEW c \in Callers, CallSteps(c) PROVE IdsInv'
  <2>1. CASE AppendHeaders(c) \/ InsertMetadata(c) \/ AppendCallOpts(c) \/ Invoke(c) \/ Retry(c)
    <3>1. /\ UNCHANGED <<requests, sent, msg, call>> /\ pc[c] # "idle"
          /\ pc' = [pc EXCEPT ![c] = pc'[c]]
      BY <2>1 DEF AppendHeaders, InsertMetadata, AppendCallOpts, Invoke, Retry,
                  messageVars, localVars, serverVars, CallsInv, CallsTyped
    <3> QED
      BY <3>1, IdsKept DEF CallsInv, CallsTyped
  <2>2. CASE FillId(c) \/ Attempt(c)
    BY <2>2, IdsFillId, IdsAttempt
  <2>3. CASE Answered(c) \/ GiveUp(c)
    <3>1. /\ UNCHANGED <<requests, sent, msg>>
          /\ pc' = [pc EXCEPT ![c] = "idle"]
          /\ call' = [call EXCEPT ![c] = 0]
      BY <2>3 DEF Answered, GiveUp, Return, messageVars, serverVars
    <3> QED
      BY <3>1, IdsKept DEF CallsInv, CallsTyped
  <2> QED
    BY <1>4, <2>1, <2>2, <2>3 DEF CallSteps
<1> QED
  BY <1>1, <1>2, <1>3, <1>4 DEF Next

(* "Values automatically populated this way must be reused for retries of the
   same request": as long as messages are not passed to a second call, all
   attempts of a call carry one id, and no other call's. *)
THEOREM IdsReusedByRetries ==
  ASSUME ~ReuseMessages
  PROVE  Spec => []RetriesReuseId
<1>1. Init => IdsInv
  BY DEF Init, IdsInv, SentWithMessage, RetriesReuseId
<1>2. CallsInv /\ IdsInv /\ [Next]_vars => IdsInv'
  BY IdsStep
<1>3. IdsInv => RetriesReuseId
  BY DEF IdsInv
<1> QED
  BY <1>1, <1>2, <1>3, CallsInvariant, PTL DEF Spec

-------------------------------------------------------------------------------
(* The server.  Of the requests of one call it performs one, because they
   have one id. *)
LEMMA ServerInit == Init => ServerInv
BY DEF Init, ServerInv

LEMMA ServerTakesOne ==
  ASSUME IdsInv, ServerInv, NEW r \in network, ServerTakes(r)
  PROVE  ServerInv'
<1>1. /\ network' = network \ {r} /\ sent' = sent
      /\ effects' = IF r.id # NoId /\ r.id \in {e.id : e \in effects} THEN effects
                    ELSE effects \cup {r}
      /\ answered' = answered \cup {<<r.call, r.try>>}
  BY DEF ServerTakes
<1>2. r \in sent /\ r.id # NoId
  BY DEF ServerInv, IdsInv, RetriesReuseId
<1>3. \E e \in effects' : e.call = r.call
  <2>1. CASE r.id \in {e.id : e \in effects}
    <3>1. PICK e \in effects : e.id = r.id
      BY <2>1
    <3>2. e.call = r.call
      BY <1>2, <3>1 DEF ServerInv, IdsInv, RetriesReuseId
    <3> QED
      BY <1>1, <3>1, <3>2
  <2>2. CASE r.id \notin {e.id : e \in effects}
    BY <1>1, <2>2
  <2> QED
    BY <2>1, <2>2
<1>4. effects \subseteq effects' /\ effects' \subseteq sent' /\ network' \subseteq sent'
  BY <1>1, <1>2 DEF ServerInv
<1>5. \A e, f \in effects' : e.id = f.id => e = f
  BY <1>1, <1>2 DEF ServerInv
<1>6. \A a \in answered' : \E e \in effects' : e.call = a[1]
  <2> SUFFICES ASSUME NEW a \in answered' PROVE \E e \in effects' : e.call = a[1]
    OBVIOUS
  <2>1. CASE a \in answered
    BY <1>4, <2>1 DEF ServerInv
  <2>2. CASE a = <<r.call, r.try>>
    BY <1>3, <2>2
  <2> QED
    BY <1>1, <2>1, <2>2
<1> QED
  BY <1>4, <1>5, <1>6 DEF ServerInv

LEMMA ServerStep ==
  ASSUME IdsInv, ServerInv, [Next]_vars
  PROVE  ServerInv'
<1>1. CASE UNCHANGED vars
  BY <1>1 DEF vars, serverVars, ServerInv
<1>2. CASE \E r \in network : ServerTakes(r)
  BY <1>2, ServerTakesOne
<1>3. CASE \E c \in Callers : Attempt(c)
  BY <1>3 DEF Attempt, ServerInv
<1>4. CASE \/ AddOption \/ ReplaceOptions
           \/ \E m \in Msgs : NewMessage(m) \/ \E c \in Callers : Begin(c, m)
  BY <1>4 DEF AddOption, ReplaceOptions, NewMessage, Begin, serverVars, ServerInv
<1>5. ASSUME NEW c \in Callers, CallSteps(c), ~Attempt(c) PROVE ServerInv'
  BY <1>5 DEF CallSteps, FillId, AppendHeaders, InsertMetadata, AppendCallOpts, Invoke,
              Answered, Retry, GiveUp, Return, serverVars, ServerInv
<1> QED
  BY <1>1, <1>2, <1>3, <1>4, <1>5 DEF Next

(* How often the server performed call k. *)
Effects(k) == {e \in effects : e.call = k}
Performed == [k \in 1 .. MaxCalls |-> Cardinality(Effects(k))]

LEMMA PerformedAtMostOnce ==
  ASSUME IdsInv, ServerInv, NEW k \in 1 .. MaxCalls
  PROVE  /\ Performed[k] = 0 <=> Effects(k) = {}
         /\ Performed[k] = 1 <=> Effects(k) # {}
<1>1. CASE Effects(k) = {}
  BY <1>1, FS_EmptySet DEF Performed
<1>2. CASE Effects(k) # {}
  <2>1. PICK e : e \in Effects(k)
    BY <1>2
  <2>2. \A f \in Effects(k) : f = e
    BY <2>1 DEF Effects, ServerInv, IdsInv, RetriesReuseId
  <2>3. Effects(k) = {e}
    BY <2>1, <2>2
  <2>4. Cardinality(Effects(k)) = 1
    BY <2>3, FS_Singleton
  <2> QED
    BY <1>2, <2>4 DEF Performed
<1> QED
  BY <1>1, <1>2

LEMMA TakesIsPerform ==
  ASSUME CallsInv, IdsInv, ServerInv, NEW r \in network, ServerTakes(r)
  PROVE  \/ UNCHANGED <<outcome, Performed>>
         \/ \E k \in 1 .. MaxCalls : AtMostOnce!Perform(k)
<1>1. UNCHANGED outcome
  BY DEF ServerTakes, callVars
<1>2. CASE effects' = effects
  BY <1>1, <1>2 DEF Performed, Effects
<1>3. CASE effects' # effects
  <2>1. /\ effects' = effects \cup {r}
        /\ \A e \in effects : e.id # r.id
        /\ r \in sent
    BY <1>3 DEF ServerTakes, ServerInv, IdsInv, RetriesReuseId
  <2>2. r.call \in 1 .. calls /\ calls \in 0 .. MaxCalls /\ MaxCalls \in Nat
    BY <2>1, UnaryAssumption DEF CallsInv, SentTyped, CallsTyped
  <2>3. r.call \in 1 .. MaxCalls /\ outcome[r.call] # "new"
    BY <2>2 DEF CallsInv, CallsTyped
  <2>4. Effects(r.call) = {}
    BY <2>1 DEF Effects, ServerInv, IdsInv, RetriesReuseId
  <2>5. Performed[r.call] = 0
    BY <2>3, <2>4, PerformedAtMostOnce
  <2>6. Effects(r.call)' = {r} /\ \A k \in 1 .. MaxCalls : k # r.call => Effects(k)' = Effects(k)
    BY <2>1, <2>4 DEF Effects
  <2>7. Cardinality({r}) = 1
    BY FS_Singleton
  <2>8. Performed' = [Performed EXCEPT ![r.call] = 1]
    BY <2>3, <2>6, <2>7 DEF Performed
  <2> QED
    BY <1>1, <2>3, <2>5, <2>8 DEF AtMostOnce!Perform, Performed, Effects
<1> QED
  BY <1>2, <1>3

LEMMA CallRefines ==
  ASSUME CallsInv, IdsInv, ServerInv, NEW c \in Callers, CallSteps(c)
  PROVE  \/ UNCHANGED <<outcome, Performed>>
         \/ \E k \in 1 .. MaxCalls : AtMostOnce!Succeed(k) \/ AtMostOnce!Fail(k)
<1>1. UNCHANGED effects
  BY DEF CallSteps, FillId, AppendHeaders, InsertMetadata, AppendCallOpts, Invoke,
         Attempt, Answered, Retry, GiveUp, Return, serverVars
<1>2. UNCHANGED Performed
  BY <1>1 DEF Performed, Effects
<1>3. CASE ~(Answered(c) \/ GiveUp(c))
  BY <1>2, <1>3 DEF CallSteps, FillId, AppendHeaders, InsertMetadata, AppendCallOpts, Invoke,
                    Attempt, Retry, callVars
<1>4. ASSUME pc[c] = "waiting"
      PROVE  call[c] \in 1 .. MaxCalls /\ outcome[call[c]] = "issued"
  <2>1. call[c] \in 1 .. calls /\ calls \in 0 .. MaxCalls /\ MaxCalls \in Nat
        /\ outcome[call[c]] = "issued"
    BY <1>4, UnaryAssumption DEF CallsInv, CallsTyped, InProgress
  <2> QED
    BY <2>1
<1>5. CASE Answered(c)
  <2>1. \E e \in effects : e.call = call[c]
    BY <1>5 DEF Answered, ServerInv
  <2>2. call[c] \in 1 .. MaxCalls /\ outcome[call[c]] = "issued"
    BY <1>4, <1>5 DEF Answered
  <2>3. Performed[call[c]] = 1
    BY <2>1, <2>2, PerformedAtMostOnce DEF Effects
  <2>4. outcome' = [outcome EXCEPT ![call[c]] = "ok"]
    BY <1>5 DEF Answered, Return
  <2> QED
    BY <1>2, <2>2, <2>3, <2>4 DEF AtMostOnce!Succeed, Performed, Effects
<1>6. CASE GiveUp(c)
  <2>1. call[c] \in 1 .. MaxCalls /\ outcome[call[c]] = "issued"
    BY <1>4, <1>6 DEF GiveUp
  <2>2. outcome' = [outcome EXCEPT ![call[c]] = "failed"]
    BY <1>6 DEF GiveUp, Return
  <2> QED
    BY <1>2, <2>1, <2>2 DEF AtMostOnce!Fail, Performed, Effects
<1> QED
  BY <1>3, <1>5, <1>6

(* The call path implements AtMostOnceCalls: a call is performed at most once
   and succeeds only if it was performed, although its attempts arrive late,
   are repeated and lose their answers. *)
THEOREM ImplementsAtMostOnce ==
  ASSUME ~ReuseMessages
  PROVE  Spec => PerformsAtMostOnce
<1> DEFINE Inv == CallsInv /\ IdsInv /\ ServerInv
<1>1. Init => Inv
  BY CallsInit, ServerInit DEF Init, IdsInv, SentWithMessage, RetriesReuseId
<1>2. Inv /\ [Next]_vars => Inv'
  BY CallsStep, IdsStep, ServerStep
<1>3. Init => AtMostOnce!Init
  BY FS_EmptySet DEF Init, AtMostOnce!Init
<1>4. Inv /\ [Next]_vars => [AtMostOnce!Next]_<<outcome, Performed>>
  <2> SUFFICES ASSUME Inv, [Next]_vars
               PROVE  \/ UNCHANGED <<outcome, Performed>>
                      \/ AtMostOnce!Next
    OBVIOUS
  <2>1. CASE UNCHANGED vars
    BY <2>1 DEF vars, callVars, serverVars, Performed, Effects
  <2>2. CASE AddOption \/ ReplaceOptions \/ \E m \in Msgs : NewMessage(m)
    BY <2>2 DEF AddOption, ReplaceOptions, NewMessage, callVars, serverVars, Performed, Effects
  <2>3. CASE \E m \in Msgs, c \in Callers : Begin(c, m)
    <3>1. /\ calls < MaxCalls /\ outcome' = [outcome EXCEPT ![calls + 1] = "issued"]
          /\ UNCHANGED Performed
      BY <2>3 DEF Begin, serverVars, Performed, Effects
    <3>2. calls + 1 \in 1 .. MaxCalls /\ outcome[calls + 1] = "new"
      BY <3>1, UnaryAssumption DEF CallsInv, CallsTyped
    <3>3. AtMostOnce!Issue(calls + 1)
      BY <3>1, <3>2 DEF AtMostOnce!Issue, Performed, Effects
    <3> QED
      BY <3>2, <3>3 DEF AtMostOnce!Next
  <2>4. CASE \E c \in Callers : CallSteps(c)
    BY <2>4, CallRefines DEF AtMostOnce!Next
  <2>5. CASE \E r \in network : ServerTakes(r)
    BY <2>5, TakesIsPerform DEF AtMostOnce!Next
  <2> QED
    BY <2>1, <2>2, <2>3, <2>4, <2>5 DEF Next
<1> QED
  BY <1>1, <1>2, <1>3, <1>4, PTL
     DEF Spec, PerformsAtMostOnce, AtMostOnce!Spec, Performed, Effects
=================================================================================
