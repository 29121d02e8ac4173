------------------------- MODULE PagingIteratorProofs -------------------------
(***************************************************************************)
(* Proofs about PagingIterator, for any number of iterators and callers,   *)
(* any list length and any page sizes.                                     *)
(***************************************************************************)
EXTENDS PagingIterator, SequenceTheorems, TLAPS

LEMMA PageProperties ==
  ASSUME NEW off \in 0 .. NItems, NEW n \in 0 .. NItems - off
  PROVE  /\ Page(off, n) \in Seq(1 .. NItems)
         /\ Len(Page(off, n)) = n
         /\ \A i \in 1 .. n : Page(off, n)[i] = off + i
<1>1. /\ NItems \in Nat
      /\ n \in Nat
  BY PagingAssumption
<1>2. Page(off, n) \in [1 .. n -> 1 .. NItems]
  BY <1>1 DEF Page
<1>3. QED
  BY <1>1, <1>2, SeqDef DEF Page

LEMMA FetchTypes ==
  ASSUME NEW size \in Int, NEW old \in Int,
         NEW tok \in -1 .. NItems, NEW oldTok \in -1 .. NItems
  PROVE  /\ FetchSize(size, old) \in Int
         /\ FetchToken(tok, oldTok) \in -1 .. NItems
<1>1. MaxInt32 \in Nat \ {0} /\ NItems \in Nat
  BY PagingAssumption
<1>2. ToField(size) \in Int
  BY <1>1 DEF ToField
<1>3. QED
  BY <1>1, <1>2 DEF FetchSize, FetchToken, NoToken

LEMMA NoMessageType == NoMessage \in MessageRecord
BY PagingAssumption DEF NoMessage, NoToken, MessageRecord

(* What a fetch writes into its message, and sends, is a message. *)
LEMMA InternalFetchTypes ==
  ASSUME ClosureTypes, NEW it \in Iters, NEW size \in Int, NEW tok \in -1 .. NItems,
         InternalFetch(it, size, tok), req' = req
  PROVE  ClosureTypes'
<1> DEFINE q == heap[req[it]]
           m == [token |-> FetchToken(tok, q.token), size |-> FetchSize(size, q.size)]
<1>1. q \in MessageRecord
  BY DEF ClosureTypes
<1>2. m \in MessageRecord
  BY <1>1, FetchTypes DEF MessageRecord
<1>3. /\ heap' = [heap EXCEPT ![req[it]] = m]
      /\ wire' = [wire EXCEPT ![it] = m]
      /\ asked' = [asked EXCEPT ![it] = size]
  BY DEF InternalFetch
<1> HIDE DEF m
<1>4. QED
  BY <1>2, <1>3 DEF ClosureTypes

(* The page of a fetch is a part of the list. *)
LEMMA ReceivedPage ==
  ASSUME TypeOK, NEW it \in Iters, NEW n \in 0 .. NItems, NEW next \in -1 .. NItems,
         Received(it, n, next)
  PROVE  /\ Offset(Sent(it).token) \in 0 .. NItems
         /\ n \in 0 .. NItems - Offset(Sent(it).token)
         /\ Page(Offset(Sent(it).token), n) \in Seq(1 .. NItems)
<1>1. NItems \in Nat
  BY PagingAssumption
<1>2. Sent(it) \in MessageRecord
  BY DEF Sent, TypeOK, ClosureTypes
<1>3. Offset(Sent(it).token) \in 0 .. NItems
  BY <1>1, <1>2 DEF Offset, NoToken, MessageRecord
<1>4. n \in 0 .. NItems - Offset(Sent(it).token)
  BY DEF Received, ServerMayAnswer
<1>5. QED
  BY <1>3, <1>4, PageProperties

-------------------------------------------------------------------------------
(* The state keeps its shape: no fetch, however it interleaves with the
   owner's and the caller's steps, leaves a token outside the list or an item
   that the server does not have in a buffer. *)
THEOREM TypeCorrect == Spec => []TypeOK
<1> USE PagingAssumption
<1>1. Init => TypeOK
  BY DEF Init, TypeOK, ClosureTypes, IterTypes, PageInfoTypes, HistoryTypes,
         Messages, MessageRecord, NoMessage, NoToken
<1>2. TypeOK /\ [Next]_vars => TypeOK'
  <2> SUFFICES ASSUME TypeOK, [Next]_vars
               PROVE  TypeOK'
    OBVIOUS
  <2> USE DEF TypeOK
  <2>1. ASSUME NEW r \in Reqs, EditRequest(r)
        PROVE  TypeOK'
    <3>1. ClosureTypes'
      BY <2>1 DEF EditRequest, ClosureTypes, Messages, MessageRecord, NoToken
    <3>2. QED
      BY <2>1, <3>1 DEF EditRequest, iterVars, pageInfoVars, historyVars, boundVars,
                        IterTypes, PageInfoTypes, HistoryTypes
  <2>2. ASSUME NEW r \in Reqs, NEW it \in Iters, Call(it, r)
        PROVE  TypeOK'
    <3>1. heap[r] \in MessageRecord
      BY DEF ClosureTypes, Messages
    <3>2. ClosureTypes'
      BY <2>2, <3>1 DEF Call, CapturedReq, ClosureTypes, Messages
    <3>3. PageInfoTypes'
      BY <2>2, <3>1 DEF Call, PageInfoTypes, MessageRecord
    <3>4. HistoryTypes'
      BY <2>2, <3>1 DEF Call, HistoryTypes, MessageRecord, Offset, NoToken
    <3>5. QED
      BY <2>2, <3>2, <3>3, <3>4 DEF Call, iterVars, boundVars, IterTypes
  <2>3. ASSUME NEW it \in Iters, SetPageInfo(it)
        PROVE  TypeOK'
    <3>1. heap[req[it]] \in MessageRecord
      BY DEF ClosureTypes
    <3>2. PICK tok \in Tokens \cup {NoToken}, size \in AskSizes :
            /\ token' = [token EXCEPT ![it] = tok]
            /\ maxSize' = [maxSize EXCEPT ![it] = size]
            /\ wanted' = [wanted EXCEPT ![it] =
                 IF tok # NoToken THEN tok ELSE Offset(heap[req[it]].token)]
      BY <2>3 DEF SetPageInfo
    <3>3. size \in Int /\ tok \in -1 .. NItems
      BY DEF NoToken
    <3>4. PageInfoTypes'
      BY <2>3, <3>2, <3>3 DEF SetPageInfo, PageInfoTypes
    <3>5. HistoryTypes'
      BY <2>3, <3>1, <3>2, <3>3 DEF SetPageInfo, HistoryTypes, MessageRecord, Offset, NoToken
    <3>6. QED
      BY <2>3, <3>4, <3>5 DEF SetPageInfo, closureVars, iterVars, boundVars,
                              ClosureTypes, IterTypes
  <2>4. ASSUME NEW it \in Iters, Probe(it)
        PROVE  TypeOK'
    <3>1. PICK size \in AskSizes, tok \in Tokens \cup {NoToken} : InternalFetch(it, size, tok)
      BY <2>4 DEF Probe
    <3>2. size \in Int /\ tok \in -1 .. NItems
      BY DEF NoToken
    <3>3. ClosureTypes'
      BY <2>4, <3>1, <3>2, InternalFetchTypes DEF Probe
    <3>4. HistoryTypes'
      BY <2>4 DEF Probe, HistoryTypes
    <3>5. QED
      BY <2>4, <3>3, <3>4 DEF Probe, iterVars, pageInfoVars, IterTypes, PageInfoTypes
  <2>5. ASSUME NEW it \in Iters, FetchNextPage(it)
        PROVE  TypeOK'
    <3>1. maxSize[it] \in Int /\ token[it] \in -1 .. NItems
      BY DEF PageInfoTypes
    <3>2. ClosureTypes'
      BY <2>5, <3>1, InternalFetchTypes DEF FetchNextPage
    <3>3. heap[req[it]].token \in -1 .. NItems
      BY DEF ClosureTypes, MessageRecord
    <3>4. Offset(FetchToken(token[it], heap[req[it]].token)) \in -1 .. NItems
      BY <3>1, <3>3 DEF Offset, FetchToken, NoToken
    <3>5. HistoryTypes'
      BY <2>5, <3>4 DEF FetchNextPage, HistoryTypes
    <3>6. QED
      BY <2>5, <3>2, <3>5 DEF FetchNextPage, iterVars, pageInfoVars, boundVars,
                              IterTypes, PageInfoTypes
  <2>6. ASSUME NEW it \in Iters, FetchSucceeds(it)
        PROVE  TypeOK'
    <3>1. PICK n \in 0 .. NItems, next \in -1 .. NItems : Received(it, n, next)
      BY <2>6 DEF FetchSucceeds
    <3>2. Page(Offset(Sent(it).token), n) \in Seq(1 .. NItems)
      BY <3>1, ReceivedPage
    <3>3. IterTypes'
      <4>1. BufferedPage(it, n, By(it)) \in Seq(1 .. NItems)
        BY <3>2, EmptySeq DEF BufferedPage
      <4>2. items' \in [Iters -> Seq(1 .. NItems)]
        <5>1. items[it] \o BufferedPage(it, n, By(it)) \in Seq(1 .. NItems)
          BY <4>1 DEF IterTypes
        <5>2. QED
          BY <3>1, <5>1 DEF Received, IterTypes
      <4>3. ResponseOf(it, n, By(it)) \in [page : Seq(1 .. NItems), by : {"none", "next", "probe"}]
        BY <3>2 DEF ResponseOf, By
      <4>4. response' \in [Iters -> [page : Seq(1 .. NItems), by : {"none", "next", "probe"}]]
        BY <3>1, <4>3 DEF Received, IterTypes
      <4>5. QED
        BY <4>2, <4>4 DEF IterTypes
    <3>4. PageInfoTypes'
      <4>1. token' \in [Iters -> -1 .. NItems]
        BY <3>1 DEF Received, PageInfoTypes, ReturnedToken
      <4>2. atEnd' \in [Iters -> BOOLEAN]
        BY <3>1 DEF Received, PageInfoTypes
      <4>3. QED
        BY <2>6, <4>1, <4>2 DEF FetchSucceeds, PageInfoTypes
    <3>5. ClosureTypes'
      BY <2>6, NoMessageType DEF FetchSucceeds, EndFetch, ClosureTypes
    <3>6. pc' \in [Iters -> {"none", "idle", "next", "fetching", "probing"}]
      BY <3>1 DEF Received
    <3>7. empties' \in Nat
      BY <3>1 DEF Received
    <3>8. QED
      BY <2>6, <3>3, <3>4, <3>5, <3>6, <3>7 DEF FetchSucceeds, historyVars, HistoryTypes
  <2>7. ASSUME NEW it \in Iters, FetchFails(it)
        PROVE  TypeOK'
    <3>1. ClosureTypes'
      BY <2>7, NoMessageType DEF FetchFails, EndFetch, ClosureTypes
    <3>2. IterTypes'
      <4>1. \/ items' = [items EXCEPT ![it] = <<>>]
            \/ items' = items
        BY <2>7 DEF FetchFails
      <4>2. <<>> \in Seq(1 .. NItems)
        BY EmptySeq
      <4>3. items' \in [Iters -> Seq(1 .. NItems)]
        BY <4>1, <4>2 DEF IterTypes
      <4>4. QED
        BY <2>7, <4>3 DEF FetchFails, IterTypes
    <3>3. PageInfoTypes'
      BY <2>7 DEF FetchFails, PageInfoTypes
    <3>4. QED
      BY <2>7, <3>1, <3>2, <3>3 DEF FetchFails, historyVars, boundVars, HistoryTypes
  <2>8. ASSUME NEW it \in Iters, CallNext(it)
        PROVE  TypeOK'
    BY <2>8 DEF CallNext, closureVars, iterVars, pageInfoVars, historyVars, boundVars,
                ClosureTypes, IterTypes, PageInfoTypes, HistoryTypes
  <2>9. ASSUME NEW it \in Iters, NextReturnsItem(it)
        PROVE  TypeOK'
    <3>1. Head(items[it]) \in 1 .. NItems /\ Tail(items[it]) \in Seq(1 .. NItems)
      BY <2>9, HeadTailProperties DEF NextReturnsItem, IterTypes
    <3>2. IterTypes'
      BY <2>9, <3>1 DEF NextReturnsItem, IterTypes
    <3>3. Append(seen[it], Head(items[it])) \in Seq(1 .. NItems)
      BY <3>1 DEF HistoryTypes
    <3>4. HistoryTypes'
      BY <2>9, <3>3 DEF NextReturnsItem, HistoryTypes
    <3>5. QED
      BY <2>9, <3>2, <3>4 DEF NextReturnsItem, closureVars, pageInfoVars, boundVars,
                              ClosureTypes, PageInfoTypes
  <2>10. ASSUME NEW it \in Iters, NextReturnsDone(it)
         PROVE  TypeOK'
    BY <2>10 DEF NextReturnsDone, closureVars, iterVars, historyVars, boundVars,
                 ClosureTypes, IterTypes, PageInfoTypes, HistoryTypes
  <2>11. CASE UNCHANGED vars
    BY <2>11 DEF vars, closureVars, iterVars, pageInfoVars, historyVars, boundVars,
                 ClosureTypes, IterTypes, PageInfoTypes, HistoryTypes
  <2>12. QED
    BY <2>1, <2>2, <2>3, <2>4, <2>5, <2>6, <2>7, <2>8, <2>9, <2>10, <2>11
    DEF Next, Iterate, Answer
<1>3. QED
  BY <1>1, <1>2, PTL DEF Spec

-------------------------------------------------------------------------------
(* The inductive invariant. *)

(* A step that leaves the view of an iterator alone keeps its invariant.  The
   view includes one message of the heap: the iterator's own clone. *)
LEMMA ViewKept ==
  ASSUME NEW j \in Iters, IteratorInv(j),
         pc'[j] = pc[j], heap'[j] = heap[j], req'[j] = req[j], wire'[j] = wire[j],
         items'[j] = items[j], token'[j] = token[j], atEnd'[j] = atEnd[j],
         err'[j] = err[j], seen'[j] = seen[j], start'[j] = start[j],
         wanted'[j] = wanted[j]
  PROVE  IteratorInv(j)'
BY DEF IteratorInv, Untouched, Stitched, InFlight, Synchronised, Ended, Pos

(* Between steps the message an iterator works on is its clone. *)
LEMMA OwnMessage ==
  ASSUME TypeOK, NEW it \in Iters, IteratorInv(it)
  PROVE  /\ req[it] = it
         /\ heap[it] \in MessageRecord
         /\ pc[it] = "fetching" => Offset(Sent(it).token) = Pos(it)
BY DEF IteratorInv, InFlight, Sent, TypeOK, ClosureTypes, Messages

(* Typing of one iterator, for arithmetic and sequence reasoning. *)
LEMMA IteratorTypes ==
  ASSUME TypeOK, NEW it \in Iters
  PROVE  /\ items[it] \in Seq(1 .. NItems) /\ Len(items[it]) \in Nat
         /\ seen[it] \in Seq(1 .. NItems) /\ Len(seen[it]) \in Nat
         /\ token[it] \in -1 .. NItems
         /\ start[it] \in -1 .. NItems
         /\ wanted[it] \in -1 .. NItems
         /\ atEnd[it] \in BOOLEAN
         /\ NItems \in Nat
BY PagingAssumption, LenProperties DEF TypeOK, IterTypes, PageInfoTypes, HistoryTypes

LEMMA CallKeeps ==
  ASSUME IInv, NEW r \in Reqs, NEW it \in Iters, Call(it, r)
  PROVE  \A j \in Iters : IteratorInv(j)'
<1> USE DEF IInv
<1>1. IteratorInv(it)'
  <2>1. /\ pc[it] = "none" /\ start[it] = -1 /\ seen[it] = <<>> /\ items[it] = <<>>
        /\ ~atEnd[it] /\ err[it] = "none"
    BY DEF Call, IteratorInv, Untouched
  <2>2. /\ pc'[it] = "idle" /\ req'[it] = it /\ heap'[it] = heap[r]
        /\ token'[it] = heap[r].token /\ wanted'[it] = Offset(heap[r].token)
    BY DEF Call, CapturedReq, TypeOK, ClosureTypes, PageInfoTypes, HistoryTypes, Messages
  <2>3. /\ start'[it] = -1 /\ seen'[it] = <<>> /\ items'[it] = <<>>
        /\ ~atEnd'[it] /\ err'[it] = "none"
    BY <2>1 DEF Call, iterVars
  <2>4. Untouched(it)'
    BY <2>2, <2>3 DEF Untouched, FetchToken
  <2>5. QED
    BY <2>2, <2>3, <2>4 DEF IteratorInv, Stitched, InFlight, Synchronised, Ended
<1>2. ASSUME NEW j \in Iters, j # it
      PROVE  IteratorInv(j)'
  <2>1. /\ pc'[j] = pc[j] /\ req'[j] = req[j] /\ token'[j] = token[j]
        /\ wanted'[j] = wanted[j]
    BY <1>2 DEF Call, TypeOK, ClosureTypes, PageInfoTypes, HistoryTypes
  <2>2. heap'[j] = heap[j]
    BY <1>2 DEF Call, CapturedReq, TypeOK, ClosureTypes, Messages
  <2>3. QED
    BY <2>1, <2>2, ViewKept DEF Call, iterVars
<1>3. QED
  BY <1>1, <1>2

LEMMA EditRequestKeeps ==
  ASSUME IInv, NEW r \in Reqs, EditRequest(r)
  PROVE  \A j \in Iters : IteratorInv(j)'
<1> SUFFICES ASSUME NEW j \in Iters
             PROVE  IteratorInv(j)'
  OBVIOUS
<1>1. heap'[j] = heap[j]
  BY PagingAssumption DEF EditRequest, IInv, TypeOK, ClosureTypes, Messages
<1>2. QED
  BY <1>1, ViewKept DEF IInv, EditRequest, iterVars, pageInfoVars, historyVars

LEMMA SetPageInfoKeeps ==
  ASSUME IInv, NEW it \in Iters, SetPageInfo(it)
  PROVE  \A j \in Iters : IteratorInv(j)'
<1> USE DEF IInv
<1>1. IteratorInv(it)'
  <2>1. PICK tok \in Tokens \cup {NoToken} :
          /\ token' = [token EXCEPT ![it] = tok]
          /\ wanted' = [wanted EXCEPT ![it] =
               IF tok # NoToken THEN tok ELSE Offset(heap[req[it]].token)]
    BY DEF SetPageInfo
  <2>2. /\ token'[it] = tok
        /\ wanted'[it] = IF tok # NoToken THEN tok ELSE Offset(heap[it].token)
    BY <2>1, OwnMessage DEF TypeOK, PageInfoTypes, HistoryTypes
  <2>3. wanted'[it] = Offset(FetchToken(token'[it], heap[it].token))
    BY <2>2 DEF Offset, FetchToken
  <2>4. /\ pc[it] = "idle" /\ pc' = pc /\ start[it] = -1 /\ start' = start
        /\ seen' = seen /\ items' = items /\ atEnd' = atEnd /\ err' = err
        /\ heap' = heap /\ req' = req /\ wire' = wire
    BY DEF SetPageInfo, closureVars, iterVars
  <2>5. Untouched(it)'
    BY <2>3, <2>4 DEF IteratorInv, Untouched
  <2>6. Stitched(it)'
    BY <2>4 DEF IteratorInv, Stitched, Pos
  <2>7. QED
    BY <2>4, <2>5, <2>6 DEF IteratorInv, InFlight, Synchronised, Ended, Untouched
<1>2. ASSUME NEW j \in Iters, j # it
      PROVE  IteratorInv(j)'
  <2>1. token'[j] = token[j] /\ wanted'[j] = wanted[j]
    BY <1>2 DEF SetPageInfo, TypeOK, PageInfoTypes, HistoryTypes
  <2>2. QED
    BY <2>1, ViewKept DEF SetPageInfo, closureVars, iterVars
<1>3. QED
  BY <1>1, <1>2

LEMMA ProbeKeeps ==
  ASSUME IInv, NEW it \in Iters, Probe(it)
  PROVE  \A j \in Iters : IteratorInv(j)'
<1> USE DEF IInv
<1>1. PICK size \in AskSizes, tok \in Tokens \cup {NoToken} : InternalFetch(it, size, tok)
  BY DEF Probe
<1>2. IteratorInv(it)'
  <2>1. /\ pc[it] = "idle" /\ pc'[it] = "probing"
        /\ wanted'[it] = IF start[it] = -1 THEN -1 ELSE wanted[it]
    BY DEF Probe, TypeOK, HistoryTypes
  <2>2. /\ req' = req /\ items' = items /\ token' = token /\ atEnd' = atEnd
        /\ err' = err /\ seen' = seen /\ start' = start
    BY DEF Probe, iterVars, pageInfoVars
  <2>3. Untouched(it)' /\ Stitched(it)' /\ InFlight(it)'
    BY <2>1, <2>2 DEF IteratorInv, Untouched, Stitched, InFlight, Pos
  <2>4. Synchronised(it)' /\ Ended(it)'
    BY <2>1, <2>2 DEF IteratorInv, Synchronised, Ended, Pos
  <2>5. QED
    BY <2>1, <2>2, <2>3, <2>4 DEF IteratorInv
<1>3. ASSUME NEW j \in Iters, j # it
      PROVE  IteratorInv(j)'
  <2>1. /\ pc'[j] = pc[j] /\ wanted'[j] = wanted[j]
    BY <1>3 DEF Probe, TypeOK, HistoryTypes
  <2>2. heap'[j] = heap[j] /\ wire'[j] = wire[j]
    BY <1>1, <1>3, OwnMessage DEF InternalFetch, TypeOK, ClosureTypes, Messages
  <2>3. QED
    BY <2>1, <2>2, ViewKept DEF Probe, iterVars, pageInfoVars
<1>4. QED
  BY <1>2, <1>3

LEMMA FetchNextPageKeeps ==
  ASSUME IInv, NEW it \in Iters, FetchNextPage(it)
  PROVE  \A j \in Iters : IteratorInv(j)'
<1> USE DEF IInv
<1>1. InternalFetch(it, maxSize[it], token[it])
  BY DEF FetchNextPage
<1>2. IteratorInv(it)'
  <2> DEFINE sent == FetchToken(token[it], heap[it].token)
  <2>1. /\ pc[it] = "next" /\ pc'[it] = "fetching" /\ items[it] = <<>> /\ ~atEnd[it]
        /\ start'[it] = IF start[it] = -1 THEN Offset(sent) ELSE start[it]
    BY OwnMessage DEF FetchNextPage, TypeOK, HistoryTypes
  <2>2. /\ req' = req /\ items' = items /\ token' = token /\ atEnd' = atEnd
        /\ err' = err /\ seen' = seen /\ wanted' = wanted
    BY DEF FetchNextPage, iterVars, pageInfoVars
  <2>3. wire'[it].token = sent /\ heap'[it].token = sent
    BY <1>1, OwnMessage DEF InternalFetch, TypeOK, ClosureTypes, Messages
  <2>4. err[it] = "none"
    BY <2>1 DEF IteratorInv, Ended
  <2>5. Offset(sent) \in 0 .. NItems
    BY IteratorTypes, OwnMessage DEF MessageRecord, FetchToken, Offset, NoToken
  <2>6. Pos(it)' = Offset(sent)
    <3>1. CASE start[it] = -1
      <4>1. seen[it] = <<>> /\ Len(seen[it]) = 0
        BY <3>1, EmptySeq DEF IteratorInv, Untouched
      <4>2. QED
        BY <2>1, <2>2, <2>5, <3>1, <4>1 DEF Pos
    <3>2. CASE start[it] # -1
      <4>1. token[it] # NoToken /\ token[it] = Pos(it) + Len(items[it])
        BY <2>1, <2>4, <3>2 DEF IteratorInv, Synchronised
      <4>2. Len(items[it]) = 0 /\ Pos(it) \in Int
        BY <2>1, IteratorTypes, EmptySeq DEF Pos
      <4>3. Offset(sent) = Pos(it)
        BY <4>1, <4>2 DEF FetchToken, Offset
      <4>4. QED
        BY <2>1, <2>2, <3>2, <4>3 DEF Pos
    <3>3. QED
      BY <3>1, <3>2
  <2>7. start'[it] # -1
    BY <2>1, <2>5, IteratorTypes
  <2>8. InFlight(it)'
    BY <2>1, <2>2, <2>3, <2>4, <2>6 DEF InFlight
  <2>9. Stitched(it)'
    <3>1. CASE start[it] = -1
      <4>1. seen'[it] = <<>> /\ Len(seen'[it]) = 0 /\ Len(items'[it]) = 0
        BY <2>1, <2>2, <3>1, EmptySeq DEF IteratorInv, Untouched
      <4>2. QED
        BY <4>1 DEF Stitched
    <3>2. CASE start[it] # -1
      BY <2>1, <2>2, <3>2 DEF IteratorInv, Stitched, Pos
    <3>3. QED
      BY <3>1, <3>2
  <2>10. Ended(it)'
    <3>1. start[it] = -1 /\ wanted[it] # -1 => start'[it] = wanted[it]
      BY <2>1 DEF IteratorInv, Untouched
    <3>2. QED
      BY <2>1, <2>2, <2>4, <3>1 DEF IteratorInv, Ended
  <2>11. QED
    BY <2>1, <2>2, <2>7, <2>8, <2>9, <2>10 DEF IteratorInv, Untouched, Synchronised
<1>3. ASSUME NEW j \in Iters, j # it
      PROVE  IteratorInv(j)'
  <2>1. /\ pc'[j] = pc[j] /\ start'[j] = start[j]
    BY <1>3 DEF FetchNextPage, TypeOK, HistoryTypes
  <2>2. heap'[j] = heap[j] /\ wire'[j] = wire[j]
    BY <1>1, <1>3, OwnMessage DEF InternalFetch, TypeOK, ClosureTypes, Messages
  <2>3. QED
    BY <2>1, <2>2, ViewKept DEF FetchNextPage, iterVars, pageInfoVars
<1>4. QED
  BY <1>2, <1>3

LEMMA FetchSucceedsKeeps ==
  ASSUME IInv, NEW it \in Iters, FetchSucceeds(it)
  PROVE  \A j \in Iters : IteratorInv(j)'
<1> USE DEF IInv
<1>1. PICK n \in 0 .. NItems, next \in -1 .. NItems : Received(it, n, next)
  BY DEF FetchSucceeds
<1> DEFINE off == Offset(Sent(it).token)
<1>2. /\ off \in 0 .. NItems /\ n \in 0 .. NItems - off
      /\ Page(off, n) \in Seq(1 .. NItems)
  BY <1>1, ReceivedPage
<1>3. /\ heap' = heap /\ req' = req /\ err' = err
      /\ seen' = seen /\ start' = start /\ wanted' = wanted
  BY DEF FetchSucceeds, EndFetch, historyVars
<1>4. IteratorInv(it)'
  <2>1. CASE pc[it] = "fetching"
    <3>1. By(it) = "next"
      BY <2>1 DEF By
    <3>2. /\ items[it] = <<>> /\ ~atEnd[it] /\ err[it] = "none" /\ off = Pos(it)
      BY <2>1, OwnMessage DEF IteratorInv, InFlight
    <3>3. pc'[it] = "next" /\ token'[it] = next
      BY <1>1, <3>1 DEF Received, ReturnedToken, TypeOK, PageInfoTypes
    <3>4. atEnd'[it] <=> next = NoToken
      BY <1>1, <3>1 DEF Received, ReturnedToken, TypeOK, PageInfoTypes
    <3>5. items'[it] = Page(off, n)
      <4>1. items'[it] = items[it] \o BufferedPage(it, n, By(it))
        BY <1>1 DEF Received, TypeOK, IterTypes
      <4>2. BufferedPage(it, n, By(it)) = Page(off, n)
        BY <3>1 DEF BufferedPage
      <4>3. QED
        BY <1>2, <3>2, <4>1, <4>2, ConcatEmptySeq
    <3>6. Len(items'[it]) = n /\ \A i \in 1 .. n : items'[it][i] = off + i
      BY <1>2, <3>5, PageProperties
    <3>7. Pos(it)' = off
      BY <1>3, <3>2 DEF Pos
    <3>8. (next = NoToken /\ off + n = NItems) \/ (next # NoToken /\ next = off + n)
      BY <1>1 DEF Received, ServerMayAnswer
    <3>9. start[it] # -1
      BY <2>1 DEF IteratorInv, Untouched
    <3>10. Stitched(it)'
      BY <1>3, <3>6, <3>7 DEF IteratorInv, Stitched
    <3>11. Synchronised(it)'
      BY <3>3, <3>4, <3>6, <3>7, <3>8 DEF Synchronised
    <3>12. Ended(it)'
      BY <1>3, <3>2 DEF IteratorInv, Ended
    <3>13. QED
      BY <1>3, <3>3, <3>9, <3>10, <3>11, <3>12 DEF IteratorInv, Untouched, InFlight
  <2>2. CASE pc[it] = "probing"
    <3>1. By(it) = "probe"
      BY <2>2 DEF By
    <3>2. pc'[it] = "idle" /\ token'[it] = token[it] /\ atEnd'[it] = atEnd[it]
      BY <1>1, <3>1 DEF Received, TypeOK, PageInfoTypes
    <3>3. items'[it] = items[it]
      <4>1. items'[it] = items[it] \o <<>>
        BY <1>1, <3>1 DEF Received, BufferedPage, TypeOK, IterTypes
      <4>2. QED
        BY <4>1, IteratorTypes, ConcatEmptySeq
    <3>4. Untouched(it)'
      BY <1>3, <2>2, <3>2, <3>3 DEF IteratorInv, Untouched
    <3>5. Stitched(it)' /\ Synchronised(it)'
      BY <1>3, <2>2, <3>2, <3>3 DEF IteratorInv, Stitched, Synchronised, Pos
    <3>6. QED
      BY <1>3, <2>2, <3>2, <3>4, <3>5 DEF IteratorInv, InFlight, Ended, Pos
  <2>3. QED
    BY <2>1, <2>2 DEF FetchSucceeds
<1>5. ASSUME NEW j \in Iters, j # it
      PROVE  IteratorInv(j)'
  <2>1. /\ pc'[j] = pc[j] /\ items'[j] = items[j]
        /\ token'[j] = token[j] /\ atEnd'[j] = atEnd[j]
    BY <1>1, <1>5 DEF Received, TypeOK, IterTypes, PageInfoTypes
  <2>2. wire'[j] = wire[j]
    BY <1>5 DEF FetchSucceeds, EndFetch, TypeOK, ClosureTypes
  <2>3. QED
    BY <1>3, <2>1, <2>2, ViewKept
<1>6. QED
  BY <1>4, <1>5

LEMMA FetchFailsKeeps ==
  ASSUME IInv, NEW it \in Iters, FetchFails(it)
  PROVE  \A j \in Iters : IteratorInv(j)'
<1> USE DEF IInv
<1>1. /\ heap' = heap /\ req' = req /\ token' = token /\ atEnd' = atEnd
      /\ seen' = seen /\ start' = start /\ wanted' = wanted
  BY DEF FetchFails, EndFetch, historyVars
<1>2. IteratorInv(it)'
  <2>1. CASE pc[it] = "fetching"
    <3>1. /\ pc'[it] = "idle" /\ err'[it] = "Failed" /\ items'[it] = <<>>
      BY <2>1 DEF FetchFails, TypeOK, PageInfoTypes, IterTypes
    <3>2. start[it] # -1
      BY <2>1 DEF IteratorInv, Untouched
    <3>3. Stitched(it)'
      BY <1>1, <3>1, EmptySeq DEF IteratorInv, Stitched
    <3>4. QED
      BY <1>1, <3>1, <3>2, <3>3
      DEF IteratorInv, Untouched, InFlight, Synchronised, Ended
  <2>2. CASE pc[it] = "probing"
    <3>1. pc'[it] = "idle" /\ items' = items /\ err' = err
      BY <2>2 DEF FetchFails, TypeOK
    <3>2. Untouched(it)' /\ Stitched(it)' /\ InFlight(it)'
      BY <1>1, <2>2, <3>1 DEF IteratorInv, Untouched, Stitched, InFlight, Pos
    <3>3. Synchronised(it)' /\ Ended(it)'
      BY <1>1, <2>2, <3>1 DEF IteratorInv, Synchronised, Ended, Pos
    <3>4. QED
      BY <1>1, <3>1, <3>2, <3>3 DEF IteratorInv
  <2>3. QED
    BY <2>1, <2>2 DEF FetchFails
<1>3. ASSUME NEW j \in Iters, j # it
      PROVE  IteratorInv(j)'
  <2>1. pc'[j] = pc[j] /\ items'[j] = items[j] /\ err'[j] = err[j]
    BY <1>3 DEF FetchFails, TypeOK, IterTypes, PageInfoTypes
  <2>2. wire'[j] = wire[j]
    BY <1>3 DEF FetchFails, EndFetch, TypeOK, ClosureTypes
  <2>3. QED
    BY <1>1, <2>1, <2>2, ViewKept
<1>4. QED
  BY <1>2, <1>3

LEMMA CallNextKeeps ==
  ASSUME IInv, NEW it \in Iters, CallNext(it)
  PROVE  \A j \in Iters : IteratorInv(j)'
<1> USE DEF IInv
<1>1. UNCHANGED <<closureVars, iterVars, pageInfoVars, historyVars>>
  BY DEF CallNext
<1>2. IteratorInv(it)'
  <2>1. pc[it] = "idle" /\ pc'[it] = "next" /\ err[it] = "none"
    BY DEF CallNext, TypeOK
  <2>2. Untouched(it)' /\ Stitched(it)' /\ InFlight(it)'
    BY <1>1, <2>1 DEF IteratorInv, Untouched, Stitched, InFlight, Pos,
                      closureVars, iterVars, pageInfoVars, historyVars
  <2>3. Synchronised(it)' /\ Ended(it)'
    BY <1>1, <2>1 DEF IteratorInv, Synchronised, Ended, Pos,
                      closureVars, iterVars, pageInfoVars, historyVars
  <2>4. QED
    BY <1>1, <2>1, <2>2, <2>3 DEF IteratorInv, closureVars
<1>3. ASSUME NEW j \in Iters, j # it
      PROVE  IteratorInv(j)'
  <2>1. pc'[j] = pc[j]
    BY <1>3 DEF CallNext, TypeOK
  <2>2. QED
    BY <1>1, <2>1, ViewKept DEF closureVars, iterVars, pageInfoVars, historyVars
<1>4. QED
  BY <1>2, <1>3

LEMMA NextReturnsItemKeeps ==
  ASSUME IInv, NEW it \in Iters, NextReturnsItem(it)
  PROVE  /\ \A j \in Iters : IteratorInv(j)'
         /\ start[it] # -1
         /\ seen' = [seen EXCEPT ![it] = Append(@, Pos(it) + 1)]
         /\ Pos(it) \in 0 .. NItems - 1
         /\ Pos(it)' = Pos(it) + 1
<1> USE DEF IInv
<1>1. /\ heap' = heap /\ req' = req /\ wire' = wire /\ token' = token
      /\ atEnd' = atEnd /\ err' = err /\ start' = start /\ wanted' = wanted
  BY DEF NextReturnsItem, closureVars, pageInfoVars
<1>2. /\ pc[it] = "next" /\ pc'[it] = "idle" /\ items[it] # <<>>
      /\ items'[it] = Tail(items[it])
      /\ seen' = [seen EXCEPT ![it] = Append(@, Head(items[it]))]
      /\ seen'[it] = Append(seen[it], Head(items[it]))
  BY DEF NextReturnsItem, TypeOK, IterTypes, HistoryTypes
<1>3. start[it] # -1 /\ start[it] \in 0 .. NItems /\ Pos(it) \in Nat
  BY <1>2, IteratorTypes DEF IteratorInv, Untouched, Pos
<1>4. /\ Len(items[it]) \in Nat \ {0}
      /\ Head(items[it]) = items[it][1] /\ Head(items[it]) \in 1 .. NItems
      /\ Len(Tail(items[it])) = Len(items[it]) - 1
      /\ \A i \in 1 .. Len(items[it]) - 1 : Tail(items[it])[i] = items[it][i + 1]
  BY <1>2, IteratorTypes, HeadTailProperties, EmptySeq
<1>5. Head(items[it]) = Pos(it) + 1
  BY <1>4 DEF IteratorInv, Stitched
<1>6. /\ Len(seen'[it]) = Len(seen[it]) + 1
      /\ \A i \in 1 .. Len(seen[it]) : seen'[it][i] = seen[it][i]
      /\ seen'[it][Len(seen[it]) + 1] = Head(items[it])
  BY <1>2, <1>4, IteratorTypes, AppendProperties
<1>7. Pos(it)' = Pos(it) + 1
  <2>1. Len(seen[it]) \in Nat /\ start[it] \in Int /\ start'[it] = start[it]
    BY <1>1, <1>3, IteratorTypes
  <2>2. QED
    BY <1>6, <2>1 DEF Pos
<1>8. IteratorInv(it)'
  <2>1. Stitched(it)'
    <3>1. ASSUME NEW i \in 1 .. Len(seen'[it])
          PROVE  seen'[it][i] = start'[it] + i
      <4>1. Len(seen[it]) \in Nat /\ start'[it] = start[it]
        BY <1>1, IteratorTypes
      <4>2. CASE i \in 1 .. Len(seen[it])
        BY <1>6, <4>1, <4>2 DEF IteratorInv, Stitched
      <4>3. CASE i = Len(seen[it]) + 1
        <5>1. seen'[it][i] = Pos(it) + 1
          BY <1>5, <1>6, <4>3
        <5>2. Pos(it) + 1 = start[it] + i
          BY <1>3, <4>1, <4>3 DEF Pos
        <5>3. QED
          BY <4>1, <5>1, <5>2
      <4>4. i \in 1 .. Len(seen[it]) \/ i = Len(seen[it]) + 1
        BY <1>6, <4>1
      <4>5. QED
        BY <4>2, <4>3, <4>4
    <3>2. ASSUME NEW i \in 1 .. Len(items'[it])
          PROVE  items'[it][i] = Pos(it)' + i
      <4>1. items'[it][i] = items[it][i + 1] /\ i + 1 \in 1 .. Len(items[it])
        BY <1>2, <1>4
      <4>2. items[it][i + 1] = Pos(it) + (i + 1)
        BY <4>1 DEF IteratorInv, Stitched
      <4>3. QED
        BY <1>3, <1>7, <4>1, <4>2
    <3>3. QED
      BY <3>1, <3>2 DEF Stitched
  <2>2. Synchronised(it)'
    <3>1. Pos(it)' + Len(items'[it]) = Pos(it) + Len(items[it])
      BY <1>2, <1>3, <1>4, <1>7
    <3>2. QED
      BY <1>1, <1>2, <1>3, <3>1 DEF IteratorInv, Synchronised
  <2>3. err[it] = "none"
    BY <1>2 DEF IteratorInv, Ended
  <2>4. QED
    BY <1>1, <1>2, <1>3, <2>1, <2>2, <2>3 DEF IteratorInv, Untouched, InFlight, Ended
<1>9. ASSUME NEW j \in Iters, j # it
      PROVE  IteratorInv(j)'
  <2>1. pc'[j] = pc[j] /\ items'[j] = items[j] /\ seen'[j] = seen[j]
    BY <1>9 DEF NextReturnsItem, TypeOK, IterTypes, HistoryTypes
  <2>2. QED
    BY <1>1, <2>1, ViewKept
<1>10. Pos(it) \in 0 .. NItems - 1
  BY <1>3, <1>4, <1>5, PagingAssumption
<1>11. QED
  BY <1>2, <1>3, <1>5, <1>7, <1>8, <1>9, <1>10

LEMMA NextReturnsDoneKeeps ==
  ASSUME IInv, NEW it \in Iters, NextReturnsDone(it)
  PROVE  /\ \A j \in Iters : IteratorInv(j)'
         /\ start[it] # -1 /\ Pos(it) = NItems
<1> USE DEF IInv
<1>1. UNCHANGED <<closureVars, iterVars, token, atEnd, historyVars>>
  BY DEF NextReturnsDone
<1>2. /\ pc[it] = "next" /\ pc'[it] = "idle" /\ items[it] = <<>> /\ atEnd[it]
      /\ err'[it] = "Done"
  BY DEF NextReturnsDone, TypeOK, PageInfoTypes
<1>3. start[it] # -1 /\ err[it] = "none"
  BY <1>2 DEF IteratorInv, Untouched, Ended
<1>4. Pos(it) = NItems
  <2>1. Pos(it) + Len(items[it]) = NItems
    BY <1>2, <1>3 DEF IteratorInv, Synchronised
  <2>2. Len(items[it]) = 0 /\ Pos(it) \in Int
    BY <1>2, EmptySeq, IteratorTypes DEF Pos
  <2>3. QED
    BY <2>1, <2>2
<1>5. Stitched(it)' /\ Synchronised(it)'
  BY <1>1, <1>2, <1>3 DEF IteratorInv, Stitched, Synchronised, Pos,
                          closureVars, iterVars, historyVars
<1>6. IteratorInv(it)'
  BY <1>1, <1>2, <1>3, <1>4, <1>5
  DEF IteratorInv, Untouched, InFlight, Ended, Pos, closureVars, iterVars, historyVars
<1>7. ASSUME NEW j \in Iters, j # it
      PROVE  IteratorInv(j)'
  <2>1. pc'[j] = pc[j] /\ err'[j] = err[j]
    BY <1>7 DEF NextReturnsDone, TypeOK, PageInfoTypes
  <2>2. QED
    BY <1>1, <2>1, ViewKept DEF closureVars, iterVars, historyVars
<1>8. QED
  BY <1>3, <1>4, <1>6, <1>7

(* Every reachable state satisfies the inductive invariant. *)
THEOREM InvariantHolds == Spec => []IInv
<1>1. Init => IInv
  <2> SUFFICES ASSUME Init
               PROVE  IInv
    OBVIOUS
  <2>1. TypeOK
    BY PagingAssumption DEF Init, TypeOK, ClosureTypes, IterTypes, PageInfoTypes,
         HistoryTypes, Messages, MessageRecord, NoMessage, NoToken
  <2>2. ASSUME NEW it \in Iters
        PROVE  IteratorInv(it)
    BY EmptySeq DEF Init, IteratorInv, Untouched, Stitched, InFlight, Synchronised, Ended
  <2>3. QED
    BY <2>1, <2>2 DEF IInv
<1>2. IInv /\ TypeOK' /\ [Next]_vars => IInv'
  <2> SUFFICES ASSUME IInv, TypeOK', [Next]_vars
               PROVE  \A j \in Iters : IteratorInv(j)'
    BY DEF IInv
  <2>1. CASE UNCHANGED vars
    <3>1. /\ UNCHANGED <<pc, heap, req, wire, items, token, atEnd>>
          /\ UNCHANGED <<err, seen, start, wanted>>
      BY <2>1 DEF vars, closureVars, iterVars, pageInfoVars, historyVars
    <3>2. QED
      BY <3>1, ViewKept DEF IInv
  <2>2. CASE Next
    BY <2>2, EditRequestKeeps, CallKeeps, SetPageInfoKeeps, ProbeKeeps,
       FetchNextPageKeeps, FetchSucceedsKeeps, FetchFailsKeeps, CallNextKeeps,
       NextReturnsItemKeeps, NextReturnsDoneKeeps
    DEF Next, Iterate, Answer
  <2>3. QED
    BY <2>1, <2>2
<1>3. QED
  BY <1>1, <1>2, TypeCorrect, PTL DEF Spec

-------------------------------------------------------------------------------
(* What follows from it. *)

(* What Next has delivered and what is buffered are one contiguous run of the
   list, for every interleaving of any number of iterators and callers. *)
THEOREM PagesAreContiguous == Spec => []Contiguous
<1>1. IInv => Contiguous
  BY DEF IInv, IteratorInv, Stitched, Contiguous, Pos
<1>2. QED
  BY <1>1, InvariantHolds, PTL

(* iterator.Done is only returned when the run has reached the end. *)
THEOREM DoneIsTheEnd == Spec => []DoneMeansExhausted
<1>1. IInv => DoneMeansExhausted
  BY DEF IInv, IteratorInv, Ended, DoneMeansExhausted, Pos
<1>2. QED
  BY <1>1, InvariantHolds, PTL

(* The first page is the one the request asked for when the method was called,
   unless PageInfo.Token was set or InternalFetch called before it. *)
THEOREM StartsWhereAsked == Spec => []StartAsRequested
<1>1. IInv => StartAsRequested
  BY DEF IInv, IteratorInv, Ended, StartAsRequested
<1>2. QED
  BY <1>1, InvariantHolds, PTL

(* Only its caller's own step (which changes no iterator) writes into a
   caller's message: the iterator works on a clone. *)
THEOREM CallersKeepTheirMessages == Spec => CallerRequestsUntouched
<1>1. ASSUME IInv, [Next]_vars, pc' # pc, NEW r \in Reqs
      PROVE  heap'[r] = heap[r]
  <2> USE <1>1 DEF IInv
  <2>1. \A it \in Iters : it # r /\ req[it] = it
    BY PagingAssumption DEF IteratorInv
  <2>2. ASSUME NEW it \in Iters, NEW size, NEW tok, InternalFetch(it, size, tok)
        PROVE  heap'[r] = heap[r]
    BY <2>1, <2>2 DEF InternalFetch, TypeOK, ClosureTypes, Messages
  <2>3. ASSUME NEW q \in Reqs, EditRequest(q)
        PROVE  FALSE
    BY <1>1, <2>3 DEF EditRequest
  <2>4. ASSUME NEW q \in Reqs, NEW it \in Iters, Call(it, q)
        PROVE  heap'[r] = heap[r]
    BY <2>1, <2>4 DEF Call, CapturedReq, TypeOK, ClosureTypes, Messages
  <2>5. ASSUME NEW it \in Iters, SetPageInfo(it) \/ Answer(it)
        PROVE  heap'[r] = heap[r]
    BY <2>5 DEF SetPageInfo, Answer, FetchSucceeds, FetchFails, EndFetch, closureVars
  <2>6. ASSUME NEW it \in Iters, Probe(it) \/ FetchNextPage(it)
        PROVE  heap'[r] = heap[r]
    BY <2>2, <2>6 DEF Probe, FetchNextPage
  <2>7. ASSUME NEW it \in Iters, CallNext(it) \/ NextReturnsItem(it) \/ NextReturnsDone(it)
        PROVE  heap'[r] = heap[r]
    BY <2>7 DEF CallNext, NextReturnsItem, NextReturnsDone, closureVars
  <2>8. Next
    BY <1>1 DEF vars
  <2>9. QED
    BY <2>3, <2>4, <2>5, <2>6, <2>7, <2>8 DEF Next, Iterate
<1>2. IInv /\ [Next]_vars => [pc' # pc => \A r \in Reqs : heap'[r] = heap[r]]_vars
  BY <1>1
<1>3. QED
  BY <1>2, InvariantHolds, PTL DEF Spec, CallerRequestsUntouched

-------------------------------------------------------------------------------
(* The iterator implements the abstract list reader: the first fetch is its
   Start, every item handed out a Deliver, and all the fetching, buffering and
   probing in between are stutters. *)
THEOREM ImplementsPagedList == Spec => ReadsPagedList
<1> DEFINE at == [it \in Iters |-> IF start[it] = -1 THEN -1 ELSE start[it] + Len(seen[it])]
<1>1. Init => PL!Init
  BY DEF Init, PL!Init
<1>2. ASSUME IInv, [Next]_vars
      PROVE  [PL!Next]_PL!vars
  <2> USE <1>2 DEF IInv
  <2>1. ASSUME NEW it \in Iters, FetchNextPage(it)
        PROVE  [PL!Next]_PL!vars
    <3> DEFINE sent == Offset(FetchToken(token[it], heap[it].token))
    <3>1. /\ start' = [start EXCEPT ![it] = IF @ = -1 THEN sent ELSE @]
          /\ seen' = seen /\ err' = err /\ pc[it] = "next"
      BY <2>1, OwnMessage DEF FetchNextPage, pageInfoVars
    <3>2. err[it] = "none"
      BY <3>1 DEF IteratorInv, Ended
    <3>3. CASE start[it] = -1
      <4>1. sent \in 0 .. NItems
        BY IteratorTypes, OwnMessage DEF MessageRecord, FetchToken, Offset, NoToken
      <4>2. Len(seen[it]) = 0
        BY <3>3, EmptySeq DEF IteratorInv, Untouched
      <4>3. at[it] = -1
        BY <3>3
      <4>4. at' = [at EXCEPT ![it] = sent]
        <5> HIDE DEF sent
        <5>1. start'[it] = sent /\ \A j \in Iters : j # it => start'[j] = start[j]
          BY <3>1, <3>3 DEF TypeOK, HistoryTypes
        <5>2. sent + Len(seen'[it]) = sent /\ sent # -1
          BY <3>1, <4>1, <4>2
        <5>3. at'[it] = sent
          BY <5>1, <5>2
        <5>4. \A j \in Iters : j # it => at'[j] = at[j]
          BY <3>1, <5>1
        <5>5. at' = [j \in Iters |-> at'[j]] /\ at = [j \in Iters |-> at[j]]
          OBVIOUS
        <5> HIDE DEF at
        <5>6. QED
          BY <5>3, <5>4, <5>5
      <4>5. PL!Start(it)
        BY <3>1, <3>2, <4>1, <4>3, <4>4 DEF PL!Start
      <4>6. QED
        BY <4>5 DEF PL!Next
    <3>4. CASE start[it] # -1
      <4>1. start' = start
        BY <3>1, <3>4 DEF TypeOK, HistoryTypes
      <4>2. QED
        BY <3>1, <4>1 DEF PL!vars
    <3>5. QED
      BY <3>3, <3>4
  <2>2. ASSUME NEW it \in Iters, NextReturnsItem(it)
        PROVE  [PL!Next]_PL!vars
    <3>1. /\ start[it] # -1
          /\ seen' = [seen EXCEPT ![it] = Append(@, Pos(it) + 1)]
          /\ Pos(it) \in 0 .. NItems - 1
          /\ start'[it] + Len(seen'[it]) = Pos(it) + 1
      BY <2>2, NextReturnsItemKeeps DEF Pos
    <3>2. start' = start /\ err' = err /\ err[it] = "none"
      BY <2>2 DEF NextReturnsItem, pageInfoVars, IteratorInv, Ended
    <3>3. at[it] = Pos(it)
      BY <3>1 DEF Pos
    <3>4. at' = [at EXCEPT ![it] = at[it] + 1]
      <4>1. \A j \in Iters : j # it => seen'[j] = seen[j]
        BY <3>1 DEF TypeOK, HistoryTypes
      <4>2. at'[it] = at[it] + 1
        BY <3>1, <3>2, <3>3
      <4>3. QED
        BY <3>2, <4>1, <4>2
    <3>5. PL!Deliver(it)
      BY <3>1, <3>2, <3>3, <3>4 DEF PL!Deliver
    <3>6. QED
      BY <3>5 DEF PL!Next
  <2>3. ASSUME NEW it \in Iters, NextReturnsDone(it)
        PROVE  [PL!Next]_PL!vars
    <3>1. start[it] # -1 /\ start[it] + Len(seen[it]) = NItems
      BY <2>3, NextReturnsDoneKeeps DEF Pos
    <3>2. /\ start' = start /\ seen' = seen
          /\ err' = [err EXCEPT ![it] = "Done"] /\ err[it] = "none"
      BY <2>3 DEF NextReturnsDone, historyVars, IteratorInv, Ended
    <3>3. PL!Finish(it)
      BY <3>1, <3>2 DEF PL!Finish
    <3>4. QED
      BY <3>3 DEF PL!Next
  <2>4. ASSUME NEW it \in Iters, FetchFails(it)
        PROVE  [PL!Next]_PL!vars
    <3>1. start' = start /\ seen' = seen
      BY <2>4 DEF FetchFails, historyVars
    <3>2. CASE pc[it] = "fetching"
      <4>1. err' = [err EXCEPT ![it] = "Failed"] /\ err[it] = "none"
        BY <2>4, <3>2 DEF FetchFails, IteratorInv, InFlight
      <4>2. PL!Fail(it)
        BY <3>1, <4>1 DEF PL!Fail
      <4>3. QED
        BY <4>2 DEF PL!Next
    <3>3. CASE pc[it] # "fetching"
      <4>1. err' = err
        BY <2>4, <3>3 DEF FetchFails
      <4>2. QED
        BY <3>1, <4>1 DEF PL!vars
    <3>4. QED
      BY <3>2, <3>3
  <2>5. ASSUME UNCHANGED <<start, seen, err>>
        PROVE  [PL!Next]_PL!vars
    BY <2>5 DEF PL!vars
  <2>6. ASSUME NEW r \in Reqs, NEW it \in Iters, EditRequest(r) \/ Call(it, r)
        PROVE  UNCHANGED <<start, seen, err>>
    BY <2>6 DEF EditRequest, Call, pageInfoVars, historyVars
  <2>7. ASSUME NEW r \in Reqs, EditRequest(r)
        PROVE  UNCHANGED <<start, seen, err>>
    BY <2>7 DEF EditRequest, pageInfoVars, historyVars
  <2>8. ASSUME NEW it \in Iters,
               SetPageInfo(it) \/ Probe(it) \/ FetchSucceeds(it) \/ CallNext(it)
        PROVE  UNCHANGED <<start, seen, err>>
    BY <2>8 DEF SetPageInfo, Probe, FetchSucceeds, CallNext, pageInfoVars, historyVars
  <2>9. CASE UNCHANGED vars
    BY <2>5, <2>9 DEF vars, pageInfoVars, historyVars
  <2>10. CASE Next
    BY <2>1, <2>2, <2>3, <2>4, <2>5, <2>6, <2>7, <2>8, <2>10 DEF Next, Iterate, Answer
  <2>11. QED
    BY <1>2, <2>9, <2>10
<1>3. QED
  BY <1>1, <1>2, InvariantHolds, PTL DEF Spec, ReadsPagedList, PL!Spec

-------------------------------------------------------------------------------
(* The raw response and the size of pages. *)
LEMMA ToFieldKeeps ==
  ASSUME NEW n \in 0 .. MaxInt32
  PROVE  ToField(n) = n
<1> DEFINE m == 2 * (MaxInt32 + 1)
<1>1. MaxInt32 \in Nat /\ m \in Nat /\ n \in Nat /\ n + MaxInt32 + 1 < m /\ n < m
  BY PagingAssumption
<1>2. n % m = n
  BY <1>1
<1>3. (n + MaxInt32 + 1) % m = n + MaxInt32 + 1
  <2>1. n + MaxInt32 + 1 \in Nat
    BY <1>1
  <2> HIDE DEF m
  <2> QED
    BY <1>1, <2>1
<1> QED
  BY <1>1, <1>2, <1>3 DEF ToField

(* The items still to be delivered are the tail of the page that Next fetched
   last, until InternalFetch replaces the response. *)
CurrentPage(it) ==
  response[it].by = "next" =>
    \E k \in 0 .. Len(response[it].page) :
        items[it] = SubSeq(response[it].page, k + 1, Len(response[it].page))

LEMMA SamePageKept ==
  ASSUME NEW j \in Iters, CurrentPage(j), items'[j] = items[j], response'[j] = response[j]
  PROVE  CurrentPage(j)'
BY DEF CurrentPage

LEMMA FetchKeepsPage ==
  ASSUME IInv, ResponseIsCurrent, NEW it \in Iters, FetchSucceeds(it)
  PROVE  ResponseIsCurrent'
<1> USE DEF IInv
<1>1. PICK n \in 0 .. NItems, next \in -1 .. NItems : Received(it, n, next)
  BY DEF FetchSucceeds
<1> DEFINE p == Page(Offset(Sent(it).token), n)
<1>2. p \in Seq(1 .. NItems)
  BY <1>1, ReceivedPage
<1>3. /\ response' = [response EXCEPT ![it] = [page |-> p, by |-> By(it)]]
      /\ items' = [items EXCEPT ![it] = @ \o BufferedPage(it, n, By(it))]
  BY <1>1 DEF Received, ResponseOf
<1>4. CASE pc[it] = "fetching"
  <2>1. items[it] = <<>> /\ By(it) = "next"
    BY <1>4 DEF By, IteratorInv, InFlight
  <2>2. items'[it] = p
    <3>1. items'[it] = items[it] \o p
      BY <1>3, <2>1 DEF BufferedPage, TypeOK, IterTypes
    <3> QED
      BY <1>2, <2>1, <3>1, ConcatEmptySeq
  <2>3. response'[it].page = p
    BY <1>3 DEF TypeOK, IterTypes
  <2>4. SubSeq(p, 0 + 1, Len(p)) = p /\ Len(p) \in Nat
    BY <1>2, SubSeqFull, LenProperties
  <2> HIDE DEF p
  <2>5. 0 \in 0 .. Len(p)
    BY <2>4
  <2>6. CurrentPage(it)'
    BY <2>2, <2>3, <2>4, <2>5 DEF CurrentPage
  <2>7. \A j \in Iters \ {it} : items'[j] = items[j] /\ response'[j] = response[j]
    BY <1>3 DEF TypeOK, IterTypes
  <2> QED
    BY <2>6, <2>7 DEF ResponseIsCurrent, CurrentPage
<1>5. CASE pc[it] # "fetching"
  <2>1. response'[it].by = "probe"
    BY <1>3, <1>5 DEF By, TypeOK, IterTypes
  <2>2. \A j \in Iters \ {it} : items'[j] = items[j] /\ response'[j] = response[j]
    BY <1>3 DEF TypeOK, IterTypes
  <2> QED
    BY <2>1, <2>2 DEF ResponseIsCurrent
<1> QED
  BY <1>4, <1>5

LEMMA ItemKeepsPage ==
  ASSUME IInv, ResponseIsCurrent, NEW it \in Iters, NextReturnsItem(it)
  PROVE  ResponseIsCurrent'
<1>1. /\ response' = response /\ items[it] # <<>>
      /\ items'[it] = Tail(items[it])
      /\ \A j \in Iters \ {it} : items'[j] = items[j]
  BY DEF NextReturnsItem, IInv, TypeOK, IterTypes
<1>2. ASSUME response[it].by = "next"
      PROVE  \E k \in 0 .. Len(response[it].page) :
               items'[it] = SubSeq(response[it].page, k + 1, Len(response[it].page))
  <2>1. PICK p \in Seq(1 .. NItems) : p = response[it].page
    BY DEF IInv, TypeOK, IterTypes
  <2>2. PICK k \in 0 .. Len(p) : items[it] = SubSeq(p, k + 1, Len(p))
    BY <1>2, <2>1 DEF ResponseIsCurrent
  <2>3. k \in Nat /\ Len(p) \in Nat /\ k <= Len(p)
    BY <2>1, <2>2, LenProperties
  <2>4. k < Len(p)
    <3>1. SUFFICES ASSUME k = Len(p) PROVE FALSE
      BY <2>3
    <3>2. k + 1 \in 1 .. Len(p) + 1 /\ Len(p) \in 0 .. k
      BY <2>3, <3>1
    <3>3. SubSeq(p, k + 1, Len(p)) = <<>>
      BY <2>3, <3>1, SubSeqProperties, EmptySeq
    <3> QED
      BY <1>1, <2>2, <3>3
  <2>5. k + 1 \in 1 .. Len(p) /\ Len(p) \in k + 1 .. Len(p) /\ k + 1 \in 0 .. Len(p)
    BY <2>3, <2>4
  <2>6. Tail(SubSeq(p, k + 1, Len(p))) = SubSeq(p, k + 1 + 1, Len(p))
    BY <2>1, <2>5, HeadTailOfSubSeq
  <2> QED
    BY <1>1, <2>1, <2>2, <2>5, <2>6
<1> QED
  BY <1>1, <1>2 DEF ResponseIsCurrent

LEMMA FailureKeepsPage ==
  ASSUME IInv, ResponseIsCurrent, NEW it \in Iters, FetchFails(it)
  PROVE  ResponseIsCurrent'
<1>1. response' = response
  BY DEF FetchFails
<1>2. \A j \in Iters : items'[j] = items[j] \/ items'[j] = <<>>
  BY DEF FetchFails, IInv, TypeOK, IterTypes
<1>3. ASSUME NEW p \in Seq(1 .. NItems)
      PROVE  \E k \in 0 .. Len(p) : <<>> = SubSeq(p, k + 1, Len(p))
  <2>1. Len(p) \in Nat /\ Len(p) + 1 \in 1 .. Len(p) + 1
    BY LenProperties
  <2>2. SubSeq(p, Len(p) + 1, Len(p)) = <<>>
    BY <2>1, SubSeqProperties, EmptySeq
  <2> QED
    BY <2>1, <2>2
<1>4. \A j \in Iters : response[j].page \in Seq(1 .. NItems)
  BY DEF IInv, TypeOK, IterTypes
<1> QED
  BY <1>1, <1>2, <1>3, <1>4 DEF ResponseIsCurrent

(* ResponseIsCurrent: a page replaces the response only when the buffer is
   empty, an item is taken from the front of both, and a call that fails
   leaves an empty buffer (the fetch closure of pagingCall). *)
THEOREM RawResponseIsCurrent == Spec => []ResponseIsCurrent
<1>1. Init => ResponseIsCurrent
  BY DEF Init, ResponseIsCurrent
<1>2. IInv /\ ResponseIsCurrent /\ [Next]_vars => ResponseIsCurrent'
  <2> SUFFICES ASSUME IInv, ResponseIsCurrent, [Next]_vars PROVE ResponseIsCurrent'
    OBVIOUS
  <2>1. CASE UNCHANGED iterVars
    BY <2>1 DEF iterVars, ResponseIsCurrent
  <2>2. ASSUME NEW it \in Iters, Answer(it) \/ NextReturnsItem(it)
        PROVE  ResponseIsCurrent'
    BY <2>2, FetchKeepsPage, FailureKeepsPage, ItemKeepsPage DEF Answer
  <2>3. UNCHANGED iterVars \/ \E it \in Iters : Answer(it) \/ NextReturnsItem(it)
    BY DEF Next, Iterate, EditRequest, Call, SetPageInfo, Probe, CallNext, FetchNextPage,
           NextReturnsDone, vars
  <2> QED
    BY <2>1, <2>2, <2>3
<1> QED
  BY <1>1, <1>2, InvariantHolds, PTL DEF Spec

(* A fetch that asks for a positive number of items sends a request for no
   more, and in the field's range: what InternalFetch clamps is not wrapped. *)
SentSize(it) ==
  asked[it] > 0 =>
    /\ pc[it] \in {"fetching", "probing"}
    /\ heap[it].size \in 1 .. asked[it] /\ wire[it].size \in 1 .. asked[it]
SizeInv == \A it \in Iters : SentSize(it)

LEMMA FetchSizeFits ==
  ASSUME NEW size \in Nat, size > 0, NEW old
  PROVE  FetchSize(size, old) \in 1 .. size
<1>1. MaxInt32 \in Nat \ {0}
  BY PagingAssumption
<1>2. CASE size > MaxInt32
  BY <1>1, <1>2 DEF FetchSize
<1>3. CASE ~(size > MaxInt32)
  <2>1. size \in 0 .. MaxInt32
    BY <1>1, <1>3
  <2> QED
    BY <1>3, <2>1, ToFieldKeeps DEF FetchSize
<1> QED
  BY <1>2, <1>3

LEMMA SentSizeKept ==
  ASSUME NEW j \in Iters, SentSize(j), asked'[j] = asked[j], pc'[j] = pc[j],
         heap'[j] = heap[j], wire'[j] = wire[j]
  PROVE  SentSize(j)'
BY DEF SentSize

LEMMA InternalFetchSends ==
  ASSUME IInv, SizeInv, NEW it \in Iters, NEW size \in Int, NEW tok,
         InternalFetch(it, size, tok), NEW now \in {"fetching", "probing"},
         pc' = [pc EXCEPT ![it] = now]
  PROVE  SizeInv'
<1> DEFINE q == heap[req[it]]
           m == [token |-> FetchToken(tok, q.token), size |-> FetchSize(size, q.size)]
<1>1. req[it] = it
  BY DEF IInv, IteratorInv
<1>2. /\ heap' = [heap EXCEPT ![it] = m] /\ wire' = [wire EXCEPT ![it] = m]
      /\ asked' = [asked EXCEPT ![it] = size]
  BY <1>1 DEF InternalFetch
<1>3. m.size = FetchSize(size, q.size)
  OBVIOUS
<1>4. size > 0 => m.size \in 1 .. size
  BY <1>3, FetchSizeFits
<1> HIDE DEF m
<1>5. /\ heap'[it] = m /\ wire'[it] = m /\ asked'[it] = size /\ pc'[it] = now
      /\ \A j \in Iters \ {it} : /\ heap'[j] = heap[j] /\ wire'[j] = wire[j]
                                 /\ asked'[j] = asked[j] /\ pc'[j] = pc[j]
  BY <1>2 DEF IInv, TypeOK, ClosureTypes, Messages
<1>6. SentSize(it)'
  BY <1>4, <1>5 DEF SentSize
<1> QED
  BY <1>5, <1>6, SentSizeKept DEF SizeInv

LEMMA SizesKept ==
  ASSUME IInv, SizeInv, [Next]_vars
  PROVE  SizeInv'
<1> USE DEF IInv
<1>1. ASSUME UNCHANGED <<heap, wire, asked>>, NEW it \in Iters, \A j \in Iters \ {it} : pc'[j] = pc[j],
             pc[it] \notin {"fetching", "probing"}
      PROVE  SizeInv'
  BY <1>1 DEF SizeInv, SentSize
<1>2. CASE UNCHANGED vars
  BY <1>2 DEF vars, closureVars, SizeInv, SentSize
<1>3. ASSUME NEW r \in Reqs, EditRequest(r) PROVE SizeInv'
  <2>1. UNCHANGED <<pc, wire, asked>> /\ \A j \in Iters : heap'[j] = heap[j]
    BY <1>3, PagingAssumption DEF EditRequest, TypeOK, ClosureTypes, Messages
  <2> QED
    BY <2>1 DEF SizeInv, SentSize
<1>4. ASSUME NEW r \in Reqs, NEW it \in Iters, Call(it, r) PROVE SizeInv'
  <2>1. /\ pc[it] = "none" /\ UNCHANGED <<asked, wire>>
        /\ \A j \in Iters \ {it} : heap'[j] = heap[j] /\ pc'[j] = pc[j]
    BY <1>4 DEF Call, CapturedReq, TypeOK, ClosureTypes, Messages
  <2>2. ~(asked[it] > 0)
    BY <2>1 DEF SizeInv, SentSize
  <2> QED
    BY <2>1, <2>2 DEF SizeInv, SentSize
<1>5. ASSUME NEW it \in Iters, SetPageInfo(it) PROVE SizeInv'
  BY <1>5 DEF SetPageInfo, closureVars, SizeInv, SentSize
<1>6. ASSUME NEW it \in Iters, Probe(it) PROVE SizeInv'
  <2>1. /\ pc' = [pc EXCEPT ![it] = "probing"]
        /\ \E size \in Int, tok \in Tokens \cup {NoToken} : InternalFetch(it, size, tok)
    BY <1>6, PagingAssumption DEF Probe
  <2> QED
    BY <2>1, InternalFetchSends
<1>7. ASSUME NEW it \in Iters, FetchNextPage(it) PROVE SizeInv'
  <2>1. /\ pc' = [pc EXCEPT ![it] = "fetching"]
        /\ InternalFetch(it, maxSize[it], token[it]) /\ maxSize[it] \in Int
    BY <1>7 DEF FetchNextPage, TypeOK, PageInfoTypes
  <2> QED
    BY <2>1, InternalFetchSends
<1>8. ASSUME NEW it \in Iters, Answer(it) PROVE SizeInv'
  <2>1. /\ heap' = heap /\ asked'[it] = 0
        /\ \A j \in Iters \ {it} : asked'[j] = asked[j] /\ wire'[j] = wire[j] /\ pc'[j] = pc[j]
    BY <1>8 DEF Answer, FetchSucceeds, Received, FetchFails, EndFetch, TypeOK, ClosureTypes
  <2> QED
    BY <2>1 DEF SizeInv, SentSize
<1>9. ASSUME NEW it \in Iters, CallNext(it) \/ NextReturnsItem(it) \/ NextReturnsDone(it)
      PROVE  SizeInv'
  <2>1. /\ UNCHANGED <<heap, wire, asked>> /\ \A j \in Iters \ {it} : pc'[j] = pc[j]
        /\ pc[it] \notin {"fetching", "probing"}
    BY <1>9 DEF CallNext, NextReturnsItem, NextReturnsDone, closureVars, TypeOK
  <2> QED
    BY <1>1, <2>1
<1> QED
  BY <1>2, <1>3, <1>4, <1>5, <1>6, <1>7, <1>8, <1>9 DEF Next, Iterate

(* PageWithinAsked: a fetch that asks for a number of items, on either
   transport, gets no more, whatever the type of the page size field. *)
THEOREM PagesAreWithinAsked == Spec => PageWithinAsked
<1>1. Init => SizeInv
  BY DEF Init, SizeInv, SentSize
<1>2. IInv /\ SizeInv /\ [Next]_vars => SizeInv'
  BY SizesKept
<1>3. ASSUME IInv, SizeInv, [Next]_vars, NEW j \in Iters,
             asked[j] > 0, response'[j] # response[j]
      PROVE  Len(response'[j].page) <= asked[j]
  <2> USE <1>3
  <2>1. PICK it \in Iters : FetchSucceeds(it)
    BY DEF Next, Iterate, Answer, EditRequest, Call, SetPageInfo, Probe, FetchNextPage, FetchFails,
           CallNext, NextReturnsItem, NextReturnsDone, iterVars, vars
  <2>2. PICK n \in 0 .. NItems, next \in -1 .. NItems : Received(it, n, next)
    BY <2>1 DEF FetchSucceeds
  <2> DEFINE p == Page(Offset(Sent(it).token), n)
  <2>3. response' = [response EXCEPT ![it] = [page |-> p, by |-> By(it)]]
    BY <2>2 DEF Received, ResponseOf
  <2>4. j = it /\ response'[j].page = p
    BY <2>3 DEF IInv, TypeOK, IterTypes
  <2>5. Len(p) = n
    BY <2>2, ReceivedPage, PageProperties DEF IInv
  <2>6. Sent(it).size > 0 => n <= Sent(it).size
    BY <2>2 DEF Received, ServerMayAnswer
  <2>7. Sent(it).size \in 1 .. asked[it]
    BY <2>4 DEF Sent, IInv, IteratorInv, SizeInv, SentSize
  <2>8. asked[it] \in Int /\ n \in Int
    BY DEF IInv, TypeOK, ClosureTypes
  <2> HIDE DEF p
  <2> QED
    BY <2>4, <2>5, <2>6, <2>7, <2>8
<1>4. IInv /\ SizeInv /\ [Next]_vars =>
        [\A it \in Iters : asked[it] > 0 /\ response'[it] # response[it]
           => Len(response'[it].page) <= asked[it]]_vars
  BY <1>3
<1> QED
  BY <1>1, <1>2, <1>4, InvariantHolds, PTL DEF Spec, PageWithinAsked
=================================================================================
