---------------------------- MODULE PagingIterator ----------------------------
(***************************************************************************)
(* The iterator that a generated paging method returns                     *)
(* (gengapic/paging.go, and pagingRESTCall of gengapic/genrest.go),        *)
(* together with the iterator.PageInfo it drives, a server that pages      *)
(* through a fixed list of items 1 .. NItems, and callers that edit the    *)
(* request message they passed, set PageInfo fields before iterating, and  *)
(* call InternalFetch directly.                                            *)
(*                                                                         *)
(* Page tokens are offsets into the list; the empty token is NoToken.      *)
(* Messages live in a heap, because what matters is which message an       *)
(* iterator writes its page token into: the caller's or its own clone.     *)
(* One goroutine owns an iterator; iterators interleave.                   *)
(*                                                                         *)
(* Operators named Bad... are not the code: each is the definition after   *)
(* it with a plausible defect, kept to show that a property notices it.    *)
(***************************************************************************)
EXTENDS Integers, Sequences

CONSTANTS
  Iters,         (* iterators, one for each call of the paging method       *)
  Reqs,          (* request messages that belong to callers                 *)
  Transport,     (* Transport[it]: "grpc" or "rest"                         *)
  PageSizeType,  (* type of the page_size field: "int32" or "uint32"        *)
  NItems,        (* length of the server's list                             *)
  MaxInt32,      (* math.MaxInt32, scaled down for model checking           *)
  Tokens,        (* tokens a caller may put in a request                    *)
  ReqSizes,      (* page sizes a caller may put in a request                *)
  AskSizes,      (* page sizes a caller may ask of PageInfo, InternalFetch  *)
  MaxProbes,     (* bound: direct calls of InternalFetch                    *)
  MaxEmpty       (* bound: pages without items that have a next token        *)

NoToken == -1

ASSUME PagingAssumption ==
  /\ Iters \cap Reqs = {}
  /\ Transport \in [Iters -> {"grpc", "rest"}]
  /\ PageSizeType \in {"int32", "uint32"}
  /\ NItems \in Nat
  /\ MaxInt32 \in Nat \ {0}
  /\ Tokens \subseteq 0 .. NItems
  /\ ReqSizes \subseteq Nat
  /\ AskSizes \subseteq Nat
  /\ MaxProbes \in Nat
  /\ MaxEmpty \in Nat

VARIABLES
  pc,        (* what the owner of the iterator is doing                     *)
  heap,      (* request messages: page_token and page_size                  *)
  req,       (* req[it]: the message the InternalFetch closure captured     *)
  asked,     (* asked[it]: the pageSize argument of the fetch in flight     *)
  wire,      (* wire[it]: the request a REST fetch has put in its URL       *)
  items,     (* it.items, the buffer                                        *)
  response,  (* it.Response: the page and who fetched it                    *)
  token,     (* pageInfo.Token                                              *)
  maxSize,   (* pageInfo.MaxSize                                            *)
  atEnd,     (* pageInfo.atEnd                                              *)
  err,       (* pageInfo.err: "none", "Done" or "Failed"                    *)
  seen,      (* history: items delivered by Next                            *)
  start,     (* history: offset of the first page Next asked for, or -1     *)
  wanted,    (* history: offset that PageInfo and the request ask for; -1   *)
             (* once a direct InternalFetch has moved the request's token   *)
  probes,    (* direct InternalFetch calls so far                           *)
  empties    (* pages without items that had a next token                   *)

closureVars  == <<heap, req, asked, wire>>
iterVars     == <<items, response>>
pageInfoVars == <<token, maxSize, atEnd, err>>
historyVars  == <<seen, start, wanted>>
boundVars    == <<probes, empties>>
vars == <<pc, closureVars, iterVars, pageInfoVars, historyVars, boundVars>>

Messages == Reqs \cup Iters
NoMessage == [token |-> NoToken, size |-> 0]
Offset(tok) == IF tok = NoToken THEN 0 ELSE tok

Init ==
  /\ pc = [it \in Iters |-> "none"]
  /\ heap \in [Messages -> {NoMessage}]
  /\ req = [it \in Iters |-> it]
  /\ asked = [it \in Iters |-> 0]
  /\ wire = [it \in Iters |-> NoMessage]
  /\ items = [it \in Iters |-> <<>>]
  /\ response = [it \in Iters |-> [page |-> <<>>, by |-> "none"]]
  /\ token = [it \in Iters |-> NoToken]
  /\ maxSize = [it \in Iters |-> 0]
  /\ atEnd = [it \in Iters |-> FALSE]
  /\ err = [it \in Iters |-> "none"]
  /\ seen = [it \in Iters |-> <<>>]
  /\ start = [it \in Iters |-> -1]
  /\ wanted = [it \in Iters |-> -1]
  /\ probes = 0
  /\ empties = 0

-------------------------------------------------------------------------------
(* The caller's side of the request message.  Nothing forbids a caller to  *)
(* reuse or edit its message once the paging method has returned.          *)
EditRequest(r) ==
  /\ \E tok \in Tokens \cup {NoToken}, size \in ReqSizes :
        heap' = [heap EXCEPT ![r] = [token |-> tok, size |-> size]]
  /\ UNCHANGED <<pc, req, asked, wire, iterVars, pageInfoVars, historyVars, boundVars>>

(* req = proto.Clone(req): the message the closure works on. *)
BadCapturedReq(it, r) == r   (* no clone *)
CapturedReq(it, r) == it

(* The paging method: clones the request, builds the closures, takes MaxSize
   and Token of the new PageInfo from the request. *)
Call(it, r) ==
  /\ pc[it] = "none"
  /\ req' = [req EXCEPT ![it] = CapturedReq(it, r)]
  /\ heap' = [heap EXCEPT ![CapturedReq(it, r)] = heap[r]]
  /\ maxSize' = [maxSize EXCEPT ![it] = heap[r].size]
  /\ token' = [token EXCEPT ![it] = heap[r].token]
  /\ wanted' = [wanted EXCEPT ![it] = Offset(heap[r].token)]
  /\ pc' = [pc EXCEPT ![it] = "idle"]
  /\ UNCHANGED <<asked, wire, iterVars, atEnd, err, seen, start, boundVars>>

(* PageInfo().MaxSize and .Token may be set before the iteration starts.
   An empty Token does not override the token of the request. *)
SetPageInfo(it) ==
  /\ pc[it] = "idle"
  /\ start[it] = -1
  /\ \E tok \in Tokens \cup {NoToken}, size \in AskSizes :
        /\ token' = [token EXCEPT ![it] = tok]
        /\ maxSize' = [maxSize EXCEPT ![it] = size]
        /\ wanted' = [wanted EXCEPT ![it] =
             IF tok # NoToken THEN tok ELSE Offset(heap[req[it]].token)]
  /\ UNCHANGED <<pc, closureVars, iterVars, atEnd, err, seen, start, boundVars>>

-------------------------------------------------------------------------------
(* internalPageSizeSetter: the conversion of an int to the field's type. *)
ToField(n) ==
  LET m == 2 * (MaxInt32 + 1)
  IN  IF PageSizeType = "uint32" THEN n % m
      ELSE ((n + MaxInt32 + 1) % m) - (MaxInt32 + 1)

BadFetchSize(size, old) == IF size # 0 THEN ToField(size) ELSE old   (* no clamp *)
FetchSize(size, old) ==
  IF size > MaxInt32 THEN MaxInt32
  ELSE IF size # 0 THEN ToField(size)
  ELSE old

BadFetchToken(tok, old) == IF old = NoToken THEN tok ELSE old   (* keeps the first *)
FetchToken(tok, old) == IF tok # NoToken THEN tok ELSE old

(* internalFetchSetup: an InternalFetch(size, tok) writes into its message
   and sends it. *)
InternalFetch(it, size, tok) ==
  LET q == heap[req[it]]
      m == [token |-> FetchToken(tok, q.token), size |-> FetchSize(size, q.size)]
  IN  /\ heap' = [heap EXCEPT ![req[it]] = m]
      /\ wire' = [wire EXCEPT ![it] = m]
      /\ asked' = [asked EXCEPT ![it] = size]

(* The request an attempt carries.  REST builds the URL before gax.Invoke;
   gRPC marshals the message again in every attempt. *)
Sent(it) == IF Transport[it] = "rest" THEN wire[it] ELSE heap[req[it]]

(* PageInfo.next loops while the buffer is empty and the end is not known. *)
FetchNextPage(it) ==
  /\ pc[it] = "next"
  /\ items[it] = <<>>
  /\ ~atEnd[it]
  /\ InternalFetch(it, maxSize[it], token[it])
  /\ start' = [start EXCEPT ![it] =
       IF @ = -1 THEN Offset(FetchToken(token[it], heap[req[it]].token)) ELSE @]
  /\ pc' = [pc EXCEPT ![it] = "fetching"]
  /\ UNCHANGED <<req, iterVars, pageInfoVars, seen, wanted, boundVars>>

(* A direct call of the exported InternalFetch field. *)
Probe(it) ==
  /\ pc[it] = "idle"
  /\ probes < MaxProbes
  /\ probes' = probes + 1
  /\ \E size \in AskSizes, tok \in Tokens \cup {NoToken} : InternalFetch(it, size, tok)
  /\ wanted' = [wanted EXCEPT ![it] = IF start[it] = -1 THEN -1 ELSE @]
  /\ pc' = [pc EXCEPT ![it] = "probing"]
  /\ UNCHANGED <<req, iterVars, pageInfoVars, seen, start, empties>>

-------------------------------------------------------------------------------
(* A page the server may answer with: some items from the token's offset,
   no more than a positive page_size, and a next token unless it knows that
   the list is exhausted. *)
Page(off, n) == [i \in 1 .. n |-> off + i]
ServerMayAnswer(q, n, next) ==
  /\ n \in 0 .. NItems - Offset(q.token)
  /\ q.size > 0 => n <= q.size
  /\ next \in {Offset(q.token) + n, NoToken}
  /\ next = NoToken => Offset(q.token) + n = NItems

(* it.Response = resp, only once the call has succeeded. *)
BadResponseOf(it, n, by) == [page |-> <<>>, by |-> by]   (* before the call *)
ResponseOf(it, n, by) == [page |-> Page(Offset(Sent(it).token), n), by |-> by]

(* fetch appends the page to the buffer; InternalFetch only returns it. *)
BadBufferedPage(it, n, by) == Page(Offset(Sent(it).token), n)   (* every fetch *)
BufferedPage(it, n, by) == IF by = "next" THEN Page(Offset(Sent(it).token), n) ELSE <<>>

(* fetch returns resp.GetNextPageToken(), which becomes pageInfo.Token. *)
BadReturnedToken1(it, n, next) == Sent(it).token                      (* the page's own *)
BadReturnedToken2(it, n, next) == IF n = 0 THEN NoToken ELSE next     (* empty means end *)
BadReturnedToken3(it, n, next) == next + 1                            (* off by one *)
ReturnedToken(it, n, next) == next

(* The locals of an InternalFetch go with it; the request keeps its changes. *)
EndFetch(it) ==
  /\ asked' = [asked EXCEPT ![it] = 0]
  /\ wire' = [wire EXCEPT ![it] = NoMessage]
  /\ UNCHANGED <<heap, req>>

By(it) == IF pc[it] = "fetching" THEN "next" ELSE "probe"

Received(it, n, next) ==
  LET tok == ReturnedToken(it, n, next)
  IN  /\ ServerMayAnswer(Sent(it), n, next)
      /\ empties' = IF n = 0 /\ next # NoToken THEN empties + 1 ELSE empties
      /\ empties' <= MaxEmpty
      /\ response' = [response EXCEPT ![it] = ResponseOf(it, n, By(it))]
      /\ items' = [items EXCEPT ![it] = @ \o BufferedPage(it, n, By(it))]
      /\ token' = [token EXCEPT ![it] = IF By(it) = "next" THEN tok ELSE @]
      /\ atEnd' = [atEnd EXCEPT ![it] = IF By(it) = "next" THEN tok = NoToken ELSE @]
      /\ pc' = [pc EXCEPT ![it] = IF By(it) = "next" THEN "next" ELSE "idle"]

FetchSucceeds(it) ==
  /\ pc[it] \in {"fetching", "probing"}
  /\ \E n \in 0 .. NItems, next \in -1 .. NItems : Received(it, n, next)
  /\ EndFetch(it)
  /\ UNCHANGED <<maxSize, err, historyVars, probes>>

(* The call fails for good.  PageInfo.next then drops the buffer (takeBuf)
   and keeps the error. *)
FetchFails(it) ==
  /\ \/ /\ pc[it] = "fetching"
        /\ items' = [items EXCEPT ![it] = <<>>]
        /\ err' = [err EXCEPT ![it] = "Failed"]
     \/ /\ pc[it] = "probing"
        /\ UNCHANGED <<items, err>>
  /\ pc' = [pc EXCEPT ![it] = "idle"]
  /\ EndFetch(it)
  /\ UNCHANGED <<response, token, maxSize, atEnd, historyVars, boundVars>>

-------------------------------------------------------------------------------
(* The owner calls Next.  A cached error is returned at once: no state
   changes, so that call is a stuttering step. *)
CallNext(it) ==
  /\ pc[it] = "idle"
  /\ err[it] = "none"
  /\ pc' = [pc EXCEPT ![it] = "next"]
  /\ UNCHANGED <<closureVars, iterVars, pageInfoVars, historyVars, boundVars>>

(* item = it.items[0]; it.items = it.items[1:] *)
NextReturnsItem(it) ==
  /\ pc[it] = "next"
  /\ items[it] # <<>>
  /\ seen' = [seen EXCEPT ![it] = Append(@, Head(items[it]))]
  /\ items' = [items EXCEPT ![it] = Tail(@)]
  /\ pc' = [pc EXCEPT ![it] = "idle"]
  /\ UNCHANGED <<closureVars, response, pageInfoVars, start, wanted, boundVars>>

NextReturnsDone(it) ==
  /\ pc[it] = "next"
  /\ items[it] = <<>>
  /\ atEnd[it]
  /\ err' = [err EXCEPT ![it] = "Done"]
  /\ pc' = [pc EXCEPT ![it] = "idle"]
  /\ UNCHANGED <<closureVars, iterVars, token, maxSize, atEnd, historyVars, boundVars>>

Iterate(it) == \/ CallNext(it) \/ FetchNextPage(it)
               \/ NextReturnsItem(it) \/ NextReturnsDone(it)

Answer(it) == FetchSucceeds(it) \/ FetchFails(it)

Next ==
  \/ \E r \in Reqs : EditRequest(r) \/ (\E it \in Iters : Call(it, r))
  \/ \E it \in Iters : SetPageInfo(it) \/ Probe(it) \/ Answer(it) \/ Iterate(it)

Spec == Init /\ [][Next]_vars

(* The owner ranges over the iterator (All(), or a loop over Next) and every
   RPC is answered; gax.Invoke's retries are inside one Answer. *)
FairSpec == Spec /\ \A it \in Iters : WF_vars(Iterate(it) \/ Answer(it))

-------------------------------------------------------------------------------
(* Shape of the state: page tokens are offsets into the list, buffers hold
   items of the list, and every message is one of the heap. *)
MessageRecord == [token : -1 .. NItems, size : Int]
ClosureTypes ==
  /\ heap \in [Messages -> MessageRecord]
  /\ req \in [Iters -> Messages]
  /\ asked \in [Iters -> Int]
  /\ wire \in [Iters -> MessageRecord]
IterTypes ==
  /\ items \in [Iters -> Seq(1 .. NItems)]
  /\ response \in [Iters -> [page : Seq(1 .. NItems), by : {"none", "next", "probe"}]]
PageInfoTypes ==
  /\ token \in [Iters -> -1 .. NItems]
  /\ maxSize \in [Iters -> Int]
  /\ atEnd \in [Iters -> BOOLEAN]
  /\ err \in [Iters -> {"none", "Done", "Failed"}]
HistoryTypes ==
  /\ seen \in [Iters -> Seq(1 .. NItems)]
  /\ start \in [Iters -> -1 .. NItems]
  /\ wanted \in [Iters -> -1 .. NItems]
TypeOK ==
  /\ pc \in [Iters -> {"none", "idle", "next", "fetching", "probing"}]
  /\ ClosureTypes /\ IterTypes /\ PageInfoTypes /\ HistoryTypes
  /\ probes \in Nat /\ empties \in Nat

(* Pages are stitched together without a gap or a repetition: what Next has
   delivered, followed by what is buffered, is a contiguous run of the list
   from the first page asked for - whatever page sizes the server chose,
   whatever InternalFetch was called in between. *)
Contiguous ==
  \A it \in Iters :
    /\ \A i \in 1 .. Len(seen[it]) : seen[it][i] = start[it] + i
    /\ \A i \in 1 .. Len(items[it]) : items[it][i] = start[it] + Len(seen[it]) + i

(* iterator.Done means that the run reached the end of the list. *)
DoneMeansExhausted ==
  \A it \in Iters : err[it] = "Done" => start[it] + Len(seen[it]) = NItems

(* The iteration starts where the request stood when the method was called
   (or PageInfo.Token was set), although the caller may have edited or reused
   its message before the first Next. *)
StartAsRequested ==
  \A it \in Iters : start[it] # -1 /\ wanted[it] # -1 => start[it] = wanted[it]

(* What an iterator relies on between its steps; with TypeOK it is inductive.
   Pos(it) items of the list lie before the next one to deliver. *)
Pos(it) == start[it] + Len(seen[it])

Untouched(it) ==      (* before the first page is asked for *)
  start[it] = -1 =>
    /\ seen[it] = <<>> /\ items[it] = <<>> /\ ~atEnd[it]
    /\ err[it] = "none" /\ pc[it] # "fetching"
    /\ pc[it] # "none" /\ wanted[it] # -1
         => wanted[it] = Offset(FetchToken(token[it], heap[it].token))
Stitched(it) ==       (* what was delivered, then what is buffered *)
  /\ \A i \in 1 .. Len(seen[it]) : seen[it][i] = start[it] + i
  /\ \A i \in 1 .. Len(items[it]) : items[it][i] = Pos(it) + i
InFlight(it) ==       (* the fetch under way asks for the page that is due *)
  pc[it] = "fetching" =>
    /\ items[it] = <<>> /\ ~atEnd[it] /\ err[it] = "none"
    /\ Offset(wire[it].token) = Pos(it) /\ Offset(heap[it].token) = Pos(it)
Synchronised(it) ==   (* the token continues the buffer, or the buffer ends the list *)
  start[it] # -1 /\ pc[it] # "fetching" /\ err[it] # "Failed" =>
    IF atEnd[it] THEN Pos(it) + Len(items[it]) = NItems
    ELSE token[it] # NoToken /\ token[it] = Pos(it) + Len(items[it])
Ended(it) ==
  /\ err[it] = "Done" => start[it] # -1 /\ Pos(it) = NItems
  /\ pc[it] = "next" => err[it] = "none"
  /\ start[it] # -1 /\ wanted[it] # -1 => start[it] = wanted[it]
IteratorInv(it) ==
  /\ req[it] = it
  /\ pc[it] = "none" => start[it] = -1
  /\ Untouched(it) /\ Stitched(it) /\ InFlight(it) /\ Synchronised(it) /\ Ended(it)
IInv == TypeOK /\ \A it \in Iters : IteratorInv(it)

(* "Response is the raw response for the current page": as long as Next
   fetched it, the items still to be delivered are the tail of that page. *)
ResponseIsCurrent ==
  \A it \in Iters : response[it].by = "next" =>
    \E k \in 0 .. Len(response[it].page) :
        items[it] = SubSeq(response[it].page, k + 1, Len(response[it].page))

(* "The number of results is no greater than pageSize", also when pageSize
   does not fit the request's field. *)
PageWithinAsked ==
  [][\A it \in Iters :
       asked[it] > 0 /\ response'[it] # response[it]
         => Len(response'[it].page) <= asked[it]]_vars

(* Iterating never writes into a message that belongs to a caller. *)
CallerRequestsUntouched ==
  [][pc' # pc => \A r \in Reqs : heap'[r] = heap[r]]_vars

(* Seen from outside, the iterator is an exactly-once, in-order reading. *)
PL == INSTANCE PagedList WITH
        pos <- [it \in Iters |-> IF start[it] = -1 THEN -1 ELSE start[it] + Len(seen[it])],
        given <- seen,
        outcome <- err
ReadsPagedList == PL!Spec

(* Ranging over an iterator comes to an end, with Done or an error. *)
EveryIterationEnds ==
  \A it \in Iters : pc[it] # "none" ~> err[it] # "none"
===============================================================================
