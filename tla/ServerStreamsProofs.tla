--------------------------- MODULE ServerStreamsProofs ---------------------------
(***************************************************************************)
(* Proofs about ServerStreams, for any number of messages and attempts:    *)
(* type correctness, whose doing the end of the context is, that nothing   *)
(* is delivered to a Recv called after it, and that the stream client      *)
(* implements MessageStream.                                               *)
(***************************************************************************)
EXTENDS ServerStreams, SequenceTheorems, TLAPS

(* What is on the wire or read ahead: items and the end. *)
Things == Items \cup {"end"}

(* Things the server has put on the wire besides the items. *)
Ends == IF closed THEN 1 ELSE 0

(* The things in s stand where the server put them, the first at n + 1. *)
Placed(s, n) ==
  \A i \in 1..Len(s) :
    IF s[i] = "end" THEN closed /\ n + i = Len(sent) + 1
                    ELSE n + i <= Len(sent) /\ s[i] = sent[n + i]

(* Until the stream is over nothing is left out: the decoder's buffer starts
   after what the receiver has seen, the wire after the buffer, and unless the
   connection was lost the wire reaches to what the server did last. *)
Aligned ==
  over = "no" =>
    /\ Placed(buffer, pos)
    /\ Placed(wire, pos + Len(buffer))
    /\ ~broken => pos + Len(buffer) + Len(wire) = Len(sent) + Ends

(* After that no Recv gets anything from the decoder: it is empty and cannot
   be filled, or the context is over and Recv does not ask the decoder. *)
StaysOver ==
  over # "no" => /\ body = "closed"
                 /\ buffer = <<>> \/ (streamCtx = "ended" /\ pc # "decoding")

(* Attempts are left while the stream is opened; only an opened stream has a
   body; only a Recv that found its context alive decodes. *)
Control ==
  /\ pc \in {"idle", "opening"} => tries < MaxAttempts
  /\ pc \in {"idle", "opening"} => body = "none"
  /\ pc = "returning" => body # "none"
  /\ pc = "recv" /\ late => streamCtx = "ended"
  /\ pc = "decoding" => ~late

IInv == TypeOK /\ Control /\ OnlyTheCallerEndsIt /\ StaysOver /\ Aligned

-------------------------------------------------------------------------------
(* Taking the first thing from the buffer leaves the others in their places
   (Delivers, Rejects). *)
LEMMA PlacedTail ==
  ASSUME NEW s \in Seq(Things), NEW n \in Nat, s # <<>>, Placed(s, n)
  PROVE  Placed(Tail(s), n + 1)
<1>1. /\ Tail(s) \in Seq(Things) /\ Len(s) \in Nat
      /\ Len(Tail(s)) = Len(s) - 1
      /\ \A i \in 1..Len(Tail(s)) : Tail(s)[i] = s[i + 1]
  BY HeadTailProperties, LenProperties
<1> SUFFICES ASSUME NEW i \in 1..Len(Tail(s))
             PROVE  IF Tail(s)[i] = "end"
                      THEN closed /\ n + 1 + i = Len(sent) + 1
                      ELSE n + 1 + i <= Len(sent) /\ Tail(s)[i] = sent[n + 1 + i]
  BY DEF Placed
<1>2. i + 1 \in 1..Len(s) /\ n + (i + 1) = n + 1 + i
  BY <1>1
<1> QED BY <1>1, <1>2 DEF Placed

(* The decoder takes the first k things from the wire, or the connection loses
   the others: both parts stay in their places (ReadsAhead, Breaks). *)
LEMMA PlacedSplit ==
  ASSUME NEW s \in Seq(Things), NEW n \in Nat, NEW k \in 0..Len(s), Placed(s, n)
  PROVE  /\ SubSeq(s, 1, k) \in Seq(Things)
         /\ Len(SubSeq(s, 1, k)) = k
         /\ Placed(SubSeq(s, 1, k), n)
         /\ SubSeq(s, k + 1, Len(s)) \in Seq(Things)
         /\ Len(SubSeq(s, k + 1, Len(s))) = Len(s) - k
         /\ Placed(SubSeq(s, k + 1, Len(s)), n + k)
<1>1. /\ Len(s) \in Nat /\ k \in Nat /\ k <= Len(s)
      /\ \A i \in 1..Len(s) : s[i] \in Things
  BY LenProperties, ElementOfSeq
<1> DEFINE front == SubSeq(s, 1, k)
           rest == SubSeq(s, k + 1, Len(s))
<1>2. /\ front \in Seq(Things) /\ Len(front) = k
      /\ \A i \in 1..k : front[i] = s[i]
  <2>1. \A i \in 1..k : s[i] \in Things
    BY <1>1
  <2>2. /\ front \in Seq(Things)
        /\ Len(front) = IF 1 <= k THEN k - 1 + 1 ELSE 0
        /\ \A i \in 1..(k - 1 + 1) : front[i] = s[1 + i - 1]
    BY <2>1, <1>1, SubSeqProperties
  <2> QED BY <2>2, <1>1
<1>3. /\ rest \in Seq(Things) /\ Len(rest) = Len(s) - k
      /\ \A i \in 1..(Len(s) - k) : rest[i] = s[k + i]
  <2>1. \A i \in (k + 1)..Len(s) : s[i] \in Things
    BY <1>1
  <2>2. /\ rest \in Seq(Things)
        /\ Len(rest) = IF k + 1 <= Len(s) THEN Len(s) - (k + 1) + 1 ELSE 0
        /\ \A i \in 1..(Len(s) - (k + 1) + 1) : rest[i] = s[k + 1 + i - 1]
    BY <2>1, <1>1, SubSeqProperties
  <2>3. /\ Len(s) - (k + 1) + 1 = Len(s) - k
        /\ \A i \in 1..(Len(s) - k) : k + 1 + i - 1 = k + i
    BY <1>1
  <2> HIDE DEF rest
  <2>4. Len(rest) = Len(s) - k
    BY <2>2, <1>1
  <2>5. ASSUME NEW i \in 1..(Len(s) - k)
        PROVE  rest[i] = s[k + i]
    BY <2>2, <2>3
  <2> QED BY <2>2, <2>4, <2>5
<1>4. Placed(front, n)
  BY <1>1, <1>2 DEF Placed
<1>5. Placed(rest, n + k)
  <2> SUFFICES ASSUME NEW i \in 1..(Len(s) - k)
               PROVE  IF rest[i] = "end"
                        THEN closed /\ n + k + i = Len(sent) + 1
                        ELSE n + k + i <= Len(sent) /\ rest[i] = sent[n + k + i]
    BY <1>3 DEF Placed
  <2>1. k + i \in 1..Len(s) /\ n + (k + i) = n + k + i
    BY <1>1
  <2> QED BY <1>3, <2>1 DEF Placed
<1> QED BY <1>2, <1>3, <1>4, <1>5

(* What the types of the sequences say about their lengths and elements. *)
LEMMA Lengths ==
  ASSUME TypeOK
  PROVE  /\ Len(sent) \in Nat /\ Len(wire) \in Nat /\ Len(buffer) \in Nat
         /\ pos \in Nat /\ MaxItems \in Nat /\ MaxAttempts \in Nat \ {0}
         /\ buffer # <<>> => /\ Len(buffer) > 0 /\ Head(buffer) = buffer[1]
                             /\ Head(buffer) \in Things
  BY LenProperties, EmptySeq, HeadTailProperties, StreamAssumption DEF TypeOK, Things

-------------------------------------------------------------------------------
(* The invariant holds before the call (Init). *)
LEMMA InitIInv == Init => IInv
<1> SUFFICES ASSUME Init PROVE IInv
  OBVIOUS
<1>1. /\ sent = <<>> /\ wire = <<>> /\ buffer = <<>>
      /\ Len(sent) = 0 /\ Len(wire) = 0 /\ Len(buffer) = 0
      /\ sent \in Seq(Items) /\ wire \in Seq(Things) /\ buffer \in Seq(Things)
  BY EmptySeq DEF Init
<1>2. TypeOK
  <2>1. /\ sent \in Seq(Items) /\ Len(sent) <= MaxItems
        /\ wire \in Seq(Items \cup {"end"}) /\ buffer \in Seq(Items \cup {"end"})
    BY <1>1, StreamAssumption DEF Things
  <2>2. tries \in 0..MaxAttempts /\ pos \in 0..MaxItems
    BY StreamAssumption DEF Init
  <2> QED BY <2>1, <2>2 DEF Init, TypeOK
<1>3. Control /\ OnlyTheCallerEndsIt /\ StaysOver
  BY StreamAssumption DEF Init, Control, OnlyTheCallerEndsIt, StaysOver
<1>4. Aligned
  BY <1>1 DEF Init, Aligned, Placed, Ends
<1> QED BY <1>2, <1>3, <1>4 DEF IInv

(* Steps that open the stream, end its context, start a Recv or find that it
   has failed move nothing from the server to the receiver. *)
LEMMA ControlSteps ==
  ASSUME IInv,
         \/ Invoke \/ AttemptFails \/ AttemptSucceeds \/ Expires \/ InvokeReturns \/ Cancel
         \/ Recv \/ ContextError \/ ContextLives \/ ReadFails
  PROVE  IInv'
<1> USE StreamAssumption DEF configVars, serverVars, clientVars
<1> DEFINE Same == UNCHANGED <<sent, closed, wire, broken, buffer, pos>>
<1>1. TypeOK' /\ Control' /\ OnlyTheCallerEndsIt' /\ StaysOver' /\ Same
      /\ (over' = over \/ over' # "no")
  <2> USE DEF IInv, TypeOK, Control, OnlyTheCallerEndsIt, StaysOver
  <2>1. CASE Invoke BY <2>1 DEF Invoke
  <2>2. CASE AttemptFails BY <2>2 DEF AttemptFails
  <2>3. CASE AttemptSucceeds BY <2>3 DEF AttemptSucceeds
  <2>4. CASE Expires BY <2>4 DEF Expires, HasTimeout, AppliesDefaults, DefaultTimeout
  <2>5. CASE InvokeReturns
    BY <2>5 DEF InvokeReturns, HasTimeout, AppliesDefaults, DefaultTimeout
  <2>6. CASE Cancel BY <2>6 DEF Cancel
  <2>7. CASE Recv BY <2>7 DEF Recv
  <2>8. CASE ContextError BY <2>8 DEF ContextError, ReturnError, ContextIsOver
  <2>9. CASE ContextLives BY <2>9 DEF ContextLives, ContextIsOver
  <2>10. CASE ReadFails BY <2>10 DEF ReadFails, ReturnError
  <2> QED BY <2>1, <2>2, <2>3, <2>4, <2>5, <2>6, <2>7, <2>8, <2>9, <2>10
<1>2. Aligned'
  BY <1>1 DEF IInv, Aligned, Placed, Ends
<1> QED BY <1>1, <1>2 DEF IInv

(* The server sends: the item is the last on the wire, unless the connection is
   lost. *)
LEMMA ServerSendsStep == ASSUME IInv, ServerSends PROVE IInv'
<1> USE DEF IInv, configVars, clientVars
<1> PICK item \in Items : /\ sent' = Append(sent, item)
                          /\ wire' = IF broken THEN wire ELSE Append(wire, item)
  BY DEF ServerSends
<1>1. /\ Len(sent) \in Nat /\ Len(wire) \in Nat /\ Len(buffer) \in Nat /\ pos \in Nat
      /\ MaxItems \in Nat
  BY Lengths
<1>2. /\ sent' \in Seq(Items) /\ Len(sent') = Len(sent) + 1 /\ sent'[Len(sent) + 1] = item
      /\ \A i \in 1..Len(sent) : sent'[i] = sent[i]
  BY AppendProperties DEF TypeOK
<1>3. /\ Append(wire, item) \in Seq(Things) /\ Len(Append(wire, item)) = Len(wire) + 1
      /\ Append(wire, item)[Len(wire) + 1] = item
      /\ \A i \in 1..Len(wire) : Append(wire, item)[i] = wire[i]
  BY AppendProperties DEF TypeOK, Things
<1>4. TypeOK'
  <2>1. Len(sent') <= MaxItems /\ wire' \in Seq(Items \cup {"end"})
    BY <1>1, <1>2, <1>3 DEF TypeOK, Things, ServerSends
  <2> QED BY <1>2, <2>1 DEF TypeOK, ServerSends
<1>5. Control' /\ OnlyTheCallerEndsIt' /\ StaysOver'
  BY DEF ServerSends, Control, OnlyTheCallerEndsIt, StaysOver
<1>6. ASSUME over = "no" PROVE Placed(buffer, pos)'
  BY <1>1, <1>2, <1>6 DEF ServerSends, Aligned, Placed
<1>7. ASSUME over = "no" PROVE Placed(wire, pos + Len(buffer))'
  <2>1. CASE broken
    <3>1. /\ Placed(wire, pos + Len(buffer)) /\ ~closed
          /\ UNCHANGED <<wire, pos, buffer, closed>>
      BY <1>7, <2>1 DEF ServerSends, Aligned
    <3>2. \A i \in 1..Len(wire) :
            /\ pos + Len(buffer) + i <= Len(sent)
            /\ wire[i] # "end" /\ wire[i] = sent[pos + Len(buffer) + i]
            /\ pos + Len(buffer) + i \in 1..Len(sent)
      BY <1>1, <3>1 DEF Placed
    <3> QED BY <1>1, <1>2, <3>1, <3>2 DEF Placed
  <2>2. CASE ~broken
    <3>1. /\ pos + Len(buffer) + Len(wire) = Len(sent) /\ item # "end"
          /\ wire' = Append(wire, item) /\ UNCHANGED <<pos, buffer, closed>> /\ ~closed
      BY <1>1, <1>7, <2>2 DEF ServerSends, Aligned, Items, Ends
    <3> SUFFICES ASSUME NEW i \in 1..(Len(wire) + 1)
                 PROVE  IF wire'[i] = "end"
                          THEN closed /\ pos + Len(buffer) + i = Len(sent') + 1
                          ELSE /\ pos + Len(buffer) + i <= Len(sent')
                               /\ wire'[i] = sent'[pos + Len(buffer) + i]
      BY <1>3, <3>1 DEF Placed
    <3>2. CASE i = Len(wire) + 1
      BY <1>1, <1>2, <1>3, <3>1, <3>2
    <3>3. CASE i \in 1..Len(wire)
      BY <1>1, <1>2, <1>3, <1>7, <3>1, <3>3 DEF Aligned, Placed
    <3> QED BY <1>1, <3>2, <3>3
  <2> QED BY <2>1, <2>2 DEF TypeOK
<1>8. Aligned'
  <2>1. UNCHANGED <<pos, buffer, broken, over>> /\ Ends' = 0 /\ Ends = 0
    BY DEF ServerSends, Ends
  <2>2. ASSUME over = "no", ~broken
        PROVE  pos + Len(buffer) + Len(wire') = Len(sent')
    <3>1. wire' = Append(wire, item) /\ pos + Len(buffer) + Len(wire) = Len(sent)
      BY <1>1, <2>1, <2>2 DEF ServerSends, Aligned
    <3> DEFINE w == Len(wire)
               b == Len(buffer)
               m == Len(sent)
    <3>2. Len(wire') = w + 1 /\ Len(sent') = m + 1
      BY <1>2, <1>3, <3>1
    <3>3. pos + b + (w + 1) = m + 1
      <4>1. pos \in Nat /\ b \in Nat /\ w \in Nat /\ m \in Nat /\ pos + b + w = m
        BY <1>1, <3>1
      <4> HIDE DEF w, b, m, IInv
      <4> QED BY <4>1
    <3> QED BY <3>2, <3>3
  <2> QED BY <1>1, <1>2, <1>6, <1>7, <2>1, <2>2 DEF Aligned
<1> QED BY <1>4, <1>5, <1>8

(* The server ends the stream: its end is the last on the wire. *)
LEMMA ServerClosesStep == ASSUME IInv, ServerCloses PROVE IInv'
<1> USE DEF IInv, configVars, clientVars
<1>1. /\ Len(sent) \in Nat /\ Len(wire) \in Nat /\ Len(buffer) \in Nat /\ pos \in Nat
  BY Lengths
<1>2. /\ Append(wire, "end") \in Seq(Things) /\ Len(Append(wire, "end")) = Len(wire) + 1
      /\ Append(wire, "end")[Len(wire) + 1] = "end"
      /\ \A i \in 1..Len(wire) : Append(wire, "end")[i] = wire[i]
  BY AppendProperties DEF TypeOK, Things
<1>3. TypeOK'
  <2>1. wire' \in Seq(Items \cup {"end"})
    BY <1>2 DEF TypeOK, Things, ServerCloses
  <2> QED BY <2>1 DEF TypeOK, ServerCloses
<1>4. Control' /\ OnlyTheCallerEndsIt' /\ StaysOver'
  BY DEF ServerCloses, Control, OnlyTheCallerEndsIt, StaysOver
<1>5. ASSUME over = "no" PROVE Placed(buffer, pos)'
  BY <1>1, <1>5 DEF ServerCloses, Aligned, Placed
<1>6. ASSUME over = "no" PROVE Placed(wire, pos + Len(buffer))'
  <2>1. CASE broken
    BY <1>1, <1>6, <2>1 DEF ServerCloses, Aligned, Placed
  <2>2. CASE ~broken
    <3>1. /\ pos + Len(buffer) + Len(wire) = Len(sent)
          /\ wire' = Append(wire, "end") /\ UNCHANGED <<pos, buffer, sent>> /\ closed'
      BY <1>1, <1>6, <2>2 DEF ServerCloses, Aligned, Ends
    <3> SUFFICES ASSUME NEW i \in 1..(Len(wire) + 1)
                 PROVE  IF wire'[i] = "end"
                          THEN pos + Len(buffer) + i = Len(sent) + 1
                          ELSE /\ pos + Len(buffer) + i <= Len(sent)
                               /\ wire'[i] = sent[pos + Len(buffer) + i]
      BY <1>2, <3>1 DEF Placed
    <3>2. CASE i = Len(wire) + 1
      BY <1>1, <1>2, <3>1, <3>2
    <3>3. CASE i \in 1..Len(wire)
      BY <1>1, <1>2, <1>6, <3>1, <3>3 DEF Aligned, Placed
    <3> QED BY <1>1, <3>2, <3>3
  <2> QED BY <2>1, <2>2 DEF TypeOK
<1>7. Aligned'
  <2>1. UNCHANGED <<pos, buffer, broken, over, sent>> /\ Ends' = 1 /\ Ends = 0
    BY DEF ServerCloses, Ends
  <2>2. ASSUME over = "no", ~broken
        PROVE  pos + Len(buffer) + Len(wire') = Len(sent) + 1
    <3>1. wire' = Append(wire, "end") /\ pos + Len(buffer) + Len(wire) = Len(sent)
      BY <1>1, <2>1, <2>2 DEF ServerCloses, Aligned
    <3> QED BY <1>1, <1>2, <3>1
  <2> QED BY <1>5, <1>6, <2>1, <2>2 DEF Aligned
<1> QED BY <1>3, <1>4, <1>7

(* The connection breaks: what still arrives is in its place. *)
LEMMA BreaksStep == ASSUME IInv, Breaks PROVE IInv'
<1> USE DEF IInv, configVars, clientVars
<1> PICK n \in 0..Len(wire) : wire' = SubSeq(wire, 1, n)
  BY DEF Breaks
<1>1. Len(wire) \in Nat /\ Len(buffer) \in Nat /\ pos \in Nat /\ wire \in Seq(Things)
  BY Lengths DEF TypeOK, Things
<1>2. wire' \in Seq(Items \cup {"end"})
  <2>1. SubSeq(wire, 1, n) \in Seq(Things)
    <3>1. \A i \in 1..n : wire[i] \in Things
      BY <1>1, ElementOfSeq
    <3> QED BY <1>1, <3>1, SubSeqProperties
  <2> QED BY <2>1 DEF Things
<1>3. TypeOK'
  BY <1>2 DEF TypeOK, Breaks
<1>4. Control' /\ OnlyTheCallerEndsIt' /\ StaysOver'
  BY DEF Breaks, Control, OnlyTheCallerEndsIt, StaysOver
<1>5. ASSUME over = "no" PROVE Placed(buffer, pos)' /\ Placed(wire, pos + Len(buffer))'
  <2>1. Placed(SubSeq(wire, 1, n), pos + Len(buffer)) /\ Placed(buffer, pos)
    BY <1>1, <1>5, PlacedSplit DEF Aligned
  <2> QED BY <2>1 DEF Breaks, Placed
<1>6. Aligned'
  BY <1>5 DEF Breaks, Aligned
<1> QED BY <1>3, <1>4, <1>6

(* The decoder reads ahead: what it takes off the wire follows what the receiver
   has seen. *)
LEMMA ReadsAheadStep == ASSUME IInv, ReadsAhead PROVE IInv'
<1> USE DEF IInv, configVars
<1> PICK n \in 1..Len(wire) : /\ buffer' = SubSeq(wire, 1, n)
                              /\ wire' = SubSeq(wire, n + 1, Len(wire))
  BY DEF ReadsAhead
<1>1. /\ Len(wire) \in Nat /\ Len(sent) \in Nat /\ pos \in Nat /\ wire \in Seq(Things)
      /\ n \in 0..Len(wire)
  BY Lengths DEF TypeOK, Things
<1>2. over = "no" /\ Len(buffer) = 0 /\ Placed(wire, pos)
  BY <1>1, EmptySeq DEF ReadsAhead, StaysOver, Aligned
<1>3. /\ SubSeq(wire, 1, n) \in Seq(Things) /\ Len(SubSeq(wire, 1, n)) = n
      /\ Placed(SubSeq(wire, 1, n), pos)
      /\ SubSeq(wire, n + 1, Len(wire)) \in Seq(Things)
      /\ Len(SubSeq(wire, n + 1, Len(wire))) = Len(wire) - n
      /\ Placed(SubSeq(wire, n + 1, Len(wire)), pos + n)
  BY <1>1, <1>2, PlacedSplit
<1>4. TypeOK'
  BY <1>3 DEF TypeOK, Things, ReadsAhead
<1>5. Control' /\ OnlyTheCallerEndsIt' /\ StaysOver'
  BY <1>2 DEF ReadsAhead, Control, OnlyTheCallerEndsIt, StaysOver
<1>6. Placed(buffer, pos)' /\ Placed(wire, pos + Len(buffer))'
  BY <1>3 DEF ReadsAhead, Placed
<1>7. ~broken' => pos' + Len(buffer') + Len(wire') = Len(sent') + Ends'
  <2>1. UNCHANGED <<pos, sent, broken>> /\ n \in Nat /\ Ends' = Ends /\ Ends \in Nat
    BY <1>1 DEF ReadsAhead, Ends
  <2>2. ~broken => pos + Len(wire) = Len(sent) + Ends
    BY <1>1, <1>2 DEF Aligned
  <2>3. Len(buffer') = n /\ Len(wire') = Len(wire) - n
    BY <1>3
  <2> DEFINE w == Len(wire)
             m == Len(sent)
  <2>4. ASSUME ~broken PROVE pos + n + (w - n) = m + Ends
    <3>1. w \in Nat /\ pos + w = m + Ends
      BY <1>1, <2>2, <2>4
    <3>2. pos \in Nat /\ n \in Nat /\ Ends \in Nat /\ m \in Nat
      BY <1>1, <2>1
    <3> HIDE DEF w, m, IInv
    <3> QED BY <3>1, <3>2
  <2> QED BY <2>1, <2>3, <2>4
<1>8. Aligned'
  BY <1>6, <1>7 DEF Aligned
<1> QED BY <1>4, <1>5, <1>8

-------------------------------------------------------------------------------
(* While Recv decodes and the decoder holds something, the stream is not over,
   and what comes first is what the server put there. *)
LEMMA HeadInPlace ==
  ASSUME IInv, pc = "decoding", buffer # <<>>
  PROVE  /\ over = "no" /\ ~late /\ body # "none" /\ Placed(buffer, pos)
         /\ IF Head(buffer) = "end"
              THEN closed /\ pos = Len(sent) /\ Len(buffer) = 1
              ELSE pos < Len(sent) /\ Head(buffer) = sent[pos + 1]
<1>1. over = "no" /\ ~late /\ body # "none" /\ Placed(buffer, pos)
  BY DEF IInv, TypeOK, Control, StaysOver, Aligned
<1>2. /\ Len(buffer) \in Nat /\ Len(buffer) > 0 /\ Len(sent) \in Nat /\ pos \in Nat
      /\ Head(buffer) = buffer[1]
  BY Lengths DEF IInv
<1>3. IF Head(buffer) = "end" THEN closed /\ pos + 1 = Len(sent) + 1
                              ELSE pos + 1 <= Len(sent) /\ Head(buffer) = sent[pos + 1]
  BY <1>1, <1>2 DEF Placed
<1>4. Head(buffer) = "end" => Len(buffer) = 1
  <2> SUFFICES ASSUME Head(buffer) = "end", Len(buffer) # 1 PROVE FALSE
    OBVIOUS
  <2>1. pos + 1 = Len(sent) + 1
    BY <1>3
  <2> DEFINE m == Len(buffer)
  <2>2. m \in Nat /\ m > 0 /\ m # 1
    BY <1>2
  <2>3. 2 \in 1..m
    <3> HIDE DEF m
    <3> QED BY <2>2
  <2>4. pos + 2 = Len(sent) + 1 \/ pos + 2 <= Len(sent)
    BY <1>1, <2>3 DEF Placed
  <2>5. pos \in Nat /\ Len(sent) \in Nat
    BY <1>2
  <2> QED BY <2>1, <2>4, <2>5
<1> QED BY <1>1, <1>2, <1>3, <1>4

(* The decoder without its first thing. *)
LEMMA RestInPlace ==
  ASSUME IInv, pc = "decoding", buffer # <<>>
  PROVE  /\ Tail(buffer) \in Seq(Items \cup {"end"})
         /\ Len(Tail(buffer)) = Len(buffer) - 1
         /\ Len(buffer) \in Nat \ {0} /\ Len(wire) \in Nat /\ Len(sent) \in Nat /\ pos \in Nat
         /\ Placed(Tail(buffer), pos + 1)
         /\ Placed(wire, pos + 1 + Len(Tail(buffer)))
         /\ ~broken => pos + 1 + Len(Tail(buffer)) + Len(wire)
                         = Len(sent) + Ends
<1>1. over = "no" /\ Placed(buffer, pos)
  BY HeadInPlace
<1>2. /\ buffer \in Seq(Things) /\ Len(buffer) \in Nat \ {0} /\ Len(wire) \in Nat
      /\ Len(sent) \in Nat /\ pos \in Nat
  BY Lengths DEF IInv, TypeOK, Things
<1>3. Tail(buffer) \in Seq(Things) /\ Len(Tail(buffer)) = Len(buffer) - 1
  BY <1>2, HeadTailProperties
<1>4. Placed(Tail(buffer), pos + 1)
  BY <1>1, <1>2, PlacedTail
<1>5. pos + 1 + Len(Tail(buffer)) = pos + Len(buffer)
  BY <1>2, <1>3
<1>6. /\ Placed(wire, pos + Len(buffer))
      /\ ~broken => pos + Len(buffer) + Len(wire) = Len(sent) + Ends
  BY <1>1 DEF IInv, Aligned
<1> QED BY <1>2, <1>3, <1>4, <1>5, <1>6 DEF Things

(* Recv returns a message. *)
LEMMA DeliversStep == ASSUME IInv, Delivers PROVE IInv'
<1>1. /\ over = "no" /\ body # "none" /\ pos < Len(sent)
  BY HeadInPlace DEF Delivers
<1>2. /\ Tail(buffer) \in Seq(Items \cup {"end"}) /\ Len(sent) \in Nat /\ pos \in Nat
      /\ Placed(Tail(buffer), pos + 1) /\ Placed(wire, pos + 1 + Len(Tail(buffer)))
      /\ ~broken => pos + 1 + Len(Tail(buffer)) + Len(wire)
                      = Len(sent) + Ends
  BY RestInPlace DEF Delivers
<1>3. /\ buffer' = Tail(buffer) /\ pos' = pos + 1 /\ pc' = "open"
      /\ UNCHANGED <<configVars, callerCtx, streamCtx, tries, serverVars, body, over, late>>
  BY DEF Delivers
<1>4. TypeOK'
  <2>1. pos' \in 0..MaxItems
    BY <1>1, <1>2, <1>3, StreamAssumption DEF IInv, TypeOK
  <2> QED BY <1>1, <1>2, <1>3, <2>1 DEF IInv, TypeOK, configVars, serverVars
<1>5. Control' /\ OnlyTheCallerEndsIt' /\ StaysOver'
  BY <1>1, <1>3 DEF IInv, Control, OnlyTheCallerEndsIt, StaysOver, configVars
<1>6. Aligned'
  BY <1>2, <1>3 DEF Aligned, Placed, Ends, serverVars
<1> QED BY <1>4, <1>5, <1>6 DEF IInv

(* Recv returns the error about a message that cannot be read. *)
LEMMA RejectsStep == ASSUME IInv, Rejects PROVE IInv'
<1>1. over = "no" /\ pos < Len(sent) /\ sent[pos + 1] = "bad"
  BY HeadInPlace DEF Rejects
<1>2. /\ Tail(buffer) \in Seq(Items \cup {"end"}) /\ Len(sent) \in Nat /\ pos \in Nat
      /\ Placed(Tail(buffer), pos + 1) /\ Placed(wire, pos + 1 + Len(Tail(buffer)))
      /\ ~broken => pos + 1 + Len(Tail(buffer)) + Len(wire)
                      = Len(sent) + Ends
  BY RestInPlace DEF Rejects
<1>3. /\ buffer' = IF transport = "grpc" THEN <<>> ELSE Tail(buffer)
      /\ over' = IF transport = "grpc" THEN "failure" ELSE "no"
      /\ pos' = pos + 1 /\ pc' = "open" /\ body' = "closed"
      /\ UNCHANGED <<configVars, callerCtx, streamCtx, tries, serverVars, late>>
  BY <1>1 DEF Rejects, ReturnError
<1>4. TypeOK'
  <2>1. pos' \in 0..MaxItems
    BY <1>1, <1>2, <1>3, StreamAssumption DEF IInv, TypeOK
  <2>2. buffer' \in Seq(Items \cup {"end"})
    BY <1>2, <1>3, EmptySeq
  <2> QED BY <1>3, <2>1, <2>2 DEF IInv, TypeOK, configVars, serverVars
<1>5. Control' /\ OnlyTheCallerEndsIt' /\ StaysOver'
  BY <1>3 DEF IInv, Control, OnlyTheCallerEndsIt, StaysOver, configVars
<1>6. Aligned'
  BY <1>2, <1>3 DEF Aligned, Placed, Ends, serverVars
<1> QED BY <1>4, <1>5, <1>6 DEF IInv

(* Recv returns io.EOF. *)
LEMMA EndOfStreamStep == ASSUME IInv, EndOfStream PROVE IInv'
<1>1. over = "no" /\ Len(buffer) = 1
  BY HeadInPlace DEF EndOfStream
<1>2. Tail(buffer) = <<>>
  BY <1>1, RestInPlace, EmptySeq DEF EndOfStream
<1>3. /\ buffer' = <<>> /\ over' = "end" /\ pc' = "open" /\ body' = "closed"
      /\ UNCHANGED <<configVars, callerCtx, streamCtx, tries, serverVars, pos, late>>
  BY <1>1, <1>2 DEF EndOfStream, ReturnError
<1>4. TypeOK'
  BY <1>3, EmptySeq DEF IInv, TypeOK, configVars, serverVars
<1>5. Control' /\ OnlyTheCallerEndsIt' /\ StaysOver' /\ Aligned'
  BY <1>3 DEF IInv, Control, OnlyTheCallerEndsIt, StaysOver, Aligned, configVars
<1> QED BY <1>4, <1>5 DEF IInv

-------------------------------------------------------------------------------
(* The invariant holds always: of the state of a client and its server, however
   the steps of the two, of the connection and of the caller mix. *)
THEOREM InvariantHolds == Spec => []IInv
<1>1. Init => IInv
  BY InitIInv
<1>2. IInv /\ [Next]_vars => IInv'
  <2> SUFFICES ASSUME IInv, [Next]_vars PROVE IInv'
    OBVIOUS
  <2>1. CASE UNCHANGED vars
    BY <2>1 DEF vars, IInv, TypeOK, Control, OnlyTheCallerEndsIt, StaysOver, Aligned, Placed,
                Ends
  <2>2. CASE ServerSends BY <2>2, ServerSendsStep
  <2>3. CASE ServerCloses BY <2>3, ServerClosesStep
  <2>4. CASE Breaks BY <2>4, BreaksStep
  <2>5. CASE ReadsAhead BY <2>5, ReadsAheadStep
  <2>6. CASE Delivers BY <2>6, DeliversStep
  <2>7. CASE Rejects BY <2>7, RejectsStep
  <2>8. CASE EndOfStream BY <2>8, EndOfStreamStep
  <2>9. CASE \/ Invoke \/ AttemptFails \/ AttemptSucceeds \/ Expires \/ InvokeReturns
             \/ Cancel \/ Recv \/ ContextError \/ ContextLives \/ ReadFails
    BY <2>9, ControlSteps
  <2> QED BY <2>1, <2>2, <2>3, <2>4, <2>5, <2>6, <2>7, <2>8, <2>9 DEF Next, ReceiverStep
<1> QED BY <1>1, <1>2, PTL DEF Spec

(* Every variable has its type; whoever receives has a stream to receive from. *)
THEOREM TypeCorrect == Spec => []TypeOK
<1>1. IInv => TypeOK
  BY DEF IInv
<1> QED BY <1>1, InvariantHolds, PTL

(* The context of an open stream ends only by the caller's doing: a timeout that
   the service config declares reaches no stream, over either transport. *)
THEOREM ContextIsTheCallers == Spec => []OnlyTheCallerEndsIt
<1>1. IInv => OnlyTheCallerEndsIt
  BY DEF IInv
<1> QED BY <1>1, InvariantHolds, PTL

(* The receiver's position moves only where the decoder gives something out or
   rejects it, and that in a Recv that found its context alive. *)
LEMMA OnlyDecodingMoves ==
  ASSUME IInv, [Next]_vars, pos' # pos
  PROVE  (Delivers \/ Rejects) /\ ~late
<1>1. Delivers \/ Rejects
  <2> USE DEF vars, clientVars
  <2>1. CASE UNCHANGED vars BY <2>1
  <2>2. CASE \/ Invoke \/ AttemptFails \/ AttemptSucceeds \/ Expires \/ InvokeReturns
             \/ Cancel \/ ServerSends \/ ServerCloses \/ Breaks
    BY <2>2 DEF Invoke, AttemptFails, AttemptSucceeds, Expires, InvokeReturns, Cancel,
                ServerSends, ServerCloses, Breaks
  <2>3. CASE \/ Recv \/ ContextError \/ ContextLives \/ EndOfStream \/ ReadsAhead \/ ReadFails
    BY <2>3 DEF Recv, ContextError, ContextLives, EndOfStream, ReadsAhead, ReadFails
  <2> QED BY <2>1, <2>2, <2>3 DEF Next, ReceiverStep
<1> QED BY <1>1, HeadInPlace DEF Delivers, Rejects

(* A Recv that is called after the context has ended returns no message, even
   when the decoder holds some. *)
THEOREM CancelledReceivesNothing == Spec => NothingAfterCancel
<1>1. IInv /\ [Next]_vars => [pos' # pos => ~late]_vars
  BY OnlyDecodingMoves
<1> QED BY <1>1, InvariantHolds, PTL DEF Spec, NothingAfterCancel

(* Messages arrive in order, none twice and none left out, and io.EOF means that
   the server has sent no more: the stream client implements MessageStream. *)
THEOREM ImplementsMessageStream == Spec => ReceivesStream
<1> DEFINE streamVars == <<sent, closed, pos, over>>
<1>1. Init => Stream!Init
  BY DEF Init, Stream!Init
<1>2. IInv /\ [Next]_vars => [Stream!Next]_streamVars
  <2> SUFFICES ASSUME IInv, [Next]_vars PROVE [Stream!Next]_streamVars
    OBVIOUS
  <2> USE DEF Stream!Next
  <2>1. CASE ServerSends
    BY <2>1 DEF ServerSends, clientVars, Stream!Send
  <2>2. CASE ServerCloses
    BY <2>2 DEF ServerCloses, clientVars, Stream!Close
  <2>3. CASE Delivers
    BY <2>3, HeadInPlace DEF Delivers, serverVars, Stream!Report
  <2>4. CASE Rejects
    <3>1. over = "no" /\ pos < Len(sent) /\ sent[pos + 1] = "bad"
      BY <2>4, HeadInPlace DEF Rejects
    <3>2. /\ over' = IF transport = "grpc" THEN "failure" ELSE "no"
          /\ pos' = pos + 1 /\ UNCHANGED <<sent, closed>>
      BY <2>4, <3>1 DEF Rejects, ReturnError, serverVars
    <3> QED BY <3>1, <3>2 DEF Stream!Report, Stream!Fail
  <2>5. CASE EndOfStream
    BY <2>5, HeadInPlace DEF EndOfStream, ReturnError, serverVars, Stream!End
  <2>6. CASE ContextError \/ ReadFails
    <3>1. /\ UNCHANGED <<sent, closed, pos>>
          /\ over' = IF over = "no" THEN "failure" ELSE over
      BY <2>6 DEF ContextError, ReadFails, ReturnError, serverVars
    <3> QED BY <3>1 DEF Stream!Fail
  <2>7. CASE \/ UNCHANGED vars
             \/ Invoke \/ AttemptFails \/ AttemptSucceeds \/ Expires \/ InvokeReturns \/ Cancel
             \/ Breaks \/ Recv \/ ContextLives \/ ReadsAhead
    BY <2>7 DEF vars, clientVars, serverVars, Invoke, AttemptFails, AttemptSucceeds, Expires,
                InvokeReturns, Cancel, Breaks, Recv, ContextLives, ReadsAhead
  <2> QED BY <2>1, <2>2, <2>3, <2>4, <2>5, <2>6, <2>7 DEF Next, ReceiverStep
<1> QED BY <1>1, <1>2, InvariantHolds, PTL DEF Spec, ReceivesStream, Stream!Spec
==================================================================================
