--------------------------- MODULE TranscodingProofs ---------------------------
(***************************************************************************)
(* Proofs about Transcoding, for every set of messages, bindings, routing  *)
(* parameters, patterns and values that satisfies TranscodingAssumption:   *)
(* where each field of a request is sent, which routing headers go with    *)
(* it, and which resource it names.                                        *)
(*                                                                         *)
(* When a part of the emitted method has run, its result is what the       *)
(* generator's functions define (Computed); the rest is about those        *)
(* functions.  Most of them are loops, written as recursive functions over *)
(* 0..n.  For each loop there is a lemma that such a function exists,      *)
(* hence that the CHOOSE behind its definition finds it; what the loop     *)
(* computes is then proved by induction over its turns (Induct).           *)
(***************************************************************************)
EXTENDS Transcoding, SequenceTheorems, FiniteSetTheorems, WellFoundedInduction, TLAPS

-------------------------------------------------------------------------------
(* Induction over the natural numbers, for a set: from the well-foundedness of
   <, a set without a least counterexample has none. *)
LEMMA Induct ==
  ASSUME NEW S, 0 \in S, \A n \in Nat : n \in S => n + 1 \in S
  PROVE  Nat \subseteq S
<1> DEFINE R == OpToRel(<, Nat)
           T == Nat \ S
<1>1. IsWellFoundedOn(R, Nat)
  BY NatLessThanWellFounded
<1>2. \A x, y \in Nat : x < y => <<x, y>> \in R
  BY DEF OpToRel
<1> HIDE DEF R
<1>3. CASE T # {}
  <2>1. PICK x \in T : \A y \in T : <<y, x>> \notin R
    <3> HIDE DEF T
    <3>1. T \subseteq Nat BY DEF T
    <3> QED BY <1>1, <1>3, <3>1, WFMin
  <2>2. x \in Nat /\ x # 0
    OBVIOUS
  <2>3. x - 1 \in Nat /\ x - 1 < x /\ (x - 1) + 1 = x
    BY <2>2
  <2>4. x - 1 \in S
    BY <1>2, <2>1, <2>2, <2>3
  <2> QED
    BY <2>1, <2>3, <2>4
<1> QED
  BY <1>3

-------------------------------------------------------------------------------
(* The loop of Stacks: what each depth adds to the one before. *)
Deeper(S, e) ==
  UNION { { Append(s, f) : f \in { g \in FieldsOf[Top(s)] : Descends(s, g, e) } } : s \in S }
IsDepths(a, e, N) ==
  a = [n \in 0..N |-> IF n = 0 THEN {<<>>} ELSE Deeper(a[n - 1], e)]

LEMMA DepthsExist ==
  ASSUME NEW e
  PROVE  \A N \in Nat : \E a : IsDepths(a, e, N)
<1> DEFINE Sound == {N \in Nat : \E a : IsDepths(a, e, N)}
           D(S) == Deeper(S, e)
<1>1. \A a, N : IsDepths(a, e, N) <=> a = [n \in 0..N |-> IF n = 0 THEN {<<>>} ELSE D(a[n - 1])]
  BY DEF IsDepths
<1> HIDE DEF D
<1>2. 0 \in Sound
  <2> DEFINE a == [n \in 0..0 |-> {<<>>}]
  <2>1. a = [n \in 0..0 |-> IF n = 0 THEN {<<>>} ELSE D(a[n - 1])]
    OBVIOUS
  <2> HIDE DEF a
  <2> QED
    BY <1>1, <2>1
<1>3. ASSUME NEW N \in Nat, N \in Sound
      PROVE  N + 1 \in Sound
  <2>1. PICK a : a = [n \in 0..N |-> IF n = 0 THEN {<<>>} ELSE D(a[n - 1])]
    BY <1>1, <1>3
  <2> DEFINE b == [n \in 0..(N + 1) |-> IF n <= N THEN a[n] ELSE D(a[N])]
  <2>2. ASSUME NEW n \in 0..(N + 1)
        PROVE  b[n] = IF n = 0 THEN {<<>>} ELSE D(b[n - 1])
    <3>1. CASE n = 0
      BY <2>1, <3>1
    <3>2. CASE n \in 1..N
      <4>1. n - 1 \in 0..N /\ n \in 0..N /\ n # 0
        BY <3>2
      <4>2. a[n] = D(a[n - 1])
        BY <2>1, <4>1
      <4> QED
        BY <4>1, <4>2
    <3>3. CASE n = N + 1
      <4>1. n - 1 = N /\ N \in 0..(N + 1) /\ ~(n <= N) /\ n # 0
        BY <3>3
      <4> QED
        BY <4>1
    <3> QED
      BY <3>1, <3>2, <3>3
  <2>3. b = [n \in 0..(N + 1) |-> IF n = 0 THEN {<<>>} ELSE D(b[n - 1])]
    BY <2>2
  <2> HIDE DEF b
  <2>4. IsDepths(b, e, N + 1)
    BY <1>1, <2>3
  <2>5. N + 1 \in Nat
    OBVIOUS
  <2> QED
    BY <2>4, <2>5
<1>4. Nat \subseteq Sound
  <2> HIDE DEF Sound
  <2> QED
    BY <1>2, <1>3, Induct
<1> QED
  BY <1>4

LEMMA StacksByDepth ==
  ASSUME NEW e
  PROVE  \E a : /\ IsDepths(a, e, Cardinality(Fields))
                /\ Stacks(e) = UNION { a[n] : n \in 0..Cardinality(Fields) }
<1> DEFINE N == Cardinality(Fields)
           a == CHOOSE b : IsDepths(b, e, N)
<1>1. N \in Nat
  BY FS_CardinalityType, TranscodingAssumption
<1>2. IsDepths(a, e, N)
  BY <1>1, DepthsExist
<1>3. DOMAIN a = 0..N
  BY <1>2 DEF IsDepths
<1>4. Stacks(e) = UNION { a[n] : n \in DOMAIN a }
  BY Zenon DEF Stacks, IsDepths, Deeper
<1> QED
  BY <1>2, <1>3, <1>4

-------------------------------------------------------------------------------
(* A stack is a chain of fields, each of the type of the one below it, and
   never holds the field that is left out. *)
Owner(s, i) == IF i = 1 THEN Request ELSE Info[s[i - 1]].type
Chained(s) ==
  /\ s \in Seq(Fields)
  /\ \A i \in 1..Len(s) : s[i] \in FieldsOf[Owner(s, i)] /\ IsMessage(s[i])

(* The top of a chain is a message type, whose fields are fields. *)
LEMMA TopTyped ==
  ASSUME NEW s, Chained(s)
  PROVE  Top(s) \in Messages /\ FieldsOf[Top(s)] \subseteq Fields
<1>1. CASE s = <<>>
  BY <1>1, TranscodingAssumption DEF Top
<1>2. CASE s # <<>>
  <2>1. s \in Seq(Fields) /\ Len(s) \in 1..Len(s)
    BY <1>2 DEF Chained
  <2>2. s[Len(s)] \in Fields /\ Info[s[Len(s)]].kind = "message"
    BY <2>1 DEF Chained, IsMessage
  <2>3. Top(s) = Info[s[Len(s)]].type
    BY <1>2 DEF Top
  <2>4. \A f \in Fields : Info[f].kind = "message" => Info[f].type \in Messages
    BY TranscodingAssumption
  <2>5. Top(s) \in Messages
    BY <2>2, <2>3, <2>4
  <2>6. FieldsOf \in [Messages -> SUBSET Fields]
    BY TranscodingAssumption
  <2> QED
    BY <2>5, <2>6
<1> QED
  BY <1>1, <1>2

(* A sequence with one more element, element by element. *)
LEMMA OnAppend ==
  ASSUME NEW S, NEW s \in Seq(S), NEW f
  PROVE  /\ On(Append(s, f)) = On(s) \cup {f}
         /\ DOMAIN Append(s, f) = 1..(Len(s) + 1)
         /\ \A i \in 1..Len(s) : Append(s, f)[i] = s[i]
         /\ Append(s, f)[Len(s) + 1] = f
         /\ Len(Append(s, f)) = Len(s) + 1
<1> DEFINE a == Append(s, f)
<1>1. Len(s) \in Nat /\ DOMAIN s = 1..Len(s) /\ s \in Seq(S \cup {f})
  OBVIOUS
<1>2. /\ DOMAIN a = 1..(Len(s) + 1) /\ Len(a) = Len(s) + 1
      /\ \A i \in 1..Len(s) : a[i] = s[i]
      /\ a[Len(s) + 1] = f
  BY <1>1
<1> HIDE DEF a
<1>3. \A i : i \in 1..(Len(s) + 1) <=> i \in 1..Len(s) \/ i = Len(s) + 1
  BY <1>1
<1>4. { a[i] : i \in DOMAIN a } = { s[i] : i \in DOMAIN s } \cup {f}
  BY <1>1, <1>2, <1>3
<1> QED
  BY <1>2, <1>4 DEF On, a

(* A message field of the top's type makes the chain longer. *)
LEMMA AppendChained ==
  ASSUME NEW s, Chained(s), NEW f \in FieldsOf[Top(s)], IsMessage(f)
  PROVE  Chained(Append(s, f)) /\ On(Append(s, f)) = On(s) \cup {f}
<1> DEFINE a == Append(s, f)
<1>1. s \in Seq(Fields) /\ Len(s) \in Nat
  BY DEF Chained
<1>2. f \in Fields
  BY TopTyped
<1>3. /\ On(a) = On(s) \cup {f}
      /\ \A i \in 1..Len(s) : a[i] = s[i]
      /\ a[Len(s) + 1] = f
      /\ Len(a) = Len(s) + 1
  BY <1>1, OnAppend
<1>4. a \in Seq(Fields)
  BY <1>1, <1>2
<1> HIDE DEF a
<1>5. ASSUME NEW i \in 1..Len(a)
      PROVE  a[i] \in FieldsOf[Owner(a, i)] /\ IsMessage(a[i])
  <2>1. CASE i \in 1..Len(s)
    <3>1. a[i] = s[i] /\ (i # 1 => a[i - 1] = s[i - 1])
      BY <1>1, <1>3, <2>1
    <3>2. Owner(a, i) = Owner(s, i)
      BY <3>1 DEF Owner
    <3> QED
      BY <2>1, <3>1, <3>2 DEF Chained
  <2>2. CASE i = Len(s) + 1
    <3>1. CASE s = <<>>
      <4>1. i = 1
        BY <2>2, <3>1
      <4> QED
        BY <1>3, <2>2, <3>1, <4>1 DEF Owner, Top
    <3>2. CASE s # <<>>
      <4>1. i # 1 /\ i - 1 = Len(s) /\ Len(s) \in 1..Len(s)
        BY <1>1, <2>2, <3>2
      <4>2. Owner(a, i) = Top(s)
        BY <1>3, <3>2, <4>1 DEF Owner, Top
      <4> QED
        BY <1>3, <2>2, <4>2
    <3> QED
      BY <3>1, <3>2
  <2> QED
    BY <1>1, <1>3, <2>1, <2>2
<1> QED
  BY <1>3, <1>4, <1>5 DEF Chained, a

(* Every stack of getLeafs is a chain without the field left out, by induction
   over the depth. *)
LEMMA StackShape ==
  ASSUME NEW e
  PROVE  \A s \in Stacks(e) : Chained(s) /\ e \notin On(s)
<1> DEFINE N == Cardinality(Fields)
           Good(s) == Chained(s) /\ e \notin On(s)
<1>1. PICK a : IsDepths(a, e, N) /\ Stacks(e) = UNION { a[n] : n \in 0..N }
  BY StacksByDepth
<1>2. N \in Nat
  BY FS_CardinalityType, TranscodingAssumption
<1> HIDE DEF N
<1>3. a = [n \in 0..N |-> IF n = 0 THEN {<<>>} ELSE Deeper(a[n - 1], e)]
  BY <1>1 DEF IsDepths
<1> DEFINE Sound == {n \in Nat : n \in 0..N => \A s \in a[n] : Good(s)}
<1>4. 0 \in Sound
  <2>1. a[0] = {<<>>}
    BY <1>2, <1>3
  <2>2. Good(<<>>)
    BY DEF Chained, On
  <2> HIDE DEF Good
  <2> QED
    BY <2>1, <2>2
<1>5. ASSUME NEW n \in Nat, n \in Sound
      PROVE  n + 1 \in Sound
  <2> SUFFICES ASSUME n + 1 \in 0..N, NEW s \in a[n + 1]
               PROVE  Good(s)
    BY DEF Sound
  <2>1. n \in 0..N /\ n + 1 # 0 /\ (n + 1) - 1 = n
    BY <1>2
  <2>2. a[n + 1] = Deeper(a[n], e)
    BY <1>3, <2>1
  <2>3. PICK t \in a[n] : \E f \in { g \in FieldsOf[Top(t)] : Descends(t, g, e) } : s = Append(t, f)
    BY <2>2 DEF Deeper
  <2>4. PICK f \in FieldsOf[Top(t)] : Descends(t, f, e) /\ s = Append(t, f)
    BY <2>3
  <2>5. Chained(t) /\ e \notin On(t)
    BY <1>5, <2>1
  <2>6. Chained(s) /\ On(s) = On(t) \cup {f}
    BY <2>4, <2>5, AppendChained DEF Descends
  <2> QED
    BY <2>4, <2>5, <2>6 DEF Descends
<1>6. Nat \subseteq Sound
  <2> HIDE DEF Sound
  <2> QED
    BY <1>4, <1>5, Induct
<1> QED
  BY <1>1, <1>2, <1>6

(* A stack without the field is found when that field is left out. *)
LEMMA StackKept ==
  ASSUME NEW b
  PROVE  \A s \in Stacks(NoField) : b \notin On(s) => s \in Stacks(b)
<1> DEFINE N == Cardinality(Fields)
<1>1. PICK a : IsDepths(a, NoField, N) /\ Stacks(NoField) = UNION { a[n] : n \in 0..N }
  BY StacksByDepth
<1>2. PICK c : IsDepths(c, b, N) /\ Stacks(b) = UNION { c[n] : n \in 0..N }
  BY StacksByDepth
<1>3. N \in Nat
  BY FS_CardinalityType, TranscodingAssumption
<1> HIDE DEF N
<1>4. a = [n \in 0..N |-> IF n = 0 THEN {<<>>} ELSE Deeper(a[n - 1], NoField)]
  BY <1>1 DEF IsDepths
<1>5. c = [n \in 0..N |-> IF n = 0 THEN {<<>>} ELSE Deeper(c[n - 1], b)]
  BY <1>2 DEF IsDepths
<1> DEFINE Sound == {n \in Nat : n \in 0..N => \A s \in a[n] : b \notin On(s) => s \in c[n]}
<1>6. 0 \in Sound
  BY <1>3, <1>4, <1>5
<1>7. ASSUME NEW n \in Nat, n \in Sound
      PROVE  n + 1 \in Sound
  <2> SUFFICES ASSUME n + 1 \in 0..N, NEW s \in a[n + 1], b \notin On(s)
               PROVE  s \in c[n + 1]
    BY DEF Sound
  <2>1. n \in 0..N /\ n + 1 # 0 /\ (n + 1) - 1 = n
    BY <1>3
  <2>2. a[n + 1] = Deeper(a[n], NoField) /\ c[n + 1] = Deeper(c[n], b)
    BY <1>4, <1>5, <2>1
  <2>3. PICK t \in a[n] : \E f \in { g \in FieldsOf[Top(t)] : Descends(t, g, NoField) } : s = Append(t, f)
    BY <2>2 DEF Deeper
  <2>4. PICK f \in FieldsOf[Top(t)] : Descends(t, f, NoField) /\ s = Append(t, f)
    BY <2>3
  <2>5. t \in Stacks(NoField)
    BY <1>1, <2>1
  <2>6. Chained(t)
    BY <2>5, StackShape
  <2>7. On(s) = On(t) \cup {f}
    BY <2>4, <2>6, AppendChained DEF Descends
  <2>8. t \in c[n]
    BY <1>7, <2>1, <2>7
  <2>9. Descends(t, f, b)
    BY <2>4, <2>7 DEF Descends
  <2> QED
    BY <2>2, <2>4, <2>8, <2>9 DEF Deeper
<1>8. Nat \subseteq Sound
  <2> HIDE DEF Sound
  <2> QED
    BY <1>6, <1>7, Induct
<1> QED
  BY <1>1, <1>2, <1>3, <1>8

-------------------------------------------------------------------------------
(* The types of the request's parts never lead back to it, where one of its
   fields is the body of a method: handleMsg leaves that field out at any depth. *)
NotRecursive == \A f \in Fields : Info[f].type # Request
BodyNotNested == \A m \in Methods : m.body \notin {NoField, Whole} => NotRecursive

(* Then a stack that starts with another field does not hold the body's. *)
LEMMA BodyIsFirst ==
  ASSUME NotRecursive, NEW s, Chained(s), NEW b \in FieldsOf[Request], s # <<>>, s[1] # b
  PROVE  b \notin On(s)
<1> SUFFICES ASSUME NEW i \in DOMAIN s, s[i] = b
             PROVE  FALSE
  BY DEF On
<1>1. s \in Seq(Fields) /\ Len(s) \in Nat /\ DOMAIN s = 1..Len(s)
  BY DEF Chained
<1>2. i \in 1..Len(s) /\ i # 1
  BY <1>1
<1>3. i - 1 \in 1..Len(s)
  BY <1>1, <1>2
<1> DEFINE t == Info[s[i - 1]].type
<1>4. s[i - 1] \in Fields /\ Info[s[i - 1]].kind = "message"
  BY <1>1, <1>3 DEF Chained, IsMessage
<1>5. t \in Messages /\ t # Request
  BY <1>4, TranscodingAssumption DEF NotRecursive
<1>6. b \in FieldsOf[t]
  BY <1>2 DEF Chained, Owner
<1> HIDE DEF t
<1>7. FieldsOf[t] \cap FieldsOf[Request] = {}
  BY <1>5, TranscodingAssumption
<1> QED
  BY <1>6, <1>7

(* A leaf is a field that is no message on top of a stack. *)
LEMMA LeafShape ==
  ASSUME NEW e \in Fields \cup {NoField, Whole}, NEW p \in getLeafs[e]
  PROVE  \E s \in Stacks(e) :
           /\ Chained(s) /\ e \notin On(s)
           /\ \E f \in FieldsOf[Top(s)] : ~IsMessage(f) /\ p = Append(s, f)
<1> DEFINE L(x) == UNION { { Append(s, f) : f \in { g \in FieldsOf[Top(s)] : ~IsMessage(g) } }
                           : s \in Stacks(x) }
<1>1. getLeafs[e] = L(e)
  BY DEF getLeafs
<1>2. PICK s \in Stacks(e) : \E f \in { g \in FieldsOf[Top(s)] : ~IsMessage(g) } : p = Append(s, f)
  BY <1>1
<1>3. PICK f \in { g \in FieldsOf[Top(s)] : ~IsMessage(g) } : p = Append(s, f)
  BY <1>2
<1> QED
  BY <1>3, StackShape

(* The first field of a leaf is the first of its stack, or its only one. *)
LEMMA LeafFields ==
  ASSUME NEW s, Chained(s), NEW f \in FieldsOf[Top(s)], NEW p, p = Append(s, f)
  PROVE  /\ p \in Seq(Fields) /\ Len(p) \in 1..Len(p) /\ p[Len(p)] = f /\ f \in Fields
         /\ p[1] = IF s = <<>> THEN f ELSE s[1]
         /\ p[1] \in Fields
         /\ s = <<>> => p = <<f>>
<1>1. s \in Seq(Fields) /\ Len(s) \in Nat
  BY DEF Chained
<1>2. f \in Fields
  BY TopTyped
<1>3. p \in Seq(Fields) /\ Len(p) = Len(s) + 1 /\ p[Len(s) + 1] = f
  BY <1>1, <1>2
<1>4. CASE s = <<>>
  BY <1>2, <1>3, <1>4
<1>5. CASE s # <<>>
  <2>1. 1 \in 1..Len(s)
    BY <1>1, <1>5
  <2>2. p[1] = s[1]
    BY <1>1, <2>1, OnAppend
  <2> QED
    BY <1>1, <1>2, <1>3, <1>5, <2>1, <2>2
<1> QED
  BY <1>4, <1>5

(* A leaf that is not below the body's field stays when that field is left out. *)
LEMMA LeafKept ==
  ASSUME NEW b \in FieldsOf[Request] \cup {NoField}, b # NoField => NotRecursive, NEW p \in AllLeafs, p[1] # b
  PROVE  p \in getLeafs[b]
<1> DEFINE L(x) == UNION { { Append(s, f) : f \in { g \in FieldsOf[Top(s)] : ~IsMessage(g) } }
                           : s \in Stacks(x) }
<1>1. FieldsOf[Request] \subseteq Fields
  BY TranscodingAssumption
<1>2. getLeafs[b] = L(b)
  BY <1>1 DEF getLeafs
<1>3. PICK s \in Stacks(NoField) :
        /\ Chained(s) /\ NoField \notin On(s)
        /\ \E f \in FieldsOf[Top(s)] : ~IsMessage(f) /\ p = Append(s, f)
  BY LeafShape DEF AllLeafs
<1>4. PICK f \in FieldsOf[Top(s)] : ~IsMessage(f) /\ p = Append(s, f)
  BY <1>3
<1>5. b \notin On(s)
  <2>1. CASE b = NoField
    BY <1>3, <2>1
  <2>2. CASE b # NoField /\ s # <<>>
    BY <1>3, <1>4, <2>2, LeafFields, BodyIsFirst
  <2>3. CASE s = <<>>
    BY <2>3 DEF On
  <2> QED
    BY <2>1, <2>2, <2>3
<1>6. s \in Stacks(b)
  BY <1>5, StackKept
<1> QED
  BY <1>2, <1>4, <1>6

-------------------------------------------------------------------------------
(* What the emitted method has computed when it reaches a part is what the
   parts before it define. *)
BodyOf == IF method.body = Whole THEN AllLeafs ELSE { p \in AllLeafs : p[1] = method.body }
QueryOf == { p \in queryParams(method) : Adds(p) }
RoutingOf == IF method.dynamic THEN Dynamic ELSE {Implicit}
ResourceOf == IF HasHeaders THEN ResourceNameField ELSE NoTarget
Computed ==
  /\ method \in Methods
  /\ pc \in {"body", "url", "query", "headers", "sent", "refused"}
  /\ pc \in {"url", "query", "headers", "sent"} => body = BodyOf
  /\ pc \in {"query", "headers", "sent"} => url = pathParams(method)
  /\ pc \in {"headers", "sent"} => query = QueryOf
  /\ pc = "sent" => routing \in RoutingOf /\ resource = ResourceOf

(* These depend on the request and its descriptors alone. *)
LEMMA SameRequest ==
  ASSUME UNCHANGED request
  PROVE  /\ BodyOf' = BodyOf /\ QueryOf' = QueryOf /\ RoutingOf' = RoutingOf
         /\ ResourceOf' = ResourceOf /\ pathParams(method)' = pathParams(method)
<1>1. method' = method /\ has' = has /\ text' = text /\ ordered' = ordered /\ heuristics' = heuristics
  BY DEF request
<1>2. BodyOf' = BodyOf
  BY <1>1 DEF BodyOf, AllLeafs
<1>3. pathParams(method)' = pathParams(method)
  BY <1>1 DEF pathParams
<1>4. QueryOf' = QueryOf
  BY <1>1 DEF QueryOf, queryParams, Adds, LeafInfo, pathParams
<1>5. RoutingOf' = RoutingOf
  BY <1>1 DEF RoutingOf, Dynamic, Implicit, Written, Headers, routingHeadersMap, Matches, Capture
<1>6. ResourceOf' = ResourceOf
  BY <1>1 DEF ResourceOf, HasHeaders, ResourceNameField, Selected
<1> QED
  BY <1>2, <1>3, <1>4, <1>5, <1>6

LEMMA ComputedInit == Init => Computed
BY DEF Init, Computed

LEMMA ComputedStep == Computed /\ [Next]_vars => Computed'
<1> SUFFICES ASSUME Computed, [Next]_vars
             PROVE  Computed'
  OBVIOUS
<1>0. UNCHANGED request
  BY DEF Next, MarshalBody, BaseURL, QueryString, InsertHeaders, request, vars
<1>1. method' = method
  BY <1>0 DEF request
<1>2. /\ BodyOf' = BodyOf /\ QueryOf' = QueryOf /\ RoutingOf' = RoutingOf
      /\ ResourceOf' = ResourceOf /\ pathParams(method)' = pathParams(method)
  BY <1>0, SameRequest
<1>3. CASE MarshalBody
  <2>1. BodyOf = IF method.body = Whole THEN AllLeafs ELSE { p \in AllLeafs : p[1] = method.body }
    BY DEF BodyOf
  <2> QED
    BY <1>1, <1>2, <1>3, <2>1 DEF MarshalBody, Computed
<1>4. CASE BaseURL
  BY <1>1, <1>2, <1>4 DEF BaseURL, Computed
<1>5. CASE QueryString
  <2>1. QueryOf = { p \in queryParams(method) : Adds(p) }
    BY DEF QueryOf
  <2> QED
    BY <1>1, <1>2, <1>5, <2>1 DEF QueryString, Computed
<1>6. CASE InsertHeaders
  <2>1. RoutingOf = IF method.dynamic THEN Dynamic ELSE {Implicit}
    BY DEF RoutingOf
  <2>2. ResourceOf = IF HasHeaders THEN ResourceNameField ELSE NoTarget
    BY DEF ResourceOf
  <2> QED
    BY <1>1, <1>2, <1>6, <2>1, <2>2 DEF InsertHeaders, Computed
<1>7. CASE UNCHANGED vars
  BY <1>2, <1>7 DEF vars, Computed
<1> QED
  BY <1>3, <1>4, <1>5, <1>6, <1>7 DEF Next

LEMMA ComputedAlways == Spec => []Computed
<1> QED
  BY ComputedInit, ComputedStep, PTL DEF Spec

(* generateQueryString adds every leaf that has something to say. *)
LEMMA InformativeAdds ==
  ASSUME NEW p, LeafInfo(p).repeated => LeafInfo(p).presence = "none",
         \/ Informative(p)
         \/ LeafInfo(p).required /\ LeafInfo(p).kind = "primitive" /\ ~LeafInfo(p).repeated
  PROVE  Adds(p)
<1> DEFINE f == LeafInfo(p)
<1>1. f.repeated => f.presence = "none"
  OBVIOUS
<1>2. Informative(p) <=> (has[p] = "set" \/ (f.presence = "optional" /\ has[p] = "default"))
  BY DEF Informative
<1>3. Adds(p) <=>
        \/ f.required /\ f.kind = "primitive" /\ ~f.repeated
        \/ f.repeated /\ has[p] = "set"
        \/ ~f.repeated /\ f.presence = "optional" /\ has[p] # "absent"
        \/ ~f.repeated /\ f.presence # "optional" /\ f.kind # "primitive" /\ has[p] # "absent"
        \/ ~f.repeated /\ f.presence # "optional" /\ f.kind = "primitive" /\ has[p] = "set"
  BY DEF Adds
<1> QED
  BY <1>1, <1>2, <1>3

(* No leaf of getLeafs is below the field left out. *)
LEMMA BodyNotBelow ==
  ASSUME NEW b \in Fields \cup {NoField, Whole}, NEW p \in getLeafs[b], p # <<b>>
  PROVE  p[1] # b
<1>1. PICK s \in Stacks(b) :
        /\ Chained(s) /\ b \notin On(s)
        /\ \E f \in FieldsOf[Top(s)] : ~IsMessage(f) /\ p = Append(s, f)
  BY LeafShape
<1>2. PICK f \in FieldsOf[Top(s)] : ~IsMessage(f) /\ p = Append(s, f)
  BY <1>1
<1>3. CASE s = <<>>
  <2>1. p = <<f>> /\ p[1] = f
    BY <1>1, <1>2, <1>3, LeafFields
  <2> QED
    BY <2>1
<1>4. CASE s # <<>>
  <2>1. p[1] = s[1]
    BY <1>1, <1>2, <1>4, LeafFields
  <2>2. s[1] \in On(s)
    BY <1>1, <1>4 DEF Chained, On
  <2> QED
    BY <1>1, <2>1, <2>2
<1> QED
  BY <1>3, <1>4

(* The comment in queryParams is true of every program without such a request:
   what is neither bound by the URL nor in the body, and only that, is a query
   parameter. *)
LEMMA OthersComputed ==
  ASSUME BodyNotNested, Computed
  PROVE  OthersInQuery
<1> SUFFICES ASSUME pc = "sent", NEW p \in AllLeafs
             PROVE  p \in queryParams(method) <=> p \notin body \cup url
  BY DEF OthersInQuery
<1> DEFINE b == method.body
<1>1. /\ body = IF b = Whole THEN AllLeafs ELSE { q \in AllLeafs : q[1] = b }
      /\ url = pathParams(method)
  BY DEF Computed, BodyOf
<1>2. b \in FieldsOf[Request] \cup {NoField, Whole} /\ FieldsOf[Request] \subseteq Fields
  BY TranscodingAssumption DEF Computed
<1>3. queryParams(method) = IF b = Whole THEN {} ELSE getLeafs[b] \ (url \cup {<<b>>})
  BY <1>1 DEF queryParams
<1>4. b \notin {NoField, Whole} => NotRecursive
  BY DEF BodyNotNested, Computed
<1> HIDE DEF b
<1>5. CASE b = Whole
  BY <1>1, <1>3, <1>5
<1>6. CASE b # Whole
  <2>1. b \in FieldsOf[Request] \cup {NoField} /\ (b # NoField => NotRecursive)
    BY <1>2, <1>4, <1>6
  <2>2. p[1] # b => p \in getLeafs[b] /\ p # <<b>>
    BY <2>1, LeafKept
  <2>3. p \in getLeafs[b] /\ p # <<b>> => p[1] # b
    BY <1>2, BodyNotBelow
  <2> QED
    BY <1>1, <1>3, <1>6, <2>2, <2>3
<1> QED
  BY <1>5, <1>6

(* EachFieldOnce: whatever the descriptors, the bindings and the values of a
   request are, unless a method has a field as its body and a request can contain
   another request of its type, every value outside repeated messages reaches the
   server, query parameters are what neither path nor body has, as the comment
   in queryParams wants, and required fields are always sent (queryParams,
   getLeafs, generateQueryString).  The invariant: each part of the request is
   what its function computes from the descriptors; and a stack of getLeafs is
   a chain that, started elsewhere, never comes back to the body's field. *)
THEOREM EveryFieldSentOnce == ASSUME BodyNotNested PROVE Spec => []EachFieldOnce
<1>1. Computed => EachFieldOnce
  <2> SUFFICES ASSUME Computed, pc = "sent"
               PROVE  /\ \A p \in AllLeafs : Informative(p) => p \in body \cup url \cup query
                      /\ query \cap (body \cup url) = {}
                      /\ \A p \in AllLeafs :
                           LeafInfo(p).required /\ LeafInfo(p).kind = "primitive" /\ ~LeafInfo(p).repeated
                             => p \in body \cup url \cup query
    BY OthersComputed DEF EachFieldOnce
  <2> DEFINE b == method.body
  <2>1. /\ body = IF b = Whole THEN AllLeafs ELSE { p \in AllLeafs : p[1] = b }
        /\ url = pathParams(method)
        /\ query = { p \in queryParams(method) : Adds(p) }
    BY DEF Computed, BodyOf, QueryOf
  <2>2. b \in FieldsOf[Request] \cup {NoField, Whole} /\ FieldsOf[Request] \subseteq Fields
    BY TranscodingAssumption DEF Computed
  <2>3. queryParams(method) = IF b = Whole THEN {} ELSE getLeafs[b] \ (url \cup {<<b>>})
    BY <2>1 DEF queryParams
  <2>4. NoField \notin Fields /\ Whole \notin Fields
    BY TranscodingAssumption
  <2> HIDE DEF b
  <2>5. ASSUME NEW p \in AllLeafs,
               \/ Informative(p)
               \/ LeafInfo(p).required /\ LeafInfo(p).kind = "primitive" /\ ~LeafInfo(p).repeated
        PROVE  p \in body \cup url \cup query
    <3>1. CASE b = Whole \/ p[1] = b
      BY <2>1, <3>1
    <3>2. CASE p \in url
      BY <3>2
    <3>3. CASE b # Whole /\ p[1] # b /\ p \notin url
      <4>1. b \in FieldsOf[Request] \cup {NoField}
        BY <2>2, <3>3
      <4>2. p \in getLeafs[b]
        <5>1. b # NoField => NotRecursive
          BY <3>3 DEF BodyNotNested, Computed, b
        <5> QED
          BY <3>3, <4>1, <5>1, LeafKept
      <4>3. PICK s : \E f \in FieldsOf[Top(s)] : Chained(s) /\ p = Append(s, f)
        BY LeafShape DEF AllLeafs
      <4>4. PICK f \in FieldsOf[Top(s)] : Chained(s) /\ p = Append(s, f)
        BY <4>3
      <4>5. p[Len(p)] \in Fields
        BY <4>4, LeafFields
      <4>6. LeafInfo(p).repeated => LeafInfo(p).presence = "none"
        BY <4>5, TranscodingAssumption DEF LeafInfo
      <4>7. Adds(p)
        BY <2>5, <4>6, InformativeAdds
      <4>8. p # <<b>>
        BY <3>3
      <4> QED
        BY <2>1, <2>3, <3>3, <4>2, <4>7, <4>8
    <3> QED
      BY <3>1, <3>2, <3>3
  <2>6. ASSUME NEW p \in query
        PROVE  p \notin body \cup url
    <3>1. b # Whole /\ p \in getLeafs[b] /\ p \notin url /\ p # <<b>>
      BY <2>1, <2>3, <2>6
    <3>2. b \in Fields \cup {NoField, Whole}
      BY <2>2
    <3>3. p[1] # b
      BY <3>1, <3>2, BodyNotBelow
    <3> QED
      BY <2>1, <3>1, <3>3
  <2> QED
    BY <2>5, <2>6
<1>2. Spec => []Computed
  BY ComputedAlways
<1> QED
  BY <1>1, <1>2, PTL

-------------------------------------------------------------------------------
(* The loops of FirstsIn, VariableFields, FieldsIn and routingHeadersMap: each
   definition is the last value of a function that its equation determines. *)
IsFirsts(a, s, S, N) ==
  a = [i \in 0..N |-> IF i = 0 THEN <<>> ELSE IF s[i] \in S /\ s[i] \notin On(a[i - 1]) THEN Append(a[i - 1], s[i]) ELSE a[i - 1]]

LEMMA FirstsExist ==
  ASSUME NEW s, NEW S
  PROVE  \A N \in Nat : \E a : IsFirsts(a, s, S, N)
<1> DEFINE Sound == {N \in Nat : \E a : IsFirsts(a, s, S, N)}
           D(x, i) == IF s[i] \in S /\ s[i] \notin On(x) THEN Append(x, s[i]) ELSE x
<1>1. \A a, N : IsFirsts(a, s, S, N) <=> a = [i \in 0..N |-> IF i = 0 THEN <<>> ELSE D(a[i - 1], i)]
  BY Zenon DEF IsFirsts
<1> HIDE DEF D
<1>2. 0 \in Sound
  <2> DEFINE a == [i \in 0..0 |-> <<>>]
  <2>1. a = [i \in 0..0 |-> IF i = 0 THEN <<>> ELSE D(a[i - 1], i)]
    OBVIOUS
  <2> HIDE DEF a
  <2> QED
    BY <1>1, <2>1
<1>3. ASSUME NEW N \in Nat, N \in Sound
      PROVE  N + 1 \in Sound
  <2>1. PICK a : a = [i \in 0..N |-> IF i = 0 THEN <<>> ELSE D(a[i - 1], i)]
    BY <1>1, <1>3
  <2> DEFINE b == [i \in 0..(N + 1) |-> IF i <= N THEN a[i] ELSE D(a[N], N + 1)]
  <2>2. ASSUME NEW i \in 0..(N + 1)
        PROVE  b[i] = IF i = 0 THEN <<>> ELSE D(b[i - 1], i)
    <3>1. CASE i = 0
      BY <2>1, <3>1
    <3>2. CASE i \in 1..N
      <4>1. i - 1 \in 0..N /\ i \in 0..N /\ i # 0
        BY <3>2
      <4>2. a[i] = D(a[i - 1], i)
        BY <2>1, <4>1
      <4> QED
        BY <4>1, <4>2
    <3>3. CASE i = N + 1
      <4>1. i - 1 = N /\ N \in 0..(N + 1) /\ ~(i <= N) /\ i # 0
        BY <3>3
      <4> QED
        BY <3>3, <4>1
    <3> QED
      BY <3>1, <3>2, <3>3
  <2>3. b = [i \in 0..(N + 1) |-> IF i = 0 THEN <<>> ELSE D(b[i - 1], i)]
    BY <2>2
  <2> HIDE DEF b
  <2>4. IsFirsts(b, s, S, N + 1)
    BY <1>1, <2>3
  <2>5. N + 1 \in Nat
    OBVIOUS
  <2> QED
    BY <2>4, <2>5
<1>4. Nat \subseteq Sound
  <2> HIDE DEF Sound
  <2> QED
    BY <1>2, <1>3, Induct
<1> QED
  BY <1>4

IsVariables(a, p, N) ==
  a = [i \in 0..N |-> IF i = 0 THEN <<>> ELSE IF IsVariable(p[i]) THEN Append(a[i - 1], p[i].field) ELSE a[i - 1]]

LEMMA VariablesExist ==
  ASSUME NEW p
  PROVE  \A N \in Nat : \E a : IsVariables(a, p, N)
<1> DEFINE Sound == {N \in Nat : \E a : IsVariables(a, p, N)}
           D(x, i) == IF IsVariable(p[i]) THEN Append(x, p[i].field) ELSE x
<1>1. \A a, N : IsVariables(a, p, N) <=> a = [i \in 0..N |-> IF i = 0 THEN <<>> ELSE D(a[i - 1], i)]
  BY Zenon DEF IsVariables
<1> HIDE DEF D
<1>2. 0 \in Sound
  <2> DEFINE a == [i \in 0..0 |-> <<>>]
  <2>1. a = [i \in 0..0 |-> IF i = 0 THEN <<>> ELSE D(a[i - 1], i)]
    OBVIOUS
  <2> HIDE DEF a
  <2> QED
    BY <1>1, <2>1
<1>3. ASSUME NEW N \in Nat, N \in Sound
      PROVE  N + 1 \in Sound
  <2>1. PICK a : a = [i \in 0..N |-> IF i = 0 THEN <<>> ELSE D(a[i - 1], i)]
    BY <1>1, <1>3
  <2> DEFINE b == [i \in 0..(N + 1) |-> IF i <= N THEN a[i] ELSE D(a[N], N + 1)]
  <2>2. ASSUME NEW i \in 0..(N + 1)
        PROVE  b[i] = IF i = 0 THEN <<>> ELSE D(b[i - 1], i)
    <3>1. CASE i = 0
      BY <2>1, <3>1
    <3>2. CASE i \in 1..N
      <4>1. i - 1 \in 0..N /\ i \in 0..N /\ i # 0
        BY <3>2
      <4>2. a[i] = D(a[i - 1], i)
        BY <2>1, <4>1
      <4> QED
        BY <4>1, <4>2
    <3>3. CASE i = N + 1
      <4>1. i - 1 = N /\ N \in 0..(N + 1) /\ ~(i <= N) /\ i # 0
        BY <3>3
      <4> QED
        BY <3>3, <4>1
    <3> QED
      BY <3>1, <3>2, <3>3
  <2>3. b = [i \in 0..(N + 1) |-> IF i = 0 THEN <<>> ELSE D(b[i - 1], i)]
    BY <2>2
  <2> HIDE DEF b
  <2>4. IsVariables(b, p, N + 1)
    BY <1>1, <2>3
  <2>5. N + 1 \in Nat
    OBVIOUS
  <2> QED
    BY <2>4, <2>5
<1>4. Nat \subseteq Sound
  <2> HIDE DEF Sound
  <2> QED
    BY <1>2, <1>3, Induct
<1> QED
  BY <1>4

IsNamed(a, ps, N) ==
  a = [i \in 0..N |-> IF i = 0 THEN <<>> ELSE a[i - 1] \o VariableFields(ps[i])]

LEMMA NamedExist ==
  ASSUME NEW ps
  PROVE  \A N \in Nat : \E a : IsNamed(a, ps, N)
<1> DEFINE Sound == {N \in Nat : \E a : IsNamed(a, ps, N)}
           D(x, i) == x \o VariableFields(ps[i])
<1>1. \A a, N : IsNamed(a, ps, N) <=> a = [i \in 0..N |-> IF i = 0 THEN <<>> ELSE D(a[i - 1], i)]
  BY Zenon DEF IsNamed
<1> HIDE DEF D
<1>2. 0 \in Sound
  <2> DEFINE a == [i \in 0..0 |-> <<>>]
  <2>1. a = [i \in 0..0 |-> IF i = 0 THEN <<>> ELSE D(a[i - 1], i)]
    OBVIOUS
  <2> HIDE DEF a
  <2> QED
    BY <1>1, <2>1
<1>3. ASSUME NEW N \in Nat, N \in Sound
      PROVE  N + 1 \in Sound
  <2>1. PICK a : a = [i \in 0..N |-> IF i = 0 THEN <<>> ELSE D(a[i - 1], i)]
    BY <1>1, <1>3
  <2> DEFINE b == [i \in 0..(N + 1) |-> IF i <= N THEN a[i] ELSE D(a[N], N + 1)]
  <2>2. ASSUME NEW i \in 0..(N + 1)
        PROVE  b[i] = IF i = 0 THEN <<>> ELSE D(b[i - 1], i)
    <3>1. CASE i = 0
      BY <2>1, <3>1
    <3>2. CASE i \in 1..N
      <4>1. i - 1 \in 0..N /\ i \in 0..N /\ i # 0
        BY <3>2
      <4>2. a[i] = D(a[i - 1], i)
        BY <2>1, <4>1
      <4> QED
        BY <4>1, <4>2
    <3>3. CASE i = N + 1
      <4>1. i - 1 = N /\ N \in 0..(N + 1) /\ ~(i <= N) /\ i # 0
        BY <3>3
      <4> QED
        BY <3>3, <4>1
    <3> QED
      BY <3>1, <3>2, <3>3
  <2>3. b = [i \in 0..(N + 1) |-> IF i = 0 THEN <<>> ELSE D(b[i - 1], i)]
    BY <2>2
  <2> HIDE DEF b
  <2>4. IsNamed(b, ps, N + 1)
    BY <1>1, <2>3
  <2>5. N + 1 \in Nat
    OBVIOUS
  <2> QED
    BY <2>4, <2>5
<1>4. Nat \subseteq Sound
  <2> HIDE DEF Sound
  <2> QED
    BY <1>2, <1>3, Induct
<1> QED
  BY <1>4

LEMMA FirstsAt ==
  ASSUME NEW s, NEW S, Len(s) \in Nat
  PROVE  \E a : IsFirsts(a, s, S, Len(s)) /\ FirstsIn(s, S) = a[Len(s)]
<1> DEFINE a == CHOOSE b : IsFirsts(b, s, S, Len(s))
<1>1. IsFirsts(a, s, S, Len(s))
  BY FirstsExist
<1>2. FirstsIn(s, S) = a[Len(s)]
  BY Zenon DEF FirstsIn, IsFirsts
<1> QED
  BY <1>1, <1>2

LEMMA VariablesAt ==
  ASSUME NEW p, Len(p) \in Nat
  PROVE  \E a : IsVariables(a, p, Len(p)) /\ VariableFields(p) = a[Len(p)]
<1> DEFINE a == CHOOSE b : IsVariables(b, p, Len(p))
<1>1. IsVariables(a, p, Len(p))
  BY VariablesExist
<1>2. VariableFields(p) = a[Len(p)]
  BY Zenon DEF VariableFields, IsVariables
<1> QED
  BY <1>1, <1>2

LEMMA NamedAt ==
  ASSUME NEW ps, Len(ps) \in Nat
  PROVE  \E a : IsNamed(a, ps, Len(ps)) /\ FieldsIn(ps) = a[Len(ps)]
<1> DEFINE a == CHOOSE b : IsNamed(b, ps, Len(ps))
<1>1. IsNamed(a, ps, Len(ps))
  BY NamedExist
<1>2. FieldsIn(ps) = a[Len(ps)]
  BY Zenon DEF FieldsIn, IsNamed
<1> QED
  BY <1>1, <1>2

(* What FirstsIn returns: the elements of s that are in S, each once. *)
LEMMA FirstsOnce ==
  ASSUME NEW s, IsSequence(s), NEW S
  PROVE  /\ FirstsIn(s, S) \in Seq(On(s))
         /\ On(FirstsIn(s, S)) = On(s) \cap S
         /\ \A i, j \in DOMAIN FirstsIn(s, S) : FirstsIn(s, S)[i] = FirstsIn(s, S)[j] => i = j
<1> DEFINE N == Len(s)
           Upto(n) == { s[k] : k \in 1..n } \cap S
           Once(r) == \A i, j \in DOMAIN r : r[i] = r[j] => i = j
           Good(r, n) == r \in Seq(On(s)) /\ On(r) = Upto(n) /\ Once(r)
<1>1. s \in Seq(On(s)) /\ N \in Nat /\ DOMAIN s = 1..N
  BY DEF IsSequence, On
<1>2. PICK a : IsFirsts(a, s, S, N) /\ FirstsIn(s, S) = a[N]
  BY <1>1, FirstsAt
<1> HIDE DEF N
<1>3. a = [i \in 0..N |-> IF i = 0 THEN <<>>
                          ELSE IF s[i] \in S /\ s[i] \notin On(a[i - 1])
                               THEN Append(a[i - 1], s[i]) ELSE a[i - 1]]
  BY <1>2 DEF IsFirsts
<1> DEFINE Sound == {n \in Nat : n \in 0..N => Good(a[n], n)}
<1>4. 0 \in Sound
  <2>1. a[0] = <<>>
    BY <1>1, <1>3
  <2>2. On(<<>>) = {} /\ Upto(0) = {} /\ Once(<<>>) /\ <<>> \in Seq(On(s))
    BY DEF On
  <2> HIDE DEF Upto, Once
  <2> QED
    BY <2>1, <2>2
<1>5. ASSUME NEW n \in Nat, n \in Sound
      PROVE  n + 1 \in Sound
  <2> SUFFICES ASSUME n + 1 \in 0..N
               PROVE  Good(a[n + 1], n + 1)
    BY DEF Sound
  <2> DEFINE r == a[n]
             x == s[n + 1]
  <2>1. n \in 0..N /\ n + 1 # 0 /\ (n + 1) - 1 = n /\ n + 1 \in 1..N
    BY <1>1
  <2>2. a[n + 1] = IF x \in S /\ x \notin On(r) THEN Append(r, x) ELSE r
    BY <1>3, <2>1
  <2>3. Good(r, n) /\ x \in On(s)
    BY <1>1, <1>5, <2>1 DEF On
  <2>4. { s[k] : k \in 1..(n + 1) } = { s[k] : k \in 1..n } \cup {x}
    <3>1. \A k : k \in 1..(n + 1) <=> k \in 1..n \/ k = n + 1
      OBVIOUS
    <3> QED
      BY <3>1
  <2>5. Upto(n + 1) = IF x \in S THEN Upto(n) \cup {x} ELSE Upto(n)
    BY <2>4
  <2> HIDE DEF Upto, r, x
  <2>6. CASE x \in S /\ x \notin On(r)
    <3>1. a[n + 1] = Append(r, x)
      BY <2>2, <2>6
    <3>2. r \in Seq(On(s)) /\ Len(r) \in Nat /\ DOMAIN r = 1..Len(r)
      BY <2>3
    <3>3. /\ On(Append(r, x)) = On(r) \cup {x}
          /\ DOMAIN Append(r, x) = 1..(Len(r) + 1)
          /\ \A i \in 1..Len(r) : Append(r, x)[i] = r[i]
          /\ Append(r, x)[Len(r) + 1] = x
      BY <3>2, OnAppend
    <3>4. Append(r, x) \in Seq(On(s))
      BY <2>3, <3>2
    <3>5. \A i \in 1..Len(r) : r[i] # x
      BY <2>6, <3>2 DEF On
    <3>6. \A i : i \in 1..(Len(r) + 1) <=> i \in 1..Len(r) \/ i = Len(r) + 1
      BY <3>2
    <3>7. Once(Append(r, x))
      <4> DEFINE q == Append(r, x)
      <4> HIDE DEF q
      <4>1. ASSUME NEW i \in DOMAIN q, NEW j \in DOMAIN q, q[i] = q[j]
            PROVE  i = j
        <5>1. /\ DOMAIN q = 1..(Len(r) + 1)
              /\ \A k \in 1..Len(r) : q[k] = r[k]
              /\ q[Len(r) + 1] = x
          BY <3>3 DEF q
        <5>2. (i \in 1..Len(r) \/ i = Len(r) + 1) /\ (j \in 1..Len(r) \/ j = Len(r) + 1)
          BY <3>6, <5>1
        <5>3. CASE i \in 1..Len(r) /\ j \in 1..Len(r)
          BY <2>3, <3>2, <4>1, <5>1, <5>3
        <5>4. CASE i = Len(r) + 1 /\ j = Len(r) + 1
          BY <5>4
        <5>5. CASE i \in 1..Len(r) /\ j = Len(r) + 1
          BY <3>5, <4>1, <5>1, <5>5
        <5>6. CASE i = Len(r) + 1 /\ j \in 1..Len(r)
          BY <3>5, <4>1, <5>1, <5>6
        <5> QED
          BY <5>2, <5>3, <5>4, <5>5, <5>6
      <4> QED
        BY <4>1 DEF q
    <3> HIDE DEF Once
    <3> QED
      BY <2>3, <2>5, <2>6, <3>1, <3>3, <3>4, <3>7
  <2>7. CASE ~(x \in S /\ x \notin On(r))
    <3>1. a[n + 1] = r
      BY <2>2, <2>7
    <3>2. Upto(n + 1) = Upto(n)
      BY <2>3, <2>5, <2>7
    <3> HIDE DEF Once
    <3> QED
      BY <2>3, <3>1, <3>2
  <2> QED
    BY <2>6, <2>7
<1>6. Nat \subseteq Sound
  <2> HIDE DEF Sound
  <2> QED
    BY <1>4, <1>5, Induct
<1>7. Good(a[N], N)
  BY <1>1, <1>6
<1>8. Upto(N) = On(s) \cap S
  BY <1>1 DEF On
<1> QED
  BY <1>2, <1>7, <1>8

(* What the loops over URL patterns collect. *)
LEMMA VariableFieldsOn ==
  ASSUME NEW p, IsSequence(p)
  PROVE  /\ IsSequence(VariableFields(p))
         /\ On(VariableFields(p)) = { p[i].field : i \in { j \in DOMAIN p : IsVariable(p[j]) } }
<1> DEFINE N == Len(p)
           Upto(n) == { p[i].field : i \in { j \in 1..n : IsVariable(p[j]) } }
           Good(r, n) == r \in Seq(Upto(N)) /\ On(r) = Upto(n)
<1>1. p \in Seq(On(p)) /\ N \in Nat /\ DOMAIN p = 1..N
  BY DEF IsSequence, On
<1>2. PICK a : IsVariables(a, p, N) /\ VariableFields(p) = a[N]
  BY <1>1, VariablesAt
<1> HIDE DEF N
<1>3. a = [i \in 0..N |-> IF i = 0 THEN <<>>
                          ELSE IF IsVariable(p[i]) THEN Append(a[i - 1], p[i].field) ELSE a[i - 1]]
  BY <1>2 DEF IsVariables
<1> DEFINE Sound == {n \in Nat : n \in 0..N => Good(a[n], n)}
<1>4. 0 \in Sound
  <2>1. a[0] = <<>>
    BY <1>1, <1>3
  <2>2. On(<<>>) = {} /\ Upto(0) = {} /\ <<>> \in Seq(Upto(N))
    BY DEF On
  <2> HIDE DEF Upto
  <2> QED
    BY <2>1, <2>2
<1>5. ASSUME NEW n \in Nat, n \in Sound
      PROVE  n + 1 \in Sound
  <2> SUFFICES ASSUME n + 1 \in 0..N
               PROVE  Good(a[n + 1], n + 1)
    BY DEF Sound
  <2> DEFINE r == a[n]
             x == p[n + 1].field
  <2>1. n \in 0..N /\ n + 1 # 0 /\ (n + 1) - 1 = n /\ n + 1 \in 1..N
    BY <1>1
  <2>2. a[n + 1] = IF IsVariable(p[n + 1]) THEN Append(r, x) ELSE r
    BY <1>3, <2>1
  <2>3. Good(r, n)
    BY <1>5, <2>1
  <2>4. \A k : k \in 1..(n + 1) <=> k \in 1..n \/ k = n + 1
    OBVIOUS
  <2>5. Upto(n + 1) = IF IsVariable(p[n + 1]) THEN Upto(n) \cup {x} ELSE Upto(n)
    BY <2>4
  <2>6. IsVariable(p[n + 1]) => x \in Upto(N)
    BY <2>1
  <2> HIDE DEF Upto, r, x
  <2>7. CASE IsVariable(p[n + 1])
    <3>1. On(Append(r, x)) = On(r) \cup {x}
      BY <2>3, OnAppend
    <3>2. Append(r, x) \in Seq(Upto(N))
      BY <2>3, <2>6, <2>7
    <3>3. a[n + 1] = Append(r, x) /\ Upto(n + 1) = Upto(n) \cup {x}
      BY <2>2, <2>5, <2>7
    <3> QED
      BY <2>3, <3>1, <3>2, <3>3
  <2>8. CASE ~IsVariable(p[n + 1])
    BY <2>2, <2>3, <2>5, <2>8
  <2> QED
    BY <2>7, <2>8
<1>6. Nat \subseteq Sound
  <2> HIDE DEF Sound
  <2> QED
    BY <1>4, <1>5, Induct
<1>7. Good(a[N], N)
  <2>1. N \in Sound /\ N \in 0..N
    <3> HIDE DEF Sound
    <3> QED
      BY <1>1, <1>6
  <2> HIDE DEF Good
  <2> QED
    BY <2>1
<1> HIDE DEF Upto
<1>8. VariableFields(p) \in Seq(On(VariableFields(p)))
  BY <1>2, <1>7
<1> QED
  BY <1>1, <1>2, <1>7, <1>8 DEF Upto, IsSequence, On

(* The elements of a concatenation. *)
LEMMA OnConcat ==
  ASSUME NEW S, NEW s \in Seq(S), NEW t \in Seq(S)
  PROVE  On(s \o t) = On(s) \cup On(t)
<1> DEFINE q == s \o t
<1>1. /\ Len(s) \in Nat /\ Len(t) \in Nat /\ DOMAIN s = 1..Len(s) /\ DOMAIN t = 1..Len(t)
      /\ q \in Seq(S) /\ Len(q) = Len(s) + Len(t) /\ DOMAIN q = 1..(Len(s) + Len(t))
  OBVIOUS
<1>2. \A i \in 1..(Len(s) + Len(t)) : q[i] = IF i <= Len(s) THEN s[i] ELSE t[i - Len(s)]
  BY <1>1
<1> HIDE DEF q
<1>3. ASSUME NEW i \in 1..Len(s)
      PROVE  s[i] \in On(q)
  <2>1. i \in 1..(Len(s) + Len(t)) /\ i <= Len(s)
    BY <1>1
  <2> QED
    BY <1>1, <1>2, <2>1 DEF On
<1>4. ASSUME NEW i \in 1..Len(t)
      PROVE  t[i] \in On(q)
  <2>1. Len(s) + i \in 1..(Len(s) + Len(t)) /\ ~(Len(s) + i <= Len(s)) /\ (Len(s) + i) - Len(s) = i
    BY <1>1
  <2>2. q[Len(s) + i] = t[i]
    BY <1>2, <2>1
  <2> QED
    BY <1>1, <2>1, <2>2 DEF On
<1>5. ASSUME NEW i \in 1..(Len(s) + Len(t))
      PROVE  q[i] \in On(s) \cup On(t)
  <2>1. CASE i <= Len(s)
    BY <1>1, <1>2, <2>1 DEF On
  <2>2. CASE ~(i <= Len(s))
    <3>1. i - Len(s) \in 1..Len(t)
      BY <1>1, <2>2
    <3> QED
      BY <1>1, <1>2, <2>2, <3>1 DEF On
  <2> QED
    BY <2>1, <2>2
<1>6. On(q) \subseteq On(s) \cup On(t)
  BY <1>1, <1>5 DEF On
<1>7. On(s) \subseteq On(q) /\ On(t) \subseteq On(q)
  BY <1>1, <1>3, <1>4 DEF On
<1> QED
  BY <1>6, <1>7 DEF q

LEMMA FieldsInOn ==
  ASSUME NEW ps, IsSequence(ps), \A i \in DOMAIN ps : IsSequence(ps[i])
  PROVE  /\ IsSequence(FieldsIn(ps))
         /\ On(FieldsIn(ps)) = UNION { On(VariableFields(ps[i])) : i \in DOMAIN ps }
<1> DEFINE N == Len(ps)
           Upto(n) == UNION { On(VariableFields(ps[i])) : i \in 1..n }
           Good(r, n) == r \in Seq(Upto(N)) /\ On(r) = Upto(n)
<1>1. ps \in Seq(On(ps)) /\ N \in Nat /\ DOMAIN ps = 1..N
  BY DEF IsSequence, On
<1>2. PICK a : IsNamed(a, ps, N) /\ FieldsIn(ps) = a[N]
  BY <1>1, NamedAt
<1> HIDE DEF N
<1>3. a = [i \in 0..N |-> IF i = 0 THEN <<>> ELSE a[i - 1] \o VariableFields(ps[i])]
  BY <1>2 DEF IsNamed
<1> DEFINE Sound == {n \in Nat : n \in 0..N => Good(a[n], n)}
<1>4. 0 \in Sound
  <2>1. a[0] = <<>>
    BY <1>1, <1>3
  <2>2. On(<<>>) = {} /\ Upto(0) = {} /\ <<>> \in Seq(Upto(N))
    BY DEF On
  <2> HIDE DEF Upto
  <2> QED
    BY <2>1, <2>2
<1>5. ASSUME NEW n \in Nat, n \in Sound
      PROVE  n + 1 \in Sound
  <2> SUFFICES ASSUME n + 1 \in 0..N
               PROVE  Good(a[n + 1], n + 1)
    BY DEF Sound
  <2> DEFINE r == a[n]
             x == VariableFields(ps[n + 1])
  <2>1. n \in 0..N /\ n + 1 # 0 /\ (n + 1) - 1 = n /\ n + 1 \in 1..N
    BY <1>1
  <2>2. a[n + 1] = r \o x
    BY <1>3, <2>1
  <2>3. Good(r, n)
    BY <1>5, <2>1
  <2>4. \A k : k \in 1..(n + 1) <=> k \in 1..n \/ k = n + 1
    OBVIOUS
  <2>5. Upto(n + 1) = Upto(n) \cup On(x)
    BY <2>4
  <2>6. On(x) \subseteq Upto(N)
    BY <2>1
  <2>7. x \in Seq(On(x))
    <3>1. IsSequence(ps[n + 1])
      BY <1>1, <2>1
    <3>2. IsSequence(x)
      BY <3>1, VariableFieldsOn
    <3> QED
      BY <3>2 DEF IsSequence, On
  <2> HIDE DEF Upto, r, x
  <2>8. x \in Seq(Upto(N)) /\ r \in Seq(Upto(N))
    BY <2>3, <2>6, <2>7
  <2>9. On(r \o x) = On(r) \cup On(x) /\ r \o x \in Seq(Upto(N))
    BY <2>8, OnConcat
  <2> QED
    BY <2>2, <2>3, <2>5, <2>9
<1>6. Nat \subseteq Sound
  <2> HIDE DEF Sound
  <2> QED
    BY <1>4, <1>5, Induct
<1>7. Good(a[N], N)
  <2>1. N \in Sound /\ N \in 0..N
    <3> HIDE DEF Sound
    <3> QED
      BY <1>1, <1>6
  <2> HIDE DEF Good
  <2> QED
    BY <2>1
<1> HIDE DEF Upto
<1>8. FieldsIn(ps) \in Seq(On(FieldsIn(ps)))
  BY <1>2, <1>7
<1> QED
  BY <1>1, <1>2, <1>7, <1>8 DEF Upto, IsSequence, On

(* The map of dynamic headers, parameter by parameter. *)
IsMap(a, N) ==
  a = [i \in 0..N |-> IF i = 0 THEN [h \in {} |-> Empty] ELSE IF Matches(i)
          THEN [h \in DOMAIN a[i - 1] \cup {method.params[i].header} |->
                  IF h = method.params[i].header THEN Capture(i) ELSE a[i - 1][h]]
          ELSE a[i - 1]]

LEMMA MapExists ==
  \A N \in Nat : \E a : IsMap(a, N)
<1> DEFINE Sound == {N \in Nat : \E a : IsMap(a, N)}
           D(x, i) == IF Matches(i)
          THEN [h \in DOMAIN x \cup {method.params[i].header} |->
                  IF h = method.params[i].header THEN Capture(i) ELSE x[h]]
          ELSE x
<1>1. \A a, N : IsMap(a, N) <=> a = [i \in 0..N |-> IF i = 0 THEN [h \in {} |-> Empty] ELSE D(a[i - 1], i)]
  BY Zenon DEF IsMap
<1> HIDE DEF D
<1>2. 0 \in Sound
  <2> DEFINE a == [i \in 0..0 |-> [h \in {} |-> Empty]]
  <2>1. a = [i \in 0..0 |-> IF i = 0 THEN [h \in {} |-> Empty] ELSE D(a[i - 1], i)]
    OBVIOUS
  <2> HIDE DEF a
  <2> QED
    BY <1>1, <2>1
<1>3. ASSUME NEW N \in Nat, N \in Sound
      PROVE  N + 1 \in Sound
  <2>1. PICK a : a = [i \in 0..N |-> IF i = 0 THEN [h \in {} |-> Empty] ELSE D(a[i - 1], i)]
    BY <1>1, <1>3
  <2> DEFINE b == [i \in 0..(N + 1) |-> IF i <= N THEN a[i] ELSE D(a[N], N + 1)]
  <2>2. ASSUME NEW i \in 0..(N + 1)
        PROVE  b[i] = IF i = 0 THEN [h \in {} |-> Empty] ELSE D(b[i - 1], i)
    <3>1. CASE i = 0
      BY <2>1, <3>1
    <3>2. CASE i \in 1..N
      <4>1. i - 1 \in 0..N /\ i \in 0..N /\ i # 0
        BY <3>2
      <4>2. a[i] = D(a[i - 1], i)
        BY <2>1, <4>1
      <4> QED
        BY <4>1, <4>2
    <3>3. CASE i = N + 1
      <4>1. i - 1 = N /\ N \in 0..(N + 1) /\ ~(i <= N) /\ i # 0
        BY <3>3
      <4> QED
        BY <3>3, <4>1
    <3> QED
      BY <3>1, <3>2, <3>3
  <2>3. b = [i \in 0..(N + 1) |-> IF i = 0 THEN [h \in {} |-> Empty] ELSE D(b[i - 1], i)]
    BY <2>2
  <2> HIDE DEF b
  <2>4. IsMap(b, N + 1)
    BY <1>1, <2>3
  <2>5. N + 1 \in Nat
    OBVIOUS
  <2> QED
    BY <2>4, <2>5
<1>4. Nat \subseteq Sound
  <2> HIDE DEF Sound
  <2> QED
    BY <1>2, <1>3, Induct
<1> QED
  BY <1>4

LEMMA MapAt ==
  ASSUME Len(method.params) \in Nat
  PROVE  \E a : IsMap(a, Len(method.params)) /\ routingHeadersMap = a[Len(method.params)]
<1> DEFINE a == CHOOSE b : IsMap(b, Len(method.params))
<1>1. IsMap(a, Len(method.params))
  BY MapExists
<1>2. routingHeadersMap = a[Len(method.params)]
  BY Zenon DEF routingHeadersMap, IsMap
<1> QED
  BY <1>1, <1>2

(* The map holds the headers that some parameter captured, each with the value
   of the last one. *)
HeaderOf(i) == method.params[i].header
Last(n, h, i) ==
  /\ i \in 1..n /\ Matches(i) /\ HeaderOf(i) = h
  /\ \A j \in 1..n : Matches(j) /\ HeaderOf(j) = h => j <= i
LEMMA MapHoldsLast ==
  ASSUME IsSequence(method.params)
  PROVE  LET n == Len(method.params)
         IN  /\ DOMAIN routingHeadersMap = { HeaderOf(i) : i \in { j \in 1..n : Matches(j) } }
             /\ \A h \in DOMAIN routingHeadersMap :
                  \E i \in 1..n : Last(n, h, i) /\ routingHeadersMap[h] = Capture(i)
<1> DEFINE N == Len(method.params)
           Keys(n) == { HeaderOf(i) : i \in { j \in 1..n : Matches(j) } }
           Good(m, n) == /\ DOMAIN m = Keys(n)
                         /\ \A h \in DOMAIN m : \E i \in 1..n : Last(n, h, i) /\ m[h] = Capture(i)
<1>1. N \in Nat
  BY DEF IsSequence
<1>2. PICK a : IsMap(a, N) /\ routingHeadersMap = a[N]
  BY <1>1, MapAt
<1> HIDE DEF N
<1>3. a = [i \in 0..N |-> IF i = 0 THEN [h \in {} |-> Empty]
                          ELSE IF Matches(i)
                          THEN [h \in DOMAIN a[i - 1] \cup {HeaderOf(i)} |->
                                  IF h = HeaderOf(i) THEN Capture(i) ELSE a[i - 1][h]]
                          ELSE a[i - 1]]
  BY <1>2, Zenon DEF IsMap, HeaderOf
<1> DEFINE Sound == {n \in Nat : n \in 0..N => Good(a[n], n)}
<1>4. 0 \in Sound
  <2>1. a[0] = [h \in {} |-> Empty]
    BY <1>1, <1>3
  <2>2. Keys(0) = {}
    OBVIOUS
  <2>3. DOMAIN a[0] = {}
    BY <2>1
  <2> HIDE DEF Keys
  <2> QED
    BY <2>2, <2>3
<1>5. ASSUME NEW n \in Nat, n \in Sound
      PROVE  n + 1 \in Sound
  <2> SUFFICES ASSUME n + 1 \in 0..N
               PROVE  Good(a[n + 1], n + 1)
    BY DEF Sound
  <2> DEFINE m == a[n]
             x == HeaderOf(n + 1)
             w == a[n + 1]
  <2>1. n \in 0..N /\ n + 1 # 0 /\ (n + 1) - 1 = n /\ n + 1 \in 1..N
    BY <1>1
  <2>2. w = IF Matches(n + 1)
            THEN [h \in DOMAIN m \cup {x} |-> IF h = x THEN Capture(n + 1) ELSE m[h]]
            ELSE m
    BY <1>3, <2>1
  <2>3. Good(m, n)
    BY <1>5, <2>1
  <2>4. \A k : k \in 1..(n + 1) <=> k \in 1..n \/ k = n + 1
    OBVIOUS
  <2>5. Keys(n + 1) = IF Matches(n + 1) THEN Keys(n) \cup {x} ELSE Keys(n)
    BY <2>4
  <2>6. n + 1 \in 1..(n + 1) /\ \A j \in 1..(n + 1) : j <= n + 1
    OBVIOUS
  <2> HIDE DEF Keys, m, w
  <2>7. CASE Matches(n + 1)
    <3>1. /\ DOMAIN w = DOMAIN m \cup {x}
          /\ \A h \in DOMAIN w : w[h] = IF h = x THEN Capture(n + 1) ELSE m[h]
      BY <2>2, <2>7
    <3>2. ASSUME NEW h \in DOMAIN w
          PROVE  \E i \in 1..(n + 1) : Last(n + 1, h, i) /\ w[h] = Capture(i)
      <4>1. CASE h = x
        <5>1. Last(n + 1, h, n + 1)
          BY <2>6, <2>7, <4>1 DEF Last
        <5> QED
          BY <2>6, <3>1, <4>1, <5>1
      <4>2. CASE h # x
        <5>1. h \in DOMAIN m
          BY <3>1, <4>2
        <5>2. PICK i \in 1..n : Last(n, h, i) /\ m[h] = Capture(i)
          BY <2>3, <5>1
        <5>3. Last(n + 1, h, i)
          BY <2>4, <4>2, <5>2 DEF Last
        <5> QED
          BY <2>4, <3>1, <4>2, <5>2, <5>3
      <4> QED
        BY <4>1, <4>2
    <3>3. DOMAIN w = Keys(n + 1)
      BY <2>3, <2>5, <2>7, <3>1
    <3> QED
      BY <3>2, <3>3 DEF w
  <2>8. CASE ~Matches(n + 1)
    <3>1. w = m
      BY <2>2, <2>8
    <3>2. ASSUME NEW h \in DOMAIN w
          PROVE  \E i \in 1..(n + 1) : Last(n + 1, h, i) /\ w[h] = Capture(i)
      <4>1. PICK i \in 1..n : Last(n, h, i) /\ m[h] = Capture(i)
        BY <2>3, <3>1
      <4>2. Last(n + 1, h, i)
        BY <2>4, <2>8, <4>1 DEF Last
      <4> QED
        BY <2>4, <3>1, <4>1, <4>2
    <3>3. DOMAIN w = Keys(n + 1)
      BY <2>3, <2>5, <2>8, <3>1
    <3> QED
      BY <3>2, <3>3 DEF w
  <2> QED
    BY <2>7, <2>8
<1>6. Nat \subseteq Sound
  <2> HIDE DEF Sound
  <2> QED
    BY <1>4, <1>5, Induct
<1>7. Good(a[N], N)
  <2>1. N \in Sound /\ N \in 0..N
    <3> HIDE DEF Sound
    <3> QED
      BY <1>1, <1>6
  <2> HIDE DEF Good
  <2> QED
    BY <2>1
<1> QED
  BY <1>2, <1>7 DEF N

(* The order in which the map is written out: each of its keys once. *)
IsOrder(o, S) == On(o) = S /\ \A i, j \in DOMAIN o : o[i] = o[j] => i = j

LEMMA OrdersAreOrders ==
  ASSUME NEW S, IsFiniteSet(S), NEW o \in Orders(S)
  PROVE  IsOrder(o, S)
<1> DEFINE n == Cardinality(S)
<1>1. n \in Nat
  BY FS_CardinalityType
<1>2. o \in [1..n -> S] /\ \A i, j \in DOMAIN o : o[i] = o[j] => i = j
  BY DEF Orders
<1>3. o \in Injection(1..n, S)
  BY <1>2 DEF Injection, IsInjective
<1>4. IsFiniteSet(1..n) /\ Cardinality(1..n) = n
  BY <1>1, FS_Interval
<1>5. o \in Surjection(1..n, S)
  BY <1>3, <1>4, FS_Injection
<1>6. On(o) = S
  BY <1>2, <1>5 DEF Surjection, On
<1> QED
  BY <1>2, <1>6 DEF IsOrder

LEMMA DynamicOrder ==
  ASSUME IsSequence(method.params), NEW r \in Dynamic
  PROVE  \E o : /\ IsOrder(o, DOMAIN routingHeadersMap)
                /\ r = [i \in DOMAIN o |-> [name |-> o[i], value |-> routingHeadersMap[o[i]]]]
<1> DEFINE S == DOMAIN routingHeadersMap
           N == Len(method.params)
           J == { j \in 1..N : Matches(j) }
<1>1. N \in Nat /\ DOMAIN method.params = 1..N
  BY DEF IsSequence
<1>2. S = { HeaderOf(i) : i \in J }
  BY MapHoldsLast
<1> HIDE DEF S, N
<1>3. PICK o \in IF ordered THEN {Written} ELSE Orders(S) :
         r = [i \in DOMAIN o |-> [name |-> o[i], value |-> routingHeadersMap[o[i]]]]
  BY DEF Dynamic, S
<1>4. CASE ordered
  <2>1. o = FirstsIn(Headers, S)
    BY <1>3, <1>4 DEF Written, S
  <2>2. Headers = [i \in 1..N |-> HeaderOf(i)]
    BY <1>1 DEF Headers, HeaderOf
  <2>3. IsSequence(Headers) /\ On(Headers) = { HeaderOf(i) : i \in 1..N }
    BY <1>1, <2>2 DEF IsSequence, On
  <2>4. On(Headers) \cap S = S
    BY <1>2, <2>3
  <2>5. IsOrder(o, S)
    BY <2>1, <2>3, <2>4, FirstsOnce DEF IsOrder
  <2> QED
    BY <1>3, <2>5 DEF S
<1>5. CASE ~ordered
  <2>1. IsFiniteSet(1..N)
    BY <1>1, FS_Interval
  <2>2. IsFiniteSet(J)
    BY <2>1, FS_Subset
  <2> DEFINE f == [j \in J |-> HeaderOf(j)]
  <2>3. f \in Surjection(J, S)
    BY <1>2 DEF Surjection
  <2> HIDE DEF f, J
  <2>4. IsFiniteSet(S)
    BY <2>2, <2>3, FS_Surjection
  <2>5. o \in Orders(S)
    BY <1>3, <1>5
  <2>6. IsOrder(o, S)
    BY <2>4, <2>5, OrdersAreOrders
  <2> QED
    BY <1>3, <2>6 DEF S
<1> QED
  BY <1>4, <1>5

(* The reference definition of the property finds the parameter that the loop
   kept. *)
LEMMA LastCaptureKept ==
  ASSUME IsSequence(method.params), NEW h
  PROVE  /\ h \in DOMAIN routingHeadersMap => /\ LastCapture(h) = routingHeadersMap[h]
                                              /\ LastCapture(h) # NoMatch
         /\ h \notin DOMAIN routingHeadersMap => LastCapture(h) = NoMatch
<1> DEFINE N == Len(method.params)
           named == { i \in DOMAIN method.params :
                        /\ method.params[i].header = h
                        /\ Capture(i) # NoMatch /\ Capture(i) # Empty }
           last == CHOOSE i \in named : \A j \in named : j <= i
<1>1. N \in Nat /\ DOMAIN method.params = 1..N
  BY DEF IsSequence
<1>2. LastCapture(h) = IF named = {} THEN NoMatch ELSE Capture(last)
  BY DEF LastCapture
<1>3. named = { i \in 1..N : Matches(i) /\ HeaderOf(i) = h }
  BY <1>1 DEF Matches, HeaderOf
<1>4. DOMAIN routingHeadersMap = { HeaderOf(i) : i \in { j \in 1..N : Matches(j) } }
  BY MapHoldsLast
<1>5. \A g \in DOMAIN routingHeadersMap :
        \E i \in 1..N : Last(N, g, i) /\ routingHeadersMap[g] = Capture(i)
  BY MapHoldsLast
<1> HIDE DEF N
<1>6. CASE h \notin DOMAIN routingHeadersMap
  <2>1. named = {}
    BY <1>3, <1>4, <1>6
  <2> QED
    BY <1>2, <1>6, <2>1
<1>7. CASE h \in DOMAIN routingHeadersMap
  <2>1. PICK k \in 1..N : Last(N, h, k) /\ routingHeadersMap[h] = Capture(k)
    BY <1>5, <1>7
  <2>2. k \in named /\ \A j \in named : j <= k
    BY <1>3, <2>1 DEF Last
  <2>3. \A i \in named : i \in Nat
    BY <1>1, <1>3
  <2> HIDE DEF named
  <2>4. last \in named /\ \A j \in named : j <= last
    BY <2>2
  <2>5. last = k
    <3> HIDE DEF last
    <3>1. last <= k /\ k <= last /\ last \in Nat /\ k \in Nat
      BY <2>2, <2>3, <2>4
    <3> QED
      BY <3>1
  <2>6. Capture(k) # NoMatch
    BY <2>1 DEF Last, Matches
  <2> QED
    BY <1>2, <1>7, <2>1, <2>2, <2>5, <2>6
<1> QED
  BY <1>6, <1>7

(* RoutedOnce: whatever the annotation and the captures are, a routing header
   is sent once, with the value of the last parameter that names it and
   captures anything, in the order of the annotation or in any order; without
   an annotation each field of the URL once (insertDynamicRequestHeaders,
   insertImplicitRequestHeaders).  The map holds the last capture by induction
   over the parameters, FirstsIn each element once by induction over them. *)
THEOREM HeadersAlwaysRoutedOnce == Spec => []RoutedOnce
<1>1. Computed => RoutedOnce
  <2> SUFFICES ASSUME Computed, pc = "sent"
               PROVE  RoutedOnce
    BY DEF RoutedOnce
  <2>1. method \in Methods /\ url = pathParams(method) /\ routing \in RoutingOf
    BY DEF Computed
  <2>2. IsSequence(method.params) /\ IsSequence(method.patterns) /\ method.patterns # <<>>
    BY <2>1, TranscodingAssumption
  <2>3. \A i \in DOMAIN method.patterns : IsSequence(method.patterns[i])
    BY <2>1, TranscodingAssumption
  <2>4. CASE method.dynamic
    <3>1. routing \in Dynamic
      BY <2>1, <2>4 DEF RoutingOf
    <3>2. PICK o : /\ IsOrder(o, DOMAIN routingHeadersMap)
                   /\ routing = [i \in DOMAIN o |-> [name |-> o[i], value |-> routingHeadersMap[o[i]]]]
      BY <2>2, <3>1, DynamicOrder
    <3>3. DOMAIN routing = DOMAIN o /\ \A i \in DOMAIN o : routing[i].name = o[i]
      BY <3>2
    <3>4. \A i, j \in DOMAIN routing : routing[i].name = routing[j].name => i = j
      BY <3>2, <3>3 DEF IsOrder
    <3>5. ASSUME NEW h, LastCapture(h) = NoMatch
          PROVE  \A i \in DOMAIN routing : routing[i].name # h
      <4>1. h \notin DOMAIN routingHeadersMap
        BY <2>2, <3>5, LastCaptureKept
      <4> QED
        BY <3>2, <3>3, <4>1 DEF IsOrder, On
    <3>6. ASSUME NEW h, LastCapture(h) # NoMatch
          PROVE  \E i \in DOMAIN routing : routing[i] = [name |-> h, value |-> LastCapture(h)]
      <4>1. h \in DOMAIN routingHeadersMap /\ LastCapture(h) = routingHeadersMap[h]
        BY <2>2, <3>6, LastCaptureKept
      <4>2. PICK i \in DOMAIN o : o[i] = h
        BY <3>2, <4>1 DEF IsOrder, On
      <4> QED
        BY <3>2, <4>1, <4>2
    <3> QED
      BY <2>4, <3>4, <3>5, <3>6 DEF RoutedOnce
  <2>5. CASE ~method.dynamic
    <3> DEFINE fields == FieldsIn(method.patterns)
               o == FirstsIn(fields, On(fields))
    <3>1. routing = [i \in DOMAIN o |-> [name |-> o[i], value |-> text[o[i]]]]
      BY <2>1, <2>5 DEF RoutingOf, Implicit
    <3>2. IsSequence(fields)
          /\ On(fields) = UNION { On(VariableFields(method.patterns[i])) : i \in DOMAIN method.patterns }
      BY <2>2, <2>3, FieldsInOn
    <3>3. 1 \in DOMAIN method.patterns
      BY <2>2 DEF IsSequence
    <3>4. On(VariableFields(method.patterns[1])) = url
      BY <2>1, <2>3, <3>3, VariableFieldsOn DEF pathParams
    <3>5. url \subseteq On(fields)
      BY <3>2, <3>3, <3>4
    <3> HIDE DEF fields
    <3>6. /\ On(o) = On(fields) \cap On(fields)
          /\ \A i, j \in DOMAIN o : o[i] = o[j] => i = j
      BY <3>2, FirstsOnce
    <3> HIDE DEF o
    <3>7. DOMAIN routing = DOMAIN o /\ \A i \in DOMAIN o : routing[i].name = o[i]
      BY <3>1
    <3>8. \A i, j \in DOMAIN routing : routing[i].name = routing[j].name => i = j
      BY <3>6, <3>7
    <3>9. ASSUME NEW p \in url
          PROVE  \E i \in DOMAIN routing : routing[i] = [name |-> p, value |-> text[p]]
      <4>1. PICK i \in DOMAIN o : o[i] = p
        BY <3>5, <3>6 DEF On
      <4> QED
        BY <3>1, <4>1
    <3> QED
      BY <2>5, <3>8, <3>9 DEF RoutedOnce
  <2> QED
    BY <2>4, <2>5
<1>2. Spec => []Computed
  BY ComputedAlways
<1> QED
  BY <1>1, <1>2, PTL

-------------------------------------------------------------------------------
(* The greatest and the least of a set of numbers. *)
LEMMA MaxOf ==
  ASSUME NEW N \in Nat, NEW S \in SUBSET (0..N), S # {}
  PROVE  /\ Max(S) \in S /\ \A y \in S : y <= Max(S)
         /\ \A x \in S : (\A y \in S : y <= x) => Max(S) = x
<1> DEFINE Sound == {n \in Nat : \A T \in SUBSET (0..n) : T # {} => \E x \in T : \A y \in T : x >= y}
<1>1. 0 \in Sound
  <2> SUFFICES ASSUME NEW T \in SUBSET (0..0), T # {}
               PROVE  \E x \in T : \A y \in T : x >= y
    OBVIOUS
  <2>1. \A x \in T : x = 0
    OBVIOUS
  <2>2. PICK x \in T : TRUE
    OBVIOUS
  <2>3. x = 0 /\ \A y \in T : x >= y
    BY <2>1
  <2> QED
    BY <2>3
<1>2. ASSUME NEW n \in Nat, n \in Sound
      PROVE  n + 1 \in Sound
  <2> SUFFICES ASSUME NEW T \in SUBSET (0..(n + 1)), T # {}
               PROVE  \E x \in T : \A y \in T : x >= y
    OBVIOUS
  <2>1. CASE n + 1 \in T
    BY <2>1
  <2>2. CASE n + 1 \notin T
    <3>1. \A x \in T : x \in 0..n
      BY <2>2
    <3>2. T \in SUBSET (0..n)
      BY <3>1
    <3> QED
      BY <1>2, <3>2
  <2> QED
    BY <2>1, <2>2
<1>3. Nat \subseteq Sound
  <2> HIDE DEF Sound
  <2> QED
    BY <1>1, <1>2, Induct
<1>4. \E x \in S : \A y \in S : x >= y
  BY <1>3
<1>5. Max(S) \in S /\ \A y \in S : Max(S) >= y
  BY <1>4 DEF Max
<1> DEFINE m == Max(S)
<1>6. m \in S /\ \A y \in S : m >= y
  BY <1>5
<1> HIDE DEF m
<1>7. \A y \in S : y \in Nat
  OBVIOUS
<1>8. \A y \in S : y <= m
  BY <1>6, <1>7
<1>9. \A x \in S : (\A y \in S : y <= x) => m = x
  BY <1>6, <1>7
<1> QED
  BY <1>6, <1>8, <1>9 DEF m

LEMMA MinOf ==
  ASSUME NEW S \in SUBSET Nat, S # {}
  PROVE  Min(S) \in S
<1> DEFINE Sound == {n \in Nat : \A k \in 0..n : k \in S => \E x \in S : \A y \in S : x =< y}
<1>1. 0 \in Sound
  OBVIOUS
<1>2. ASSUME NEW n \in Nat, n \in Sound
      PROVE  n + 1 \in Sound
  <2> SUFFICES ASSUME n + 1 \in S
               PROVE  \E x \in S : \A y \in S : x =< y
    <3>1. \A k : k \in 0..(n + 1) <=> k \in 0..n \/ k = n + 1
      OBVIOUS
    <3> QED
      BY <1>2, <3>1
  <2>1. CASE \E k \in 0..n : k \in S
    BY <1>2, <2>1
  <2>2. CASE ~\E k \in 0..n : k \in S
    <3>1. \A y \in S : n + 1 =< y
      BY <2>2
    <3> QED
      BY <3>1
  <2> QED
    BY <2>1, <2>2
<1>3. Nat \subseteq Sound
  <2> HIDE DEF Sound
  <2> QED
    BY <1>1, <1>2, Induct
<1>4. \E x \in S : \A y \in S : x =< y
  <2>1. PICK k \in S : TRUE
    OBVIOUS
  <2>2. k \in Sound /\ k \in 0..k
    <3> HIDE DEF Sound
    <3> QED
      BY <1>3
  <2> QED
    BY <2>1, <2>2
<1> QED
  BY <1>4 DEF Min

-------------------------------------------------------------------------------
(* The loop of FirstIndex: where the chain of names that ends at f begins, from
   where the two chains before it begin. *)
Root(x, y, f, p, v) ==
  IF f = 1 THEN 1
  ELSE IF ~IsVariable(p[f - 1])
       THEN IF IsVersion(p[f - 1]) THEN f ELSE x
  ELSE IF f < 3 THEN f
  ELSE IF Known(p[f - 2], v) THEN y
  ELSE IF IsVersion(p[f - 2]) THEN f - 1
  ELSE f
IsRoots(a, p, v, N) == a = [f \in 1..N |-> Root(a[f - 1], a[f - 2], f, p, v)]

LEMMA RootsExist ==
  ASSUME NEW p, NEW v
  PROVE  \A N \in Nat : \E a : IsRoots(a, p, v, N)
<1> DEFINE Sound == {N \in Nat : \E a : IsRoots(a, p, v, N)}
           D(x, y, f) == Root(x, y, f, p, v)
<1>1. \A a, N : IsRoots(a, p, v, N) <=> a = [f \in 1..N |-> D(a[f - 1], a[f - 2], f)]
  BY Zenon DEF IsRoots
<1>2. \A x, y, z, w : D(x, y, 1) = D(z, w, 1) /\ D(x, y, 2) = D(x, w, 2)
  BY DEF Root
<1> HIDE DEF D
<1>3. 0 \in Sound
  <2> DEFINE a == [f \in 1..0 |-> 1]
  <2>1. a = [f \in 1..0 |-> D(a[f - 1], a[f - 2], f)]
    OBVIOUS
  <2> HIDE DEF a
  <2> QED
    BY <1>1, <2>1
<1>4. ASSUME NEW N \in Nat, N \in Sound
      PROVE  N + 1 \in Sound
  <2>1. PICK a : a = [f \in 1..N |-> D(a[f - 1], a[f - 2], f)]
    BY <1>1, <1>4
  <2> DEFINE b == [f \in 1..(N + 1) |-> IF f <= N THEN a[f] ELSE D(a[N], a[N - 1], N + 1)]
  <2>2. \A f \in 1..N : b[f] = a[f] /\ a[f] = D(a[f - 1], a[f - 2], f)
    <3>1. \A f \in 1..N : a[f] = D(a[f - 1], a[f - 2], f)
      BY <2>1
    <3> QED
      BY <3>1
  <2>3. b[N + 1] = D(a[N], a[N - 1], N + 1)
    OBVIOUS
  <2>4. DOMAIN b = 1..(N + 1) /\ b = [f \in 1..(N + 1) |-> b[f]]
    OBVIOUS
  <2> HIDE DEF b
  <2>5. ASSUME NEW f \in 1..(N + 1)
        PROVE  b[f] = D(b[f - 1], b[f - 2], f)
    <3>1. b[f] = D(a[f - 1], a[f - 2], f)
      <4>1. CASE f \in 1..N
        BY <2>2, <4>1
      <4>2. CASE f = N + 1
        <5>1. f - 1 = N /\ f - 2 = N - 1
          BY <4>2
        <5> QED
          BY <2>3, <4>2, <5>1
      <4> QED
        BY <4>1, <4>2
    <3>2. CASE f = 1
      BY <1>2, <3>1, <3>2
    <3>3. CASE f = 2
      <4>1. f - 1 = 1 /\ 1 \in 1..N
        BY <3>3
      <4>2. a[f - 1] = b[f - 1]
        BY <2>2, <4>1
      <4>3. D(a[f - 1], a[f - 2], 2) = D(a[f - 1], b[f - 2], 2)
        BY <1>2
      <4> QED
        BY <3>1, <3>3, <4>2, <4>3
    <3>4. CASE f > 2
      <4>1. f - 1 \in 1..N /\ f - 2 \in 1..N
        BY <3>4
      <4> QED
        BY <2>2, <3>1, <4>1
    <3> QED
      BY <3>2, <3>3, <3>4
  <2>6. b = [f \in 1..(N + 1) |-> D(b[f - 1], b[f - 2], f)]
    BY <2>4, <2>5
  <2>7. IsRoots(b, p, v, N + 1)
    BY <1>1, <2>6
  <2>8. N + 1 \in Nat
    OBVIOUS
  <2> QED
    BY <2>7, <2>8
<1>5. Nat \subseteq Sound
  <2> HIDE DEF Sound
  <2> QED
    BY <1>3, <1>4, Induct
<1> QED
  BY <1>5

LEMMA FirstIndexRoots ==
  ASSUME NEW p, NEW v, Len(p) \in Nat
  PROVE  \A f \in 1..Len(p) :
           FirstIndex(p, v)[f] = Root(FirstIndex(p, v)[f - 1], FirstIndex(p, v)[f - 2], f, p, v)
<1> DEFINE a == CHOOSE b : IsRoots(b, p, v, Len(p))
<1>1. IsRoots(a, p, v, Len(p))
  BY RootsExist
<1>2. FirstIndex(p, v) = a
  BY Zenon DEF FirstIndex, IsRoots, Root
<1> HIDE DEF a
<1> QED
  BY <1>1, <1>2 DEF IsRoots

(* Every variable up to f has a noun or a version of its own, and no version
   comes after a variable: what Nameable asks of its elements. *)
Paired(p, f, v) ==
  \A k \in 1..f :
    /\ IsVariable(p[k]) => k > 1 /\ (Known(p[k - 1], v) \/ IsVersion(p[k - 1]))
    /\ IsVersion(p[k]) => \A j \in 1..k : ~IsVariable(p[j])
Bounded(p, L, f) ==   (* a chain starts at the pattern or at its last version *)
  /\ \A k \in L..f : ~IsVersion(p[k])
  /\ L = 1 \/ IsVersion(p[L - 1])
Literal(segment) == ~IsVariable(segment) /\ ~IsVersion(segment)

(* How Paired and Connected change with one segment more. *)
LEMMA SegmentKinds ==
  ASSUME NEW x, NEW v
  PROVE  /\ Known(x, v) => Literal(x)
         /\ ~(IsVariable(x) /\ IsVersion(x))
BY DEF Known, Literal, IsVariable, IsVersion

LEMMA PairedStep ==
  ASSUME NEW p, NEW v, NEW f \in Nat
  PROVE  Paired(p, f + 1, v) <=>
           /\ Paired(p, f, v)
           /\ IsVariable(p[f + 1]) => f + 1 > 1 /\ (Known(p[f], v) \/ IsVersion(p[f]))
           /\ IsVersion(p[f + 1]) => \A j \in 1..(f + 1) : ~IsVariable(p[j])
<1>1. \A k : k \in 1..(f + 1) <=> k \in 1..f \/ k = f + 1
  OBVIOUS
<1>2. (f + 1) - 1 = f
  OBVIOUS
<1> QED
  BY <1>1, <1>2 DEF Paired

LEMMA ConnectedStep ==
  ASSUME NEW p, NEW f \in Nat \ {0}
  PROVE  Connected(p, f + 1) <=> Connected(p, f) /\ ~IsVariable(p[f])
<1>1. \A k : k \in 1..((f + 1) - 1) <=> k \in 1..(f - 1) \/ k = f
  OBVIOUS
<1> QED
  BY <1>1 DEF Connected

(* No variable at all is as good as every variable paired. *)
LEMMA ConnectedPaired ==
  ASSUME NEW p, NEW v, NEW f \in Nat, Connected(p, f + 1)
  PROVE  Paired(p, f, v)
<1>1. \A k \in 1..f : ~IsVariable(p[k])
  BY DEF Connected
<1>2. \A k \in 1..f : \A j \in 1..k : j \in 1..f
  OBVIOUS
<1> QED
  BY <1>1, <1>2 DEF Paired

(* After a version, paired means that there is no variable at all. *)
LEMMA VersionConnected ==
  ASSUME NEW p, NEW v, NEW f \in Nat \ {0}, IsVersion(p[f])
  PROVE  Paired(p, f, v) <=> Connected(p, f + 1)
<1>1. ASSUME Paired(p, f, v)
      PROVE  Connected(p, f + 1)
  <2>1. \A j \in 1..f : ~IsVariable(p[j])
    BY <1>1 DEF Paired
  <2>2. (f + 1) - 1 = f
    OBVIOUS
  <2> QED
    BY <2>1, <2>2 DEF Connected
<1> QED
  BY <1>1, ConnectedPaired

(* The chain of a literal begins where no variable is left of it exactly if
   everything before the literal is paired, and then it starts the name. *)
Rooted(p, f, v) ==
  LET L == FirstIndex(p, v)[f]
  IN  /\ L \in 1..f
      /\ Connected(p, L) <=> Paired(p, f, v)
      /\ Connected(p, L) => Bounded(p, L, f)

LEMMA ChainsRooted ==
  ASSUME NEW p, NEW v, Len(p) \in Nat
  PROVE  \A f \in 1..Len(p) : Literal(p[f]) => Rooted(p, f, v)
<1> DEFINE N == Len(p)
           F == FirstIndex(p, v)
           Sound == {n \in Nat : \A f \in 1..n : f \in 1..N /\ Literal(p[f]) => Rooted(p, f, v)}
<1>0. N \in Nat
  OBVIOUS
<1>1. \A f \in 1..N : F[f] = Root(F[f - 1], F[f - 2], f, p, v)
  BY FirstIndexRoots
<1>2. \A f : Rooted(p, f, v) <=>
        /\ F[f] \in 1..f
        /\ Connected(p, F[f]) <=> Paired(p, f, v)
        /\ Connected(p, F[f]) => Bounded(p, F[f], f)
  BY DEF Rooted
<1> HIDE DEF F, N
<1>3. 0 \in Sound
  OBVIOUS
<1>4. ASSUME NEW n \in Nat, n \in Sound
      PROVE  n + 1 \in Sound
  <2> DEFINE f == n + 1
  <2> SUFFICES ASSUME f \in 1..N, Literal(p[f])
               PROVE  Rooted(p, f, v)
    <3>1. \A k : k \in 1..(n + 1) <=> k \in 1..n \/ k = n + 1
      OBVIOUS
    <3> QED
      BY <1>4, <3>1
  <2>1. f \in Nat \ {0} /\ f - 1 = n /\ 1 \in 1..f /\ f \in 1..f
    OBVIOUS
  <2>2. F[f] = Root(F[f - 1], F[f - 2], f, p, v)
    BY <1>1
  <2>3. ~IsVariable(p[f]) /\ ~IsVersion(p[f])
    BY DEF Literal
  <2>4. CASE f = 1
    <3>1. F[f] = 1
      BY <2>2, <2>4 DEF Root
    <3>2. Connected(p, 1) /\ Paired(p, 1, v)
      BY <2>3, <2>4 DEF Connected, Paired
    <3>3. Bounded(p, 1, 1)
      BY <2>3, <2>4 DEF Bounded
    <3> QED
      BY <1>2, <2>4, <3>1, <3>2, <3>3
  <2>5. CASE f # 1 /\ IsVersion(p[n])
    <3>1. ~IsVariable(p[n]) /\ n \in Nat \ {0}
      BY <2>5, SegmentKinds
    <3>2. F[f] = f
      BY <2>1, <2>2, <2>5, <3>1 DEF Root
    <3>3. Paired(p, f, v) <=> Paired(p, n, v)
      BY <2>3, PairedStep
    <3>4. Paired(p, n, v) <=> Connected(p, f)
      BY <2>5, <3>1, VersionConnected
    <3>5. Bounded(p, f, f)
      <4>1. \A k \in f..f : k = f
        OBVIOUS
      <4> QED
        BY <2>1, <2>3, <2>5, <4>1 DEF Bounded
    <3> QED
      BY <1>2, <2>1, <3>2, <3>3, <3>4, <3>5
  <2>6. CASE f # 1 /\ Literal(p[n])
    <3>1. n \in 1..n /\ n \in 1..N /\ ~IsVariable(p[n]) /\ ~IsVersion(p[n])
      BY <1>0, <2>6 DEF Literal
    <3>2. F[f] = F[n]
      BY <2>1, <2>2, <2>6, <3>1 DEF Root
    <3>3. Rooted(p, n, v)
      BY <1>4, <2>6, <3>1
    <3>4. Paired(p, f, v) <=> Paired(p, n, v)
      BY <2>3, PairedStep
    <3>5. F[n] \in 1..n
      BY <1>2, <3>3
    <3>6. Bounded(p, F[n], n) => Bounded(p, F[n], f)
      <4>1. \A k \in F[n]..f : k \in F[n]..n \/ k = f
        BY <3>5
      <4> QED
        BY <2>3, <4>1 DEF Bounded
    <3>7. F[n] \in 1..f
      BY <3>5
    <3> QED
      BY <1>2, <3>2, <3>3, <3>4, <3>6, <3>7
  <2>7. CASE f # 1 /\ IsVariable(p[n])
    <3>1. n \in 1..N /\ n \in Nat \ {0} /\ ~IsVersion(p[n])
      BY <1>0, <2>7, SegmentKinds
    <3>2. Paired(p, f, v) <=> Paired(p, n, v)
      BY <2>3, PairedStep
    <3>3. ~Connected(p, f)
      BY <2>7, <3>1, ConnectedStep
    <3>4. CASE f < 3
      <4>1. F[f] = f
        BY <2>1, <2>2, <2>7, <3>4 DEF Root
      <4>2. n = 1
        BY <3>1, <3>4
      <4>3. ~Paired(p, n, v)
        BY <2>7, <4>2 DEF Paired
      <4> QED
        BY <1>2, <2>1, <3>2, <3>3, <4>1, <4>3
    <3>5. CASE ~(f < 3)
      <4> DEFINE g == n - 1
      <4>1. g \in Nat \ {0} /\ f - 2 = g /\ g + 1 = n /\ g \in 1..n /\ g \in 1..N /\ n > 1
        BY <1>0, <3>1, <3>5
      <4> HIDE DEF g
      <4>2. Paired(p, n, v) <=> Paired(p, g, v) /\ (Known(p[g], v) \/ IsVersion(p[g]))
        BY <2>7, <3>1, <4>1, PairedStep
      <4>3. CASE Known(p[g], v)
        <5>1. F[f] = F[g]
          BY <2>1, <2>2, <2>7, <3>5, <4>1, <4>3 DEF Root
        <5>2. Rooted(p, g, v)
          BY <1>4, <4>1, <4>3, SegmentKinds
        <5>3. F[g] \in 1..g
          BY <1>2, <5>2
        <5>4. Bounded(p, F[g], g) => Bounded(p, F[g], f)
          <6>1. \A k \in F[g]..f : k \in F[g]..g \/ k = n \/ k = f
            BY <4>1, <5>3
          <6> QED
            BY <2>3, <3>1, <6>1 DEF Bounded
        <5>5. F[g] \in 1..f
          BY <4>1, <5>3
        <5> QED
          BY <1>2, <3>2, <4>2, <4>3, <5>1, <5>2, <5>4, <5>5
      <4>4. CASE IsVersion(p[g])
        <5>1. ~Known(p[g], v)
          BY <4>4, SegmentKinds DEF Literal
        <5>2. F[f] = n
          BY <2>1, <2>2, <2>7, <3>5, <4>1, <4>4, <5>1 DEF Root
        <5>3. Paired(p, g, v) <=> Connected(p, n)
          BY <4>1, <4>4, VersionConnected
        <5>4. Bounded(p, n, f)
          <6>1. \A k \in n..f : k = n \/ k = f
            OBVIOUS
          <6>2. n - 1 = g
            BY <4>1
          <6> QED
            BY <2>3, <3>1, <4>4, <6>1, <6>2 DEF Bounded
        <5>5. n \in 1..f
          BY <3>1
        <5> QED
          BY <1>2, <3>2, <4>2, <4>4, <5>2, <5>3, <5>4, <5>5
      <4>5. CASE ~Known(p[g], v) /\ ~IsVersion(p[g])
        <5>1. F[f] = f
          BY <2>1, <2>2, <2>7, <3>5, <4>1, <4>5 DEF Root
        <5> QED
          BY <1>2, <2>1, <3>2, <3>3, <4>2, <4>5, <5>1
      <4> QED
        BY <4>3, <4>4, <4>5
    <3> QED
      BY <3>4, <3>5
  <2> QED
    BY <2>4, <2>5, <2>6, <2>7 DEF Literal
<1>5. Nat \subseteq Sound
  <2> HIDE DEF Sound
  <2> QED
    BY <1>3, <1>4, Induct
<1>6. N \in Sound
  BY <1>0, <1>5
<1> QED
  BY <1>6 DEF N

-------------------------------------------------------------------------------
(* The loop of Target, and what it spells when there is no version. *)
Spelled(segment) == IF IsVariable(segment) THEN "%v" ELSE segment.name
IsFormats(a, q, N) ==
  a = [i \in 0..N |-> IF i = 0 THEN <<>> ELSE IF IsVersion(q[i]) THEN a[i - 1] ELSE Append(a[i - 1], Spelled(q[i]))]

LEMMA FormatsExist ==
  ASSUME NEW q
  PROVE  \A N \in Nat : \E a : IsFormats(a, q, N)
<1> DEFINE Sound == {N \in Nat : \E a : IsFormats(a, q, N)}
           D(x, i) == IF IsVersion(q[i]) THEN x ELSE Append(x, Spelled(q[i]))
<1>1. \A a, N : IsFormats(a, q, N) <=> a = [i \in 0..N |-> IF i = 0 THEN <<>> ELSE D(a[i - 1], i)]
  BY Zenon DEF IsFormats
<1> HIDE DEF D
<1>2. 0 \in Sound
  <2> DEFINE a == [i \in 0..0 |-> <<>>]
  <2>1. a = [i \in 0..0 |-> IF i = 0 THEN <<>> ELSE D(a[i - 1], i)]
    OBVIOUS
  <2> HIDE DEF a
  <2> QED
    BY <1>1, <2>1
<1>3. ASSUME NEW N \in Nat, N \in Sound
      PROVE  N + 1 \in Sound
  <2>1. PICK a : a = [i \in 0..N |-> IF i = 0 THEN <<>> ELSE D(a[i - 1], i)]
    BY <1>1, <1>3
  <2> DEFINE b == [i \in 0..(N + 1) |-> IF i <= N THEN a[i] ELSE D(a[N], N + 1)]
  <2>2. ASSUME NEW i \in 0..(N + 1)
        PROVE  b[i] = IF i = 0 THEN <<>> ELSE D(b[i - 1], i)
    <3>1. CASE i = 0
      BY <2>1, <3>1
    <3>2. CASE i \in 1..N
      <4>1. i - 1 \in 0..N /\ i \in 0..N /\ i # 0
        BY <3>2
      <4>2. a[i] = D(a[i - 1], i)
        BY <2>1, <4>1
      <4> QED
        BY <4>1, <4>2
    <3>3. CASE i = N + 1
      <4>1. i - 1 = N /\ N \in 0..(N + 1) /\ ~(i <= N) /\ i # 0
        BY <3>3
      <4> QED
        BY <3>3, <4>1
    <3> QED
      BY <3>1, <3>2, <3>3
  <2>3. b = [i \in 0..(N + 1) |-> IF i = 0 THEN <<>> ELSE D(b[i - 1], i)]
    BY <2>2
  <2> HIDE DEF b
  <2>4. IsFormats(b, q, N + 1)
    BY <1>1, <2>3
  <2>5. N + 1 \in Nat
    OBVIOUS
  <2> QED
    BY <2>4, <2>5
<1>4. Nat \subseteq Sound
  <2> HIDE DEF Sound
  <2> QED
    BY <1>2, <1>3, Induct
<1> QED
  BY <1>4

(* Without versions the name has one part for each segment. *)
LEMMA FormatWhole ==
  ASSUME NEW q, Len(q) \in Nat, \A i \in 1..Len(q) : ~IsVersion(q[i])
  PROVE  /\ Len(Target(q).format) = Len(q)
         /\ \A i \in 1..Len(q) : Target(q).format[i] = Spelled(q[i])
         /\ Target(q).fields = VariableFields(q)
<1> DEFINE N == Len(q)
           a == CHOOSE b : IsFormats(b, q, N)
           X == { Spelled(q[i]) : i \in 1..N }
           Good(r, n) == r \in Seq(X) /\ Len(r) = n /\ \A i \in 1..n : r[i] = Spelled(q[i])
           Sound == {n \in Nat : n \in 0..N => Good(a[n], n)}
<1>1. IsFormats(a, q, N)
  BY FormatsExist
<1>2. Target(q) = [format |-> a[N], fields |-> VariableFields(q)]
  BY Zenon DEF Target, IsFormats, Spelled
<1> HIDE DEF a
<1>3. a = [i \in 0..N |-> IF i = 0 THEN <<>>
                          ELSE IF IsVersion(q[i]) THEN a[i - 1] ELSE Append(a[i - 1], Spelled(q[i]))]
  BY <1>1 DEF IsFormats
<1>4. 0 \in Sound
  BY <1>3
<1>5. ASSUME NEW n \in Nat, n \in Sound
      PROVE  n + 1 \in Sound
  <2> SUFFICES ASSUME n + 1 \in 0..N
               PROVE  Good(a[n + 1], n + 1)
    BY DEF Sound
  <2> DEFINE r == a[n]
             x == Spelled(q[n + 1])
  <2>1. n \in 0..N /\ n + 1 # 0 /\ (n + 1) - 1 = n /\ n + 1 \in 1..N
    OBVIOUS
  <2>2. a[n + 1] = Append(r, x)
    BY <1>3, <2>1
  <2>3. Good(r, n)
    BY <1>5, <2>1
  <2>4. x \in X
    BY <2>1
  <2> HIDE DEF X, r
  <2>5. /\ \A i \in 1..n : Append(r, x)[i] = r[i]
        /\ Append(r, x)[n + 1] = x
        /\ Len(Append(r, x)) = n + 1
    BY <2>3, OnAppend
  <2>6. Append(r, x) \in Seq(X)
    BY <2>3, <2>4
  <2>7. \A i : i \in 1..(n + 1) <=> i \in 1..n \/ i = n + 1
    OBVIOUS
  <2>8. \A i \in 1..(n + 1) : Append(r, x)[i] = Spelled(q[i])
    BY <2>3, <2>5, <2>7
  <2> QED
    BY <2>2, <2>5, <2>6, <2>8
<1>6. Nat \subseteq Sound
  <2> HIDE DEF Sound
  <2> QED
    BY <1>4, <1>5, Induct
<1>7. Good(a[N], N)
  <2>1. N \in Sound /\ N \in 0..N
    <3> HIDE DEF Sound
    <3> QED
      BY <1>6
  <2> HIDE DEF Good
  <2> QED
    BY <2>1
<1> QED
  BY <1>2, <1>7

(* A prefix without variables does not change the fields. *)
LEMMA VariablesOfSuffix ==
  ASSUME NEW q, NEW r, NEW c \in Nat, Len(q) \in Nat, Len(r) \in Nat, Len(q) = c + Len(r),
         \A j \in 1..Len(r) : r[j] = q[c + j],
         \A k \in 1..c : ~IsVariable(q[k])
  PROVE  VariableFields(q) = VariableFields(r)
<1> DEFINE M == Len(q)
           N == Len(r)
<1>1. M \in Nat /\ N \in Nat /\ M = c + N /\ \A j \in 1..N : r[j] = q[c + j]
  OBVIOUS
<1>2. PICK a : IsVariables(a, q, M) /\ VariableFields(q) = a[M]
  BY VariablesAt
<1>3. PICK b : IsVariables(b, r, N) /\ VariableFields(r) = b[N]
  BY VariablesAt
<1> HIDE DEF M, N
<1>4. a = [i \in 0..M |-> IF i = 0 THEN <<>>
                          ELSE IF IsVariable(q[i]) THEN Append(a[i - 1], q[i].field) ELSE a[i - 1]]
  BY <1>2 DEF IsVariables
<1>5. b = [i \in 0..N |-> IF i = 0 THEN <<>>
                          ELSE IF IsVariable(r[i]) THEN Append(b[i - 1], r[i].field) ELSE b[i - 1]]
  BY <1>3 DEF IsVariables
<1> DEFINE Before == {n \in Nat : n \in 0..c => a[n] = <<>>}
           Sound == {n \in Nat : n \in 0..N => a[c + n] = b[n]}
<1>6. 0 \in Before
  BY <1>1, <1>4
<1>7. ASSUME NEW n \in Nat, n \in Before
      PROVE  n + 1 \in Before
  <2> SUFFICES ASSUME n + 1 \in 0..c
               PROVE  a[n + 1] = <<>>
    OBVIOUS
  <2>1. n \in 0..c /\ n + 1 \in 1..c /\ n + 1 \in 0..M /\ n + 1 # 0 /\ (n + 1) - 1 = n
    BY <1>1
  <2>2. a[n] = <<>> /\ ~IsVariable(q[n + 1])
    BY <1>7, <2>1
  <2> QED
    BY <1>4, <2>1, <2>2
<1>8. Nat \subseteq Before
  <2> HIDE DEF Before
  <2> QED
    BY <1>6, <1>7, Induct
<1>9. 0 \in Sound
  <2>1. a[c] = <<>>
    BY <1>8
  <2>2. b[0] = <<>> /\ c + 0 = c
    BY <1>1, <1>5
  <2> QED
    BY <2>1, <2>2
<1>10. ASSUME NEW n \in Nat, n \in Sound
       PROVE  n + 1 \in Sound
  <2> SUFFICES ASSUME n + 1 \in 0..N
               PROVE  a[c + (n + 1)] = b[n + 1]
    OBVIOUS
  <2> DEFINE k == c + (n + 1)
  <2>1. /\ n \in 0..N /\ n + 1 \in 1..N /\ n + 1 # 0 /\ (n + 1) - 1 = n
        /\ k \in 0..M /\ k # 0 /\ k - 1 = c + n
    BY <1>1
  <2>2. r[n + 1] = q[k]
    BY <1>1, <2>1
  <2>3. a[c + n] = b[n]
    BY <1>10, <2>1
  <2> HIDE DEF k
  <2>4. a[k] = IF IsVariable(q[k]) THEN Append(a[c + n], q[k].field) ELSE a[c + n]
    BY <1>4, <2>1
  <2>5. b[n + 1] = IF IsVariable(r[n + 1]) THEN Append(b[n], r[n + 1].field) ELSE b[n]
    BY <1>5, <2>1
  <2>6. a[k] = b[n + 1]
    BY <2>2, <2>3, <2>4, <2>5
  <2> QED
    BY <2>6 DEF k
<1>11. Nat \subseteq Sound
  <2> HIDE DEF Sound
  <2> QED
    BY <1>9, <1>10, Induct
<1>12. a[c + N] = b[N]
  BY <1>1, <1>11
<1> QED
  BY <1>1, <1>2, <1>3, <1>12

LEMMA FieldsInOne ==
  ASSUME NEW x, IsSequence(x)
  PROVE  FieldsIn(<<x>>) = VariableFields(x)
<1>1. Len(<<x>>) = 1 /\ <<x>>[1] = x
  OBVIOUS
<1> DEFINE ps == <<x>>
<1> HIDE DEF ps
<1>2. Len(ps) = 1 /\ ps[1] = x
  BY <1>1 DEF ps
<1>3. PICK a : IsNamed(a, ps, 1) /\ FieldsIn(ps) = a[1]
  <2>1. Len(ps) \in Nat
    BY <1>2
  <2> QED
    BY <1>2, <2>1, NamedAt
<1>4. a = [i \in 0..1 |-> IF i = 0 THEN <<>> ELSE a[i - 1] \o VariableFields(ps[i])]
  BY <1>3 DEF IsNamed
<1>5. a[0] = <<>> /\ a[1] = a[0] \o VariableFields(x)
  BY <1>2, <1>4
<1>6. VariableFields(x) \in Seq(On(VariableFields(x)))
  BY VariableFieldsOn DEF IsSequence, On
<1>7. <<>> \o VariableFields(x) = VariableFields(x)
  BY <1>6, ConcatEmptySeq
<1> QED
  BY <1>3, <1>5, <1>7 DEF ps

-------------------------------------------------------------------------------
(* Where the name of a variable after a noun or a version begins. *)
Begin(p, v, i) == IF IsVersion(p[i - 1]) THEN i ELSE FirstIndex(p, v)[i - 1]

(* The same for the name of a variable, whether it follows a version or a noun. *)
LEMMA NameRooted ==
  ASSUME NEW p, NEW v, Len(p) \in Nat, NEW i \in 2..Len(p), IsVariable(p[i]),
         Known(p[i - 1], v) \/ IsVersion(p[i - 1])
  PROVE  /\ Begin(p, v, i) \in 1..i
         /\ Connected(p, Begin(p, v, i)) <=> Paired(p, i, v)
         /\ Connected(p, Begin(p, v, i)) => Bounded(p, Begin(p, v, i), i)
<1> DEFINE g == i - 1
<1>1. /\ g \in Nat \ {0} /\ g \in 1..Len(p) /\ g + 1 = i /\ i - 1 = g /\ i > 1
      /\ i \in 1..i /\ i \in Nat
  OBVIOUS
<1>2. ~IsVersion(p[i])
  BY SegmentKinds
<1> HIDE DEF g
<1>3. Paired(p, i, v) <=> Paired(p, g, v)
  BY <1>1, <1>2, PairedStep
<1>4. CASE IsVersion(p[g])
  <2>1. Begin(p, v, i) = i
    BY <1>1, <1>4 DEF Begin
  <2>2. Paired(p, g, v) <=> Connected(p, i)
    BY <1>1, <1>4, VersionConnected
  <2>3. Bounded(p, i, i)
    <3>1. \A k \in i..i : k = i
      BY <1>1
    <3> QED
      BY <1>1, <1>2, <1>4, <3>1 DEF Bounded
  <2> QED
    BY <1>1, <1>3, <2>1, <2>2, <2>3
<1>5. CASE ~IsVersion(p[g])
  <2>1. Begin(p, v, i) = FirstIndex(p, v)[g]
    BY <1>1, <1>5 DEF Begin
  <2>2. Literal(p[g])
    BY <1>1, <1>5, SegmentKinds
  <2>3. Rooted(p, g, v)
    BY <1>1, <2>2, ChainsRooted
  <2> DEFINE L == FirstIndex(p, v)[g]
  <2> HIDE DEF L
  <2>4. /\ L \in 1..g
        /\ Connected(p, L) <=> Paired(p, g, v)
        /\ Connected(p, L) => Bounded(p, L, g)
    BY <2>3 DEF Rooted, L
  <2>5. Bounded(p, L, g) => Bounded(p, L, i)
    <3>1. \A k \in L..i : k \in L..g \/ k = i
      BY <1>1, <2>4
    <3> QED
      BY <1>2, <3>1 DEF Bounded
  <2>6. L \in 1..i
    BY <1>1, <2>4
  <2> QED
    BY <1>3, <2>1, <2>4, <2>5, <2>6 DEF L
<1> QED
  BY <1>4, <1>5

(* identifyHeuristicTarget finds the last variable that Nameable allows, and
   names it from the last version before it, or from the start. *)
LEMMA HeuristicWhole ==
  ASSUME NEW p, IsSequence(p), NEW v
  PROVE  LET t == identifyHeuristicTarget(p, v)
             last == Max(Nameable(p, v) \cup {0})
             start == Max({ k \in 1..last : IsVersion(p[k]) } \cup {0}) + 1
         IN  IF last = 0 THEN t = NoTarget
             ELSE /\ Len(t.format) = last - start + 1
                  /\ \A k \in start..last :
                       t.format[k - start + 1] = IF IsVariable(p[k]) THEN "%v" ELSE p[k].name
                  /\ t.fields = FieldsIn(<<SubSeq(p, 1, last)>>)
<1> DEFINE N == Len(p)
           t == identifyHeuristicTarget(p, v)
           ends == { i \in 2..N :
                       /\ IsVariable(p[i])
                       /\ Known(p[i - 1], v) \/ IsVersion(p[i - 1])
                       /\ Connected(p, Begin(p, v, i)) }
           last == Max(Nameable(p, v) \cup {0})
           versions == { k \in 1..last : IsVersion(p[k]) } \cup {0}
           start == Max(versions) + 1
<1>1. p \in Seq(On(p)) /\ N \in Nat /\ DOMAIN p = 1..N
  BY DEF IsSequence, On
<1>2. t = IF ends = {} THEN NoTarget ELSE Target(SubSeq(p, Begin(p, v, Max(ends)), Max(ends)))
  BY Zenon DEF identifyHeuristicTarget, Begin
<1>3. Nameable(p, v) = { i \in { k \in 1..N : IsVariable(p[k]) } : Paired(p, i, v) }
  BY <1>1, Zenon DEF Nameable, Paired
<1>4. ends = Nameable(p, v)
  <2>1. ASSUME NEW i \in ends
        PROVE  i \in Nameable(p, v)
    BY <1>1, <1>3, NameRooted
  <2>2. ASSUME NEW i \in Nameable(p, v)
        PROVE  i \in ends
    <3>1. i \in 1..N /\ IsVariable(p[i]) /\ Paired(p, i, v) /\ i \in 1..i
      BY <1>3
    <3>2. i > 1 /\ (Known(p[i - 1], v) \/ IsVersion(p[i - 1]))
      BY <3>1 DEF Paired
    <3>3. i \in 2..N
      BY <3>1, <3>2
    <3> QED
      BY <1>1, <3>1, <3>2, <3>3, NameRooted
  <2> QED
    BY <2>1, <2>2
<1>5. ends \subseteq 2..N
  OBVIOUS
<1> HIDE DEF ends
<1>6. CASE ends = {}
  <2>1. Nameable(p, v) \cup {0} = {0} /\ {0} \in SUBSET (0..0)
    BY <1>4, <1>6
  <2>2. last = 0
    BY <2>1, MaxOf
  <2> QED
    BY <1>2, <1>6, <2>2
<1>7. CASE ends # {}
  <2> DEFINE m == Max(ends)
             F == Begin(p, v, m)
             q == SubSeq(p, F, m)
  <2>1. m \in ends /\ \A i \in ends : i <= m
    <3>1. ends \in SUBSET (0..N)
      BY <1>1, <1>5
    <3> QED
      BY <1>1, <1>7, <3>1, MaxOf
  <2> HIDE DEF m
  <2>2. last = m
    <3>1. ends \cup {0} \in SUBSET (0..N)
      BY <1>1, <1>5
    <3>2. \A y \in ends \cup {0} : y <= m
      <4>1. m \in 2..N
        BY <1>5, <2>1
      <4>2. 0 <= m
        BY <1>1, <4>1
      <4> QED
        BY <2>1, <4>2
    <3>3. Max(ends \cup {0}) = m
      BY <1>1, <2>1, <3>1, <3>2, MaxOf
    <3> QED
      BY <1>4, <3>3
  <2> HIDE DEF last
  <2>3. /\ m \in 2..N /\ IsVariable(p[m]) /\ (Known(p[m - 1], v) \/ IsVersion(p[m - 1]))
        /\ Connected(p, F)
    BY <2>1 DEF ends
  <2>4. F \in 1..m /\ Bounded(p, F, m)
    BY <1>1, <2>3, NameRooted
  <2> HIDE DEF F
  <2>5. start = F
    <3>1. versions \in SUBSET (0..m)
      BY <1>1, <2>2, <2>3
    <3>2. F - 1 \in versions
      BY <2>2, <2>3, <2>4 DEF Bounded
    <3>3. \A k \in versions : k <= F - 1
      <4>1. \A k \in 1..m : IsVersion(p[k]) => k \notin F..m
        BY <2>4 DEF Bounded
      <4> QED
        BY <2>2, <2>3, <2>4, <4>1
    <3> HIDE DEF versions
    <3>4. m \in Nat /\ versions # {}
      BY <1>1, <2>3, <3>2
    <3>5. Max(versions) = F - 1
      BY <3>1, <3>2, <3>3, <3>4, MaxOf
    <3> QED
      BY <2>4, <3>5
  <2>6. /\ q \in Seq(On(p)) /\ Len(q) = m - F + 1 /\ Len(q) \in Nat
        /\ \A i \in 1..(m - F + 1) : q[i] = p[F + i - 1]
    <3>1. F \in Int /\ m \in Int /\ F <= m /\ \A i \in F..m : p[i] \in On(p)
      BY <1>1, <2>3, <2>4
    <3> QED
      BY <3>1, SubSeqProperties
  <2> HIDE DEF q
  <2>7. t = Target(q)
    BY <1>2, <1>7 DEF q, F, m
  <2>8. \A i \in 1..Len(q) : ~IsVersion(q[i])
    <3> SUFFICES ASSUME NEW i \in 1..Len(q)
                 PROVE  ~IsVersion(q[i])
      OBVIOUS
    <3>1. F + i - 1 \in F..m
      BY <2>3, <2>4, <2>6
    <3> QED
      BY <2>4, <2>6, <3>1 DEF Bounded
  <2>9. /\ Len(t.format) = Len(q)
        /\ \A i \in 1..Len(q) : t.format[i] = Spelled(q[i])
        /\ t.fields = VariableFields(q)
    BY <2>6, <2>7, <2>8, FormatWhole
  <2>10. ASSUME NEW k \in F..m
         PROVE  t.format[k - F + 1] = IF IsVariable(p[k]) THEN "%v" ELSE p[k].name
    <3>1. k - F + 1 \in 1..Len(q) /\ F + (k - F + 1) - 1 = k
      BY <2>3, <2>4, <2>6
    <3> DEFINE j == k - F + 1
    <3> HIDE DEF j
    <3>2. j \in 1..Len(q) /\ F + j - 1 = k
      BY <3>1 DEF j
    <3>3. q[j] = p[k]
      BY <2>6, <3>2
    <3>4. t.format[j] = Spelled(p[k])
      BY <2>9, <3>2, <3>3
    <3> QED
      BY <3>4 DEF Spelled, j
  <2>11. t.fields = FieldsIn(<<SubSeq(p, 1, m)>>)
    <3> DEFINE w == SubSeq(p, 1, m)
    <3>1. /\ w \in Seq(On(p)) /\ Len(w) = m
          /\ \A i \in 1..m : w[i] = p[i]
      <4>1. m \in Int /\ 1 <= m /\ \A i \in 1..m : p[i] \in On(p)
        BY <1>1, <2>3
      <4>2. w \in Seq(On(p)) /\ Len(w) = m - 1 + 1 /\ \A i \in 1..(m - 1 + 1) : w[i] = p[1 + i - 1]
        BY <4>1, SubSeqProperties
      <4>3. m - 1 + 1 = m /\ \A i \in 1..m : 1 + i - 1 = i
        BY <4>1
      <4> QED
        BY <4>2, <4>3
    <3> HIDE DEF w
    <3> DEFINE c == F - 1
    <3>2. c \in Nat /\ Len(w) = c + Len(q) /\ c \in 0..m
      BY <2>3, <2>4, <2>6, <3>1
    <3>3. \A j \in 1..Len(q) : q[j] = w[c + j]
      <4> SUFFICES ASSUME NEW j \in 1..Len(q)
                   PROVE  q[j] = w[c + j]
        OBVIOUS
      <4>1. j \in 1..(m - F + 1) /\ c + j \in 1..m /\ F + j - 1 = c + j
        BY <2>3, <2>4, <2>6
      <4>2. q[j] = p[F + j - 1]
        BY <2>6, <4>1
      <4>3. w[c + j] = p[c + j]
        BY <3>1, <4>1
      <4> QED
        BY <4>1, <4>2, <4>3
    <3>4. \A k \in 1..c : ~IsVariable(w[k])
      <4>1. \A k \in 1..c : k \in 1..m /\ ~IsVariable(p[k])
        BY <2>3, <2>4 DEF Connected
      <4> QED
        BY <3>1, <4>1
    <3> HIDE DEF c
    <3>5. Len(w) \in Nat
      BY <2>3, <3>1
    <3>6. VariableFields(w) = VariableFields(q)
      BY <2>6, <3>2, <3>3, <3>4, <3>5, VariablesOfSuffix
    <3>7. IsSequence(w)
      BY <3>1 DEF IsSequence
    <3>8. FieldsIn(<<w>>) = VariableFields(w)
      BY <3>7, FieldsInOne
    <3> QED
      BY <2>9, <3>6, <3>8 DEF w
  <2>12. m # 0
    BY <2>3
  <2> HIDE DEF t, start
  <2>13. /\ last # 0
         /\ Len(t.format) = last - start + 1
         /\ \A k \in start..last :
              t.format[k - start + 1] = IF IsVariable(p[k]) THEN "%v" ELSE p[k].name
         /\ t.fields = FieldsIn(<<SubSeq(p, 1, last)>>)
    BY <2>2, <2>5, <2>6, <2>9, <2>10, <2>11, <2>12
  <2> QED
    BY <2>13, Zenon DEF t, start, last, versions
<1> QED
  BY <1>6, <1>7

(* Where nothing is named, no header is sent. *)
LEMMA HeadersNeedNames ==
  ASSUME Computed, pc = "sent", routing # <<>>
  PROVE  HasHeaders
<1>1. method \in Methods /\ routing \in RoutingOf
  BY DEF Computed
<1>2. IsSequence(method.params) /\ IsSequence(method.patterns)
      /\ \A i \in DOMAIN method.patterns : IsSequence(method.patterns[i])
  BY <1>1, TranscodingAssumption
<1>3. CASE method.dynamic
  <2> SUFFICES ASSUME method.params = <<>>
               PROVE  FALSE
    BY <1>3 DEF HasHeaders
  <2>1. routing \in Dynamic
    BY <1>1, <1>3 DEF RoutingOf
  <2>2. PICK o : /\ IsOrder(o, DOMAIN routingHeadersMap)
                 /\ routing = [i \in DOMAIN o |-> [name |-> o[i], value |-> routingHeadersMap[o[i]]]]
    BY <1>2, <2>1, DynamicOrder
  <2>3. DOMAIN routingHeadersMap = {}
    <3>1. 1..Len(method.params) = {}
      OBVIOUS
    <3>2. DOMAIN routingHeadersMap = { HeaderOf(i) : i \in { j \in 1..Len(method.params) : Matches(j) } }
      BY <1>2, MapHoldsLast
    <3> QED
      BY <3>1, <3>2
  <2>4. DOMAIN o = {}
    BY <2>2, <2>3 DEF IsOrder, On
  <2>5. routing = [i \in 1..0 |-> [name |-> o[i], value |-> routingHeadersMap[o[i]]]]
    BY <2>2, <2>4
  <2>6. routing = <<>>
    BY <2>5
  <2> QED
    BY <2>6
<1>4. CASE ~method.dynamic
  <2> DEFINE named == FieldsIn(method.patterns)
             o == FirstsIn(named, On(named))
  <2> SUFFICES ASSUME named = <<>>
               PROVE  FALSE
    BY <1>4 DEF HasHeaders
  <2>1. routing = [i \in DOMAIN o |-> [name |-> o[i], value |-> text[o[i]]]]
    BY <1>1, <1>4 DEF RoutingOf, Implicit
  <2>2. On(o) = On(named)
    <3>1. IsSequence(named)
      BY <1>2, FieldsInOn
    <3> HIDE DEF named
    <3>2. On(FirstsIn(named, On(named))) = On(named) \cap On(named)
      BY <3>1, FirstsOnce
    <3> QED
      BY <3>2
  <2>3. On(named) = {}
    BY DEF On
  <2> HIDE DEF o, named
  <2>4. DOMAIN o = {}
    BY <2>2, <2>3 DEF On
  <2>5. routing = [i \in 1..0 |-> [name |-> o[i], value |-> text[o[i]]]]
    BY <2>1, <2>4
  <2> QED
    BY <2>5
<1> QED
  BY <1>3, <1>4

(* Among several annotated fields one that is in a URL is selected. *)
LEMMA SelectedInURL ==
  ASSUME NEW refs, IsSequence(refs),
         \E c \in On(refs) : c \in On(FieldsIn(method.patterns))
  PROVE  Selected(refs) \in { c \in On(refs) : c \in On(FieldsIn(method.patterns)) }
<1> DEFINE U == On(FieldsIn(method.patterns))
           inURL == { i \in DOMAIN refs : refs[i] \in U }
<1> HIDE DEF U
<1>1. Selected(refs) = IF Len(refs) > 1 /\ inURL # {} THEN refs[Min(inURL)] ELSE refs[1]
  BY DEF Selected, U
<1>2. refs \in Seq(On(refs)) /\ Len(refs) \in Nat /\ DOMAIN refs = 1..Len(refs)
  BY DEF IsSequence, On
<1>3. PICK i \in DOMAIN refs : refs[i] \in U
  BY DEF On, U
<1>4. CASE Len(refs) > 1
  <2>1. inURL \in SUBSET Nat /\ inURL # {}
    BY <1>2, <1>3
  <2>2. Min(inURL) \in inURL
    BY <2>1, MinOf
  <2>3. Selected(refs) \in { c \in On(refs) : c \in U }
    BY <1>1, <1>2, <1>4, <2>1, <2>2
  <2> QED
    BY <2>3 DEF U
<1>5. CASE ~(Len(refs) > 1)
  <2>1. i = 1
    BY <1>2, <1>3, <1>5
  <2>2. Selected(refs) \in { c \in On(refs) : c \in U }
    BY <1>1, <1>2, <1>3, <1>5, <2>1
  <2> QED
    BY <2>2 DEF U
<1> QED
  BY <1>4, <1>5

(* ResourceIsWhole: whatever the URL patterns and the vocabulary learnt from
   the package are, a resource that telemetry is told of is a whole name, the
   longest that the pattern allows, and an annotated field in the URL comes
   before one that is not (identifyHeuristicTarget, resourceNameField).  By
   induction over the pattern, the backward walk for a noun ends where no
   variable is left of it exactly if every variable before is paired. *)
THEOREM ResourceAlwaysWhole == Spec => []ResourceIsWhole
<1>1. Computed => ResourceIsWhole
  <2> SUFFICES ASSUME Computed, pc = "sent", routing # <<>>
               PROVE  ResourceIsWhole
    BY DEF ResourceIsWhole
  <2> DEFINE p == method.patterns[1]
             nouns == buildHeuristicVocabulary(Siblings \cup {method})
             refs == method.references
             last == Max(Nameable(p, nouns) \cup {0})
             start == Max({ k \in 1..last : IsVersion(p[k]) } \cup {0}) + 1
             wanted == { c \in On(refs) : c \in On(FieldsIn(method.patterns)) }
             Goal == IF refs # <<>>
                     THEN wanted # {} => resource.fields[1] \in wanted
                     ELSE IF ~heuristics \/ last = 0 THEN resource = NoTarget
                     ELSE /\ Len(resource.format) = last - start + 1
                          /\ \A k \in start..last :
                               resource.format[k - start + 1] =
                                 IF IsVariable(p[k]) THEN "%v" ELSE p[k].name
                          /\ resource.fields = FieldsIn(<<SubSeq(p, 1, last)>>)
  <2> SUFFICES Goal
    BY Zenon DEF ResourceIsWhole
  <2>1. method \in Methods
    BY DEF Computed
  <2>2. IsSequence(refs) /\ IsSequence(p)
    <3>1. IsSequence(refs) /\ IsSequence(method.patterns) /\ method.patterns # <<>>
          /\ \A i \in DOMAIN method.patterns : IsSequence(method.patterns[i])
      BY <2>1, TranscodingAssumption
    <3>2. 1 \in DOMAIN method.patterns
      BY <3>1 DEF IsSequence
    <3> QED
      BY <3>1, <3>2
  <2>3. HasHeaders
    BY HeadersNeedNames
  <2>4. resource = IF refs # <<>>
                   THEN [format |-> <<"%v">>, fields |-> <<Selected(refs)>>]
                   ELSE IF heuristics THEN identifyHeuristicTarget(p, nouns)
                   ELSE NoTarget
    BY <2>3 DEF Computed, ResourceOf, ResourceNameField
  <2>5. CASE refs # <<>>
    <3>1. resource.fields[1] = Selected(refs)
      BY <2>4, <2>5
    <3>2. wanted # {} => Selected(refs) \in wanted
      BY <2>2, SelectedInURL
    <3> HIDE DEF wanted, refs
    <3> QED
      BY <2>5, <3>1, <3>2
  <2>6. CASE refs = <<>> /\ ~heuristics
    BY <2>4, <2>6
  <2>7. CASE refs = <<>> /\ heuristics
    <3>1. resource = identifyHeuristicTarget(p, nouns)
      BY <2>4, <2>7
    <3> HIDE DEF p, nouns
    <3>2. IF last = 0 THEN resource = NoTarget
          ELSE /\ Len(resource.format) = last - start + 1
               /\ \A k \in start..last :
                    resource.format[k - start + 1] = IF IsVariable(p[k]) THEN "%v" ELSE p[k].name
               /\ resource.fields = FieldsIn(<<SubSeq(p, 1, last)>>)
      BY <2>2, <3>1, HeuristicWhole
    <3> HIDE DEF last, start
    <3> QED
      BY <2>7, <3>2
  <2> HIDE DEF Goal
  <2> QED
    BY <2>5, <2>6, <2>7
<1>2. Spec => []Computed
  BY ComputedAlways
<1> QED
  BY <1>1, <1>2, PTL
=================================================================================
