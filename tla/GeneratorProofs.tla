---------------------------- MODULE GeneratorProofs ----------------------------
(***************************************************************************)
(* Proofs about Generator, for every set of requests that satisfies        *)
(* RequestsAssumption.  First about the run itself: the transports swap is *)
(* undone, the second pass over snippet metadata finds what the first one  *)
(* added and explains all of it, auxiliary types are collected once for    *)
(* each name, and the metadata names what the transports' clients define.  *)
(*                                                                         *)
(* Then three proofs about the package the run answers with.  The          *)
(* interface, the client and the transports of a service have the same     *)
(* methods with the same signatures, for every request whose descriptors   *)
(* are Uniform: each of the three classifies methods in an order of its    *)
(* own, prints them in a loop of its own, and the constructors of          *)
(* operations by name come from a fourth place.                            *)
(*                                                                         *)
(* Nothing is defined twice, for every request whose names are NamedApart: *)
(* the identifiers a step defines were still to come before it, and are    *)
(* not any more after it (Coming).                                         *)
(*                                                                         *)
(* And whatever is used is defined, for every request that is Linkable as  *)
(* well: a use that has no definition yet was collected for auxiliary.go   *)
(* or is Promised, and each promise is kept by a later step.               *)
(***************************************************************************)
EXTENDS Generator, SequenceTheorems, TLAPS

-------------------------------------------------------------------------------
LEMMA OptionsInvInit == Init => OptionsInv
BY DEF Init, OptionsInv, OptionsKept, Steps, Inside

LEMMA OptionsInvStep == OptionsInv /\ [Next]_vars => OptionsInv'
<1> SUFFICES ASSUME OptionsInv, [Next]_vars PROVE OptionsInv'
  OBVIOUS
<1> USE DEF OptionsInv, OptionsKept, Steps, Inside, Service, Services, HasRESTMethod
<1>1. CASE UNCHANGED vars
  BY <1>1 DEF vars, cfgVars, loopVars
<1>2. CASE StartClient
  BY <1>2 DEF StartClient, ServiceTransports
<1>3. CASE GenExampleIteratorFile
  BY <1>3 DEF GenExampleIteratorFile, Restored
<1>4. CASE NextService \/ GenSnippet \/ SnippetsDone \/ GenAndCommitHelpers
  BY <1>4 DEF NextService, GenSnippet, SnippetsDone, GenAndCommitHelpers, cfgVars
<1>5. CASE SnippetFails \/ InterfaceFails \/ TransportFails \/ ExampleFails
  BY <1>5 DEF SnippetFails, InterfaceFails, TransportFails, ExampleFails, Fail, cfgVars
<1>6. CASE InterfaceMethod \/ InterfaceDone \/ WrapperMethod \/ MakeTransports
  BY <1>6 DEF InterfaceMethod, InterfaceDone, WrapperMethod, MakeTransports, cfgVars
<1>7. CASE TransportMethod \/ TransportDone \/ GenOperationBuilders \/ GenExampleFile
  BY <1>7 DEF TransportMethod, TransportDone, GenOperationBuilders, GenExampleFile,
              cfgVars, loopVars
<1>8. CASE GenSnippetMetadata \/ GenDocFile \/ GenGapicMetadataFile
           \/ CustomOperationType \/ GenAuxFile
  BY <1>8 DEF GenSnippetMetadata, GenDocFile, GenGapicMetadataFile,
              CustomOperationType, GenAuxFile, cfgVars
<1> QED
  BY <1>1, <1>2, <1>3, <1>4, <1>5, <1>6, <1>7, <1>8 DEF Next, GenService, GenPackage

(* The transports asked for are put back after every service, whichever
   services have HTTP bindings (gengapic.go, the loop of gen). *)
THEOREM OptionsAlwaysKept == Spec => []OptionsKept
<1>1. OptionsInv => OptionsKept
  BY DEF OptionsInv
<1> QED
  BY <1>1, OptionsInvInit, OptionsInvStep, PTL DEF Spec

-------------------------------------------------------------------------------
(* The three lists of mixin methods. *)
LEMMA MixinLists ==
  ASSUME NEW r, IsRequest(r)
  PROVE  \A q \in {r.mixins.locations, r.mixins.iamPolicy, r.mixins.operations} :
            q \in Seq(MixinSet(r)) /\ Range1(q) \subseteq MixinSet(r)
<1> DEFINE Lists == {r.mixins.locations, r.mixins.iamPolicy, r.mixins.operations}
<1>1. \A q \in Lists : IsList(q) /\ Range1(q) \subseteq MixinSet(r)
  BY DEF IsRequest, IsMixin, MixinSet
<1> HIDE DEF Lists
<1>2. ASSUME NEW q \in Lists PROVE q \in Seq(MixinSet(r))
  BY <1>1 DEF IsList
<1> QED
  BY <1>1, <1>2 DEF Lists

(* The methods a loop walks: the service's own and the mixins, a sequence. *)
LEMMA MethodsAreListed ==
  ASSUME request \in Requests, current \in Nat \ {0}, current <= Len(Services)
  PROVE  Methods(Service) \in Seq(MethodSet(Service))
<1>1. IsRequest(request)
  BY RequestsAssumption
<1>2. Service \in Range1(Services)
  <2>1. Services \in Seq(Range1(Services))
    BY <1>1 DEF IsRequest, IsList, Services
  <2>2. current \in DOMAIN Services
    BY <2>1
  <2> QED
    BY <2>2 DEF Service, Range1
<1>3. Service.methods \in Seq(Range1(Service.methods))
  BY <1>1, <1>2 DEF IsRequest, IsList, Services
<1>4. Mixins \in Seq(MixinSet(request))
  <2> DEFINE S == MixinSet(request)
  <2>1. /\ request.mixins.locations \in Seq(S)
        /\ request.mixins.iamPolicy \in Seq(S)
        /\ request.mixins.operations \in Seq(S)
    BY <1>1, MixinLists
  <2>2. <<>> \in Seq(S)
    BY EmptySeq
  <2> HIDE DEF S
  <2>3. Mixins \in Seq(S)
    BY <2>1, <2>2 DEF Mixins
  <2> QED
    BY <2>3 DEF S
<1>5. Methods(Service) \in Seq(Range1(Service.methods) \cup MixinSet(request))
  BY <1>3, <1>4 DEF Methods
<1> QED
  <2> DEFINE q == Methods(Service)
  <2>1. q \in [1 .. Len(q) -> Range1(q)]
    BY <1>5 DEF Range1
  <2>2. Len(q) \in Nat
    BY <1>5, LenProperties
  <2> HIDE DEF q
  <2>3. q \in Seq(Range1(q))
    BY <2>1, <2>2
  <2> QED
    BY <2>3 DEF q, MethodSet

(* Taking the head off a loop's list. *)
LEMMA RestOfLoop ==
  ASSUME NEW S, NEW q \in Seq(S), q # <<>>
  PROVE  /\ Tail(q) \in Seq(S)
         /\ Head(q) \in S
         /\ Range1(q) \subseteq Range1(Tail(q)) \cup {Head(q)}
<1>1. Tail(q) \in Seq(S) /\ Head(q) \in S /\ Len(Tail(q)) = Len(q) - 1
  BY HeadTailProperties
<1>2. ASSUME NEW i \in DOMAIN q PROVE q[i] \in Range1(Tail(q)) \cup {Head(q)}
  <2> USE <1>2
  <2>1. CASE i = 1
    BY <2>1
  <2>2. CASE i # 1
    <3>1. i - 1 \in 1 .. Len(Tail(q)) /\ q[i] = Tail(q)[i - 1]
      BY <1>1, <2>2, HeadTailProperties, LenProperties
    <3>2. i - 1 \in DOMAIN Tail(q)
      BY <3>1, <1>1
    <3> QED
      BY <3>1, <3>2 DEF Range1
  <2> QED
    BY <2>1, <2>2
<1> QED
  BY <1>1, <1>2 DEF Range1

(* Service, and with it MethodSet(Service), depends on request and current. *)
LEMMA SameService ==
  ASSUME request' = request, current' = current
  PROVE  /\ Service' = Service
         /\ Methods(Service)' = Methods(Service)
         /\ MethodSet(Service)' = MethodSet(Service)
BY DEF Service, Services, Methods, Mixins, IAMPolicyOverridden, MethodSet, Range1

LEMMA EntriesInvInit == Init => EntriesInv
BY DEF Init, EntriesInv, EntriesExist, Steps, Inside, AllListed

LEMMA EntriesInvStep == EntriesInv /\ [Next]_vars => EntriesInv'
<1> SUFFICES ASSUME EntriesInv, [Next]_vars PROVE EntriesInv'
  OBVIOUS
<1>0. /\ request \in Requests /\ pc \in Steps /\ EntriesExist
      /\ current \in Nat \ {0}
      /\ pc \in Inside \cup {"snippets", "client"} => current <= Len(Services)
      /\ pc \in {"snippets", "interface", "wrappers"} => todo \in Seq(MethodSet(Service))
      /\ pc = "snippets" => AllListed(MethodSet(Service) \ Range1(todo))
      /\ pc \in {"client", "interface", "wrappers"} => AllListed(MethodSet(Service))
  BY DEF EntriesInv
<1>a. pc \in Inside \cup {"snippets", "client"} => Methods(Service) \in Seq(MethodSet(Service))
  BY <1>0, MethodsAreListed
<1>b. request' = request
  BY DEF Next, GenService, GenPackage, NextService, GenSnippet, SnippetFails, SnippetsDone,
         StartClient, InterfaceMethod, InterfaceFails, InterfaceDone, WrapperMethod,
         MakeTransports, TransportMethod, TransportFails, TransportDone, GenOperationBuilders,
         GenExampleFile, ExampleFails, GenExampleIteratorFile, GenAndCommitHelpers,
         GenSnippetMetadata, GenDocFile, GenGapicMetadataFile, CustomOperationType,
         GenAuxFile, Fail, vars, cfgVars
<1>c. Services' = Services
  BY <1>b DEF Services
<1>d. current' = current => /\ Service' = Service
                            /\ Methods(Service)' = Methods(Service)
                            /\ MethodSet(Service)' = MethodSet(Service)
  BY <1>b, SameService
<1>1. CASE UNCHANGED vars
  BY <1>0, <1>1, <1>b, <1>c, <1>d
     DEF EntriesInv, EntriesExist, AllListed, Range1, vars, cfgVars, loopVars, metaVars
<1>2. CASE NextService
  <2>1. current' = current /\ listed' = listed /\ pc = "service"
    BY <1>2 DEF NextService, metaVars
  <2>2. CASE current > Len(Services)
    <3>1. pc' = "snippetMetadata"
      BY <1>2, <2>2 DEF NextService
    <3> QED
      BY <1>0, <1>b, <2>1, <3>1 DEF EntriesInv, EntriesExist, Steps, Inside
  <2>3. CASE ~(current > Len(Services))
    <3>1. Len(Services) \in Nat
      <4>1. IsRequest(request)
        BY <1>0, RequestsAssumption
      <4> QED
        BY <4>1, LenProperties DEF IsRequest, IsList, Services
    <3>2. current <= Len(Services)
      BY <1>0, <2>3, <3>1
    <3>3. Methods(Service) \in Seq(MethodSet(Service))
      BY <1>0, <3>2, MethodsAreListed
    <3>4. CASE request.snippets
      <4>1. pc' = "snippets" /\ todo' = Methods(Service)
        BY <1>2, <2>3, <3>4 DEF NextService
      <4>2. MethodSet(Service) \ Range1(todo') = {}
        BY <4>1 DEF MethodSet
      <4>3. AllListed(MethodSet(Service) \ Range1(todo))'
        BY <4>2, <1>d, <2>1 DEF AllListed, Range1
      <4> QED
        BY <1>0, <1>b, <1>c, <1>d, <2>1, <3>2, <3>3, <4>1, <4>3
           DEF EntriesInv, EntriesExist, Steps, Inside
    <3>5. CASE ~request.snippets
      <4>1. pc' = "client"
        BY <1>2, <2>3, <3>5 DEF NextService
      <4>2. AllListed(MethodSet(Service))'
        BY <1>b, <3>5 DEF AllListed
      <4> QED
        BY <1>0, <1>b, <1>c, <2>1, <3>2, <4>1, <4>2 DEF EntriesInv, EntriesExist, Steps, Inside
    <3> QED
      BY <3>4, <3>5
  <2> QED
    BY <2>2, <2>3
<1>3. CASE GenSnippet
  <2>1. pc = "snippets" /\ todo # <<>> /\ todo' = Tail(todo) /\ current' = current /\ pc' = pc
    BY <1>3 DEF GenSnippet
  <2>2. /\ todo' \in Seq(MethodSet(Service))
        /\ Range1(todo) \subseteq Range1(todo') \cup {Head(todo)}
    BY <1>0, <2>1, RestOfLoop
  <2>3. /\ listed \subseteq listed'
        /\ HasExample(Head(todo)) => <<Service.name, Head(todo).name>> \in listed'
    BY <1>3 DEF GenSnippet
  <2>4. AllListed(MethodSet(Service) \ Range1(todo))'
    <3> SUFFICES ASSUME request.snippets, NEW m \in MethodSet(Service), m \notin Range1(todo'),
                        HasExample(m)
                 PROVE  <<Service.name, m.name>> \in listed'
      BY <1>b, <1>d, <2>1 DEF AllListed, Range1, HasExample
    <3>1. CASE m = Head(todo)
      BY <2>3, <3>1
    <3>2. CASE m # Head(todo)
      BY <1>0, <2>1, <2>2, <2>3, <3>2 DEF AllListed
    <3> QED
      BY <3>1, <3>2
  <2> QED
    BY <1>0, <1>b, <1>c, <1>d, <2>1, <2>2, <2>4 DEF EntriesInv, EntriesExist, Steps, Inside
<1>4. CASE SnippetsDone
  <2>1. pc = "snippets" /\ todo = <<>> /\ pc' = "client" /\ current' = current /\ listed' = listed
    BY <1>4 DEF SnippetsDone, loopVars, metaVars
  <2>2. AllListed(MethodSet(Service))'
    BY <1>0, <1>b, <1>d, <2>1 DEF AllListed, Range1
  <2> QED
    BY <1>0, <1>b, <1>c, <2>1, <2>2 DEF EntriesInv, EntriesExist, Steps, Inside
<1>5. CASE StartClient \/ InterfaceDone
  <2>1. /\ pc \in {"client", "interface"} /\ pc' \in {"interface", "wrappers"}
        /\ todo' = Methods(Service) /\ current' = current /\ listed' = listed
    BY <1>5 DEF StartClient, InterfaceDone, metaVars
  <2>2. AllListed(MethodSet(Service))'
    BY <1>0, <1>b, <1>d, <2>1 DEF AllListed
  <2> QED
    BY <1>0, <1>a, <1>b, <1>c, <1>d, <2>1, <2>2 DEF EntriesInv, EntriesExist, Steps, Inside
<1>6. CASE InterfaceMethod \/ WrapperMethod
  <2>1. /\ pc \in {"interface", "wrappers"} /\ todo # <<>> /\ todo' = Tail(todo)
        /\ current' = current /\ listed' = listed
    BY <1>6 DEF InterfaceMethod, WrapperMethod, metaVars
  <2>2. todo' \in Seq(MethodSet(Service)) /\ Head(todo) \in MethodSet(Service)
    BY <1>0, <2>1, RestOfLoop
  <2>3. pc' = pc
    <3>1. CASE InterfaceMethod
      BY <3>1 DEF InterfaceMethod
    <3>2. CASE WrapperMethod
      <4>1. request.snippets /\ HasExample(Head(todo))
              => <<Service.name, Head(todo).name>> \in listed
        BY <1>0, <2>1, <2>2 DEF AllListed
      <4> QED
        BY <3>2, <4>1 DEF WrapperMethod, HasExample
    <3> QED
      BY <1>6, <3>1, <3>2
  <2>4. AllListed(MethodSet(Service))'
    BY <1>0, <1>b, <1>d, <2>1 DEF AllListed
  <2> QED
    BY <1>0, <1>b, <1>c, <1>d, <2>1, <2>2, <2>3, <2>4 DEF EntriesInv, EntriesExist
<1>7. CASE MakeTransports \/ TransportMethod \/ TransportDone \/ GenOperationBuilders
            \/ GenExampleFile
  <2>1. /\ pc \in Inside /\ pc' \in {"transport", "example", "iterExample"}
        /\ current' = current
    BY <1>7 DEF MakeTransports, TransportMethod, TransportDone, GenOperationBuilders,
                GenExampleFile, loopVars, Inside
  <2> QED
    BY <1>0, <1>b, <1>c, <2>1 DEF EntriesInv, EntriesExist, Steps, Inside
<1>8. CASE GenExampleIteratorFile
  <2>1. pc' = "service" /\ current' = current + 1
    BY <1>8 DEF GenExampleIteratorFile
  <2> QED
    BY <1>0, <1>b, <2>1 DEF EntriesInv, EntriesExist, Steps, Inside
<1>9. CASE SnippetFails \/ InterfaceFails \/ TransportFails \/ ExampleFails
  <2>1. pc' = "failed" /\ current' = current
    BY <1>9 DEF SnippetFails, InterfaceFails, TransportFails, ExampleFails, Fail, loopVars
  <2> QED
    BY <1>0, <1>b, <2>1 DEF EntriesInv, EntriesExist, Steps, Inside
<1>10. CASE GenPackage
  <2>1. /\ pc' \in {"service", "doc", "gapicMetadata", "operations", "aux", "done"}
        /\ current' = current
    BY <1>10 DEF GenPackage, GenAndCommitHelpers, GenSnippetMetadata, GenDocFile,
                 GenGapicMetadataFile, CustomOperationType, GenAuxFile, loopVars
  <2> QED
    BY <1>0, <1>b, <2>1 DEF EntriesInv, EntriesExist, Steps, Inside
<1> QED
  BY <1>1, <1>2, <1>3, <1>4, <1>5, <1>6, <1>7, <1>8, <1>9, <1>10 DEF Next, GenService

(* No wrapper looks for a snippet that was not generated: both passes leave
   out the same methods (snippets.go), so the generator does not crash. *)
THEOREM EntriesAlwaysExist == Spec => []EntriesExist
<1>1. EntriesInv => EntriesExist
  BY DEF EntriesInv
<1> QED
  BY <1>1, EntriesInvInit, EntriesInvStep, PTL DEF Spec

-------------------------------------------------------------------------------
(* Iterators and operation wrappers are deduplicated by name (iterTypeOf,
   wrapperExists), so auxiliary.go has one type to define for each name. *)
THEOREM AuxiliaryTypesAreUnique == Spec => []OneTypeEach
<1>1. Init => OneTypeEach
  BY DEF Init, OneTypeEach
<1>2. OneTypeEach /\ [Next]_vars => OneTypeEach'
  <2> SUFFICES ASSUME OneTypeEach, [Next]_vars PROVE OneTypeEach'
    OBVIOUS
  <2>1. ASSUME NEW page, iters' = AddIter(page)
        PROVE  \A p, q \in iters' : p[1] = q[1] => p[2] = q[2]
    <3>1. CASE page.iter \in IterNames
      BY <2>1, <3>1 DEF AddIter, OneTypeEach
    <3>2. CASE page.iter \notin IterNames
      <4>1. iters' = iters \cup {<<page.iter, page.elem>>}
        BY <2>1, <3>2 DEF AddIter
      <4>2. \A p \in iters : p[1] # page.iter
        BY <3>2 DEF IterNames
      <4> QED
        BY <4>1, <4>2 DEF OneTypeEach
    <3> QED
      BY <3>1, <3>2
  <2>2. CASE InterfaceMethod
    <3>1. \/ iters' = iters
          \/ iters' = AddIter(Head(todo).page)
      BY <2>2 DEF InterfaceMethod
    <3>2. wrappers' = wrappers
      BY <2>2 DEF InterfaceMethod
    <3> QED
      BY <2>1, <3>1, <3>2 DEF OneTypeEach
  <2>3. CASE WrapperMethod
    <3>1. \/ iters' = iters
          \/ iters' = AddIter(Head(todo).page)
      BY <2>3 DEF WrapperMethod
    <3>2. wrappers' = wrappers
      BY <2>3 DEF WrapperMethod
    <3> QED
      BY <2>1, <3>1, <3>2 DEF OneTypeEach
  <2>4. CASE TransportMethod
    <3> DEFINE m == Head(todo)
               kind == Kind(TransportOrder, m)
    <3>1. \/ iters' = iters
          \/ iters' = AddIter(m.page)
      BY <2>4 DEF TransportMethod
    <3>2. \/ wrappers' = wrappers
          \/ ~WrapperError(m) /\ wrappers' = wrappers \cup {<<OpName(m), m.info>>}
      BY <2>4 DEF TransportMethod, TransportError
    <3>3. \A v, w \in wrappers' : v[1] = w[1] => v[2] = w[2]
      <4>1. CASE wrappers' = wrappers
        BY <4>1 DEF OneTypeEach
      <4>2. CASE ~WrapperError(m) /\ wrappers' = wrappers \cup {<<OpName(m), m.info>>}
        <5> DEFINE new == <<OpName(m), m.info>>
        <5>1. \A w \in wrappers : w[1] = OpName(m) => w[2] = m.info
          BY <4>2 DEF WrapperError
        <5>2. \A w \in wrappers' : w \in wrappers \/ w = new
          BY <4>2
        <5>3. new[1] = OpName(m) /\ new[2] = m.info
          OBVIOUS
        <5> HIDE DEF new, m
        <5> QED
          BY <5>1, <5>2, <5>3 DEF OneTypeEach
      <4> QED
        BY <3>2, <4>1, <4>2
    <3> QED
      BY <2>1, <3>1, <3>3 DEF OneTypeEach
  <2>5. CASE UNCHANGED auxVars
    BY <2>5 DEF OneTypeEach, auxVars
  <2>6. InterfaceMethod \/ WrapperMethod \/ TransportMethod \/ UNCHANGED auxVars
    BY DEF Next, GenService, GenPackage, NextService, GenSnippet, SnippetFails, SnippetsDone,
           StartClient, InterfaceFails, InterfaceDone, MakeTransports, TransportFails,
           TransportDone, GenOperationBuilders, GenExampleFile, ExampleFails,
           GenExampleIteratorFile, GenAndCommitHelpers, GenSnippetMetadata, GenDocFile,
           GenGapicMetadataFile, CustomOperationType, GenAuxFile, Fail, vars
  <2> QED
    BY <2>2, <2>3, <2>4, <2>5, <2>6
<1> QED
  BY <1>1, <1>2, PTL DEF Spec

-------------------------------------------------------------------------------
(* What the generator has written: the files, and the part of a client's file
   that is still in the printer. *)
InClient == {"interface", "wrappers", "transport"}
Stopped  == {"failed", "panicked"}
Written     == AllDefs \cup (IF pc \in InClient THEN buffer.defs ELSE {})
WrittenRefs == AllRefs \cup (IF pc \in InClient THEN buffer.refs ELSE {})

LEMMA Committed ==
  ASSUME NEW text, NEW name, files' = files \cup {File(name, text)}
  PROVE  AllDefs' = AllDefs \cup text.defs /\ AllRefs' = AllRefs \cup text.refs
<1>1. File(name, text).defs = text.defs /\ File(name, text).refs = text.refs
  BY DEF File
<1> QED
  BY <1>1 DEF AllDefs, AllRefs

(* What a step writes; S is what it defines and R what it uses. *)
Writes(S, R) == Written' = Written \cup S /\ WrittenRefs' = WrittenRefs \cup R

(* Committing a file other than a client's. *)
LEMMA FileWritten ==
  ASSUME NEW name, pc \notin InClient, pc' \notin InClient,
         files' = files \cup {File(name, buffer')}
  PROVE  Writes(buffer'.defs, buffer'.refs)
<1>1. AllDefs' = AllDefs \cup buffer'.defs /\ AllRefs' = AllRefs \cup buffer'.refs
  BY Committed
<1> QED
  BY <1>1 DEF Writes, Written, WrittenRefs

LEMMA FreshlyPrinted ==
  ASSUME NEW text, NEW S, NEW R
  PROVE  Printed(Reset(text), S, R).defs = S /\ Printed(Reset(text), S, R).refs = R
BY DEF Printed, Reset, NoText

(* Printing into the file of a client. *)
LEMMA PrintedOn ==
  ASSUME NEW S, NEW R, pc \in InClient, pc' \in InClient,
         buffer' = Printed(buffer, S, R), files' = files
  PROVE  Writes(S, R)
<1>1. buffer'.defs = buffer.defs \cup S /\ buffer'.refs = buffer.refs \cup R
  BY DEF Printed
<1> QED
  BY <1>1 DEF Writes, Written, WrittenRefs, AllDefs, AllRefs

LEMMA NothingWritten ==
  ASSUME files' = files, pc \in InClient => buffer' = buffer,
         (pc \in InClient) = (pc' \in InClient)
  PROVE  Writes({}, {})
BY DEF Writes, Written, WrittenRefs, AllDefs, AllRefs

(* A step that prints no definition. *)
QuietStep ==
  \/ NextService \/ GenSnippet \/ SnippetsDone \/ StartClient \/ InterfaceDone \/ TransportDone
  \/ GenExampleFile \/ GenExampleIteratorFile
  \/ GenSnippetMetadata \/ GenDocFile \/ GenGapicMetadataFile

LEMMA QuietWrites ==
  ASSUME QuietStep, pc' \notin Stopped
  PROVE  Written' = Written
<1> USE DEF InClient
<1>1. CASE NextService
  BY <1>1, NothingWritten DEF NextService, Writes
<1>2. CASE GenSnippet
  <2>1. pc = "snippets" /\ pc' = pc
    BY <1>2 DEF GenSnippet
  <2>2. CASE files' = files
    BY <2>1, <2>2, NothingWritten DEF Writes
  <2>3. CASE files' # files
    <3>1. /\ files' = files \cup {File(<<"snippet", Service.name, Head(todo).name>>, buffer')}
          /\ buffer'.defs = {}
      BY <1>2, <2>3 DEF GenSnippet, Printed, Reset, NoText
    <3> QED
      BY <2>1, <3>1, FileWritten DEF Writes
  <2> QED
    BY <2>2, <2>3
<1>3. CASE SnippetsDone
  BY <1>3, NothingWritten DEF SnippetsDone, Writes
<1>4. CASE StartClient
  BY <1>4 DEF StartClient, Reset, NoText, Written, AllDefs
<1>5. CASE InterfaceDone \/ TransportDone
  <2>1. /\ pc \in InClient /\ pc' \in InClient /\ buffer' = buffer /\ files' = files
    BY <1>5 DEF InterfaceDone, TransportDone
  <2> QED
    BY <2>1, NothingWritten DEF Writes
<1>6. CASE GenExampleFile
  <2>1. /\ pc \notin InClient /\ pc' \notin InClient
        /\ files' = files \cup {File(<<"example", Service.name>>, buffer')}
    BY <1>6 DEF GenExampleFile
  <2>2. buffer'.defs = {}
    BY <1>6 DEF GenExampleFile, Printed, Reset, NoText
  <2> QED
    BY <2>1, <2>2, FileWritten DEF Writes
<1>7. CASE GenExampleIteratorFile
  <2>1. /\ pc \notin InClient /\ pc' \notin InClient
        /\ files' = files \cup {File(<<"iterExample", Service.name>>, buffer')}
    BY <1>7 DEF GenExampleIteratorFile
  <2>2. buffer'.defs = {}
    BY <1>7 DEF GenExampleIteratorFile, Printed, Reset, NoText
  <2> QED
    BY <2>1, <2>2, FileWritten DEF Writes
<1>8. CASE GenSnippetMetadata
  <2>1. pc \notin InClient /\ pc' \notin InClient
    BY <1>8 DEF GenSnippetMetadata
  <2>2. CASE files' = files
    BY <2>1, <2>2, NothingWritten DEF Writes
  <2>3. CASE files' # files
    <3>1. files' = files \cup {File(<<"snippet_metadata">>, NoText)}
      BY <1>8, <2>3 DEF GenSnippetMetadata
    <3>2. AllDefs' = AllDefs \cup {}
      BY <3>1, Committed DEF NoText
    <3> QED
      BY <2>1, <3>2 DEF Written
  <2> QED
    BY <2>2, <2>3
<1>9. CASE GenDocFile
  <2>1. /\ pc \notin InClient /\ pc' \notin InClient
        /\ files' = files \cup {File(<<"doc">>, buffer')} /\ buffer'.defs = {}
    BY <1>9 DEF GenDocFile, Reset, NoText
  <2>2. AllDefs' = AllDefs \cup {}
    BY <2>1, Committed
  <2> QED
    BY <2>1, <2>2 DEF Written
<1>10. CASE GenGapicMetadataFile
  <2>1. pc \notin InClient /\ pc' \notin InClient
    BY <1>10 DEF GenGapicMetadataFile
  <2>2. CASE files' = files
    BY <2>1, <2>2, NothingWritten DEF Writes
  <2>3. CASE files' # files
    <3>1. /\ files' = files \cup {File(<<"gapic_metadata">>, buffer')}
          /\ buffer'.defs = {}
      BY <1>10, <2>3 DEF GenGapicMetadataFile, Printed, Reset, NoText
    <3> QED
      BY <2>1, <3>1, FileWritten DEF Writes
  <2> QED
    BY <2>2, <2>3
<1> QED
  BY <1>1, <1>2, <1>3, <1>4, <1>5, <1>6, <1>7, <1>8, <1>9, <1>10 DEF QuietStep

(* The steps that print definitions, and what they print. *)
HelperDefs == {Def(Helper(f), <<"func">>, 0) : f \in HelperFuncs}
ConstructorDefs == {Def(New(Service, transports[i]), <<"func">>, i) : i \in DOMAIN transports}
OperationDefs == {Def(<<"type", "Operation">>, <<"type", "error">>, 0)}
                   \cup {Def(<<"handle", h>>, <<"type">>, 0) : h \in Handles}
AuxDefs == {WrapperDef(w) : w \in wrappers} \cup {IterDef(p) : p \in iters}
InterfaceSignature(m) == Signature(Kind(InterfaceOrder, m), Service, m, m.in[1])
ClientSignature(m) == Signature(Kind(ClientOrder, m), Service, m, Service.pkg)
LaneDef(m) ==
  Def(<<Head(lanes), Service.name, m.name>>,
      TransportSignature(Head(lanes), Kind(TransportOrder, m), Service, m), Len(todo))

LEMMA HelpersWritten ==
  ASSUME GenAndCommitHelpers
  PROVE  Written' = Written \cup HelperDefs
<1>1. /\ pc \notin InClient /\ pc' \notin InClient
      /\ files' = files \cup {File(<<"helpers">>, buffer')}
  BY DEF GenAndCommitHelpers, InClient
<1>2. buffer'.defs = HelperDefs
  BY FreshlyPrinted DEF GenAndCommitHelpers, HelperDefs
<1> QED
  BY <1>1, <1>2, FileWritten DEF Writes

LEMMA InterfaceWritten ==
  ASSUME InterfaceMethod
  PROVE  Written' = Written \cup
           MethodDefs("interface", Service, Head(todo), InterfaceSignature(Head(todo)))
BY PrintedOn DEF InterfaceMethod, Writes, InClient, InterfaceSignature

(* The second pass skips a method only when its page fields are ambiguous. *)
Skipped(m) == Kind(ClientOrder, m) \notin {"empty", "lro"} /\ PagingError(m)
LEMMA WrapperWritten ==
  ASSUME WrapperMethod, pc' \notin Stopped
  PROVE  \/ Skipped(Head(todo)) /\ Written' = Written
         \/ /\ ~Skipped(Head(todo))
            /\ Written' = Written \cup
                 MethodDefs("client", Service, Head(todo), ClientSignature(Head(todo)))
<1>1. pc = "wrappers" /\ pc' = pc /\ files' = files
  BY DEF WrapperMethod, Stopped
<1>2. CASE Skipped(Head(todo))
  <2>1. buffer' = buffer
    BY <1>2 DEF WrapperMethod, Skipped
  <2> QED
    BY <1>1, <1>2, <2>1, NothingWritten DEF InClient, Writes
<1>3. CASE ~Skipped(Head(todo))
  <2>1. buffer' = Printed(buffer, MethodDefs("client", Service, Head(todo),
                                             ClientSignature(Head(todo))), {})
    BY <1>3 DEF WrapperMethod, Skipped, ClientSignature
  <2> QED
    BY <1>1, <1>3, <2>1, PrintedOn DEF InClient, Writes
<1> QED
  BY <1>2, <1>3

LEMMA ConstructorsWritten ==
  ASSUME MakeTransports
  PROVE  Written' = Written \cup ConstructorDefs
BY PrintedOn DEF MakeTransports, Writes, InClient, ConstructorDefs

LEMMA TransportWritten ==
  ASSUME TransportMethod
  PROVE  Written' = Written \cup {LaneDef(Head(todo))}
BY PrintedOn DEF TransportMethod, Writes, InClient, LaneDef

LEMMA BuildersWritten ==
  ASSUME GenOperationBuilders
  PROVE  Written' = Written \cup BuilderDefs(Service)
<1>1. /\ pc = "transport" /\ pc' = "example"
      /\ buffer' = Printed(buffer, BuilderDefs(Service), {})
      /\ files' = files \cup {File(<<"client", Service.name>>, buffer')}
  BY DEF GenOperationBuilders
<1>2. buffer'.defs = buffer.defs \cup BuilderDefs(Service)
  BY <1>1 DEF Printed
<1>3. AllDefs' = AllDefs \cup buffer'.defs
  BY <1>1, Committed
<1> QED
  BY <1>1, <1>2, <1>3 DEF Written, InClient

LEMMA OperationsWritten ==
  ASSUME CustomOperationType
  PROVE  Written' = Written \/ Written' = Written \cup OperationDefs
<1>1. pc \notin InClient /\ pc' \notin InClient
  BY DEF CustomOperationType, InClient
<1>2. CASE files' = files
  BY <1>1, <1>2, NothingWritten DEF Writes
<1>3. CASE files' # files
  <2>1. /\ buffer' = Printed(Reset(buffer), OperationDefs, {})
        /\ files' = files \cup {File(<<"operations">>, buffer')}
    BY <1>3 DEF CustomOperationType, OperationDefs
  <2>2. buffer'.defs = OperationDefs
    BY <2>1, FreshlyPrinted
  <2> QED
    BY <1>1, <2>1, <2>2, FileWritten DEF Writes
<1> QED
  BY <1>2, <1>3

LEMMA AuxWritten ==
  ASSUME GenAuxFile
  PROVE  Written' = Written \cup AuxDefs
<1>1. /\ pc \notin InClient /\ pc' \notin InClient
      /\ files' = files \cup {File(<<"auxiliary">>, buffer')}
  BY DEF GenAuxFile, InClient
<1>2. buffer'.defs = AuxDefs
  BY FreshlyPrinted DEF GenAuxFile, AuxDefs
<1> QED
  BY <1>1, <1>2, FileWritten DEF Writes

-------------------------------------------------------------------------------
(* What the metadata file has to say of a set of definitions. *)
Recording(d) == d.id[1] \in {"grpc", "rest"} /\ Len(d.id) = 3
Named(D) == {<<d.id[2], d.id[1], d.id[3]>> : d \in {e \in D : Recording(e)}}

LEMMA NamedUnion ==
  ASSUME NEW D, NEW S
  PROVE  Named(D \cup S) = Named(D) \cup Named(S)
BY DEF Named

LEMMA NothingNamed ==
  ASSUME NEW S, \A d \in S : ~Recording(d)
  PROVE  Named(S) = {}
BY DEF Named

(* A sequence that continues p as q does is their concatenation. *)
LEMMA Joined ==
  ASSUME NEW S, NEW p \in Seq(S), NEW q \in Seq(S), NEW t \in Seq(S),
         Len(t) = Len(p) + Len(q),
         \A i \in 1 .. Len(p) : t[i] = p[i],
         \A i \in 1 .. Len(q) : t[Len(p) + i] = q[i]
  PROVE  p \o q = t
<1>1. /\ p \o q \in Seq(S) /\ Len(p \o q) = Len(p) + Len(q)
      /\ \A i \in 1 .. Len(p) + Len(q) :
            (p \o q)[i] = IF i <= Len(p) THEN p[i] ELSE q[i - Len(p)]
  BY ConcatProperties
<1>2. ASSUME NEW i \in 1 .. Len(p \o q) PROVE (p \o q)[i] = t[i]
  <2>0. Len(p) \in Nat /\ Len(q) \in Nat
    BY LenProperties
  <2>1. CASE i <= Len(p)
    <3>1. i \in 1 .. Len(p)
      BY <1>1, <2>0, <2>1
    <3> QED
      BY <1>1, <2>1, <3>1
  <2>2. CASE ~(i <= Len(p))
    <3>1. i - Len(p) \in 1 .. Len(q) /\ i = Len(p) + (i - Len(p))
      BY <1>1, <2>0, <2>2
    <3> QED
      BY <1>1, <2>2, <3>1
  <2> QED
    BY <2>1, <2>2
<1> QED
  BY <1>1, <1>2, SeqEqual

LEMMA FourParts ==
  ASSUME NEW a, NEW b, NEW c, NEW d
  PROVE  <<a, b>> \o <<c, d>> = <<a, b, c, d>>
<1> DEFINE S == {a, b, c, d}
           p == <<a, b>>
           q == <<c, d>>
           t == <<a, b, c, d>>
<1>1. p \in Seq(S) /\ q \in Seq(S) /\ t \in Seq(S)
  OBVIOUS
<1>2. Len(p) = 2 /\ Len(q) = 2 /\ Len(t) = 4
  OBVIOUS
<1>3. p[1] = a /\ p[2] = b /\ q[1] = c /\ q[2] = d
  OBVIOUS
<1>4. t[1] = a /\ t[2] = b /\ t[3] = c /\ t[4] = d
  OBVIOUS
<1> HIDE DEF p, q, t, S
<1>5. (\A i \in 1 .. Len(p) : t[i] = p[i]) /\ (\A i \in 1 .. Len(q) : t[Len(p) + i] = q[i])
  BY <1>2, <1>3, <1>4
<1>6. Len(t) = Len(p) + Len(q)
  BY <1>2
<1>7. p \o q = t
  BY <1>1, <1>5, <1>6, Joined
<1> QED
  BY <1>7 DEF p, q, t

LEMMA ThreeParts ==
  ASSUME NEW a, NEW b, NEW c
  PROVE  <<a>> \o <<b, c>> = <<a, b, c>>
<1> DEFINE S == {a, b, c}
           p == <<a>>
           q == <<b, c>>
           t == <<a, b, c>>
<1>1. p \in Seq(S) /\ q \in Seq(S) /\ t \in Seq(S)
  OBVIOUS
<1>2. Len(p) = 1 /\ Len(q) = 2 /\ Len(t) = 3
  OBVIOUS
<1>3. p[1] = a /\ q[1] = b /\ q[2] = c
  OBVIOUS
<1>4. t[1] = a /\ t[2] = b /\ t[3] = c
  OBVIOUS
<1> HIDE DEF p, q, t, S
<1>5. (\A i \in 1 .. Len(p) : t[i] = p[i]) /\ (\A i \in 1 .. Len(q) : t[Len(p) + i] = q[i])
  BY <1>2, <1>3, <1>4
<1>6. Len(t) = Len(p) + Len(q)
  BY <1>2
<1>7. p \o q = t
  BY <1>1, <1>5, <1>6, Joined
<1> QED
  BY <1>7 DEF p, q, t

(* The identifiers of constructors by name are made of four parts, the types
   of operations of three, and start as the receiver does. *)
LEMMA ByNameIds ==
  \A r, s, m : /\ <<r, s>> \o OpName(m) = <<r, s, m.name, "Operation">>
               /\ <<r>> \o OpName(m) = <<r, m.name, "Operation">>
BY FourParts, ThreeParts, Zenon DEF OpName

LEMMA MethodDefsOf ==
  ASSUME NEW receiver, NEW s, NEW m, NEW sig, NEW d \in MethodDefs(receiver, s, m, sig)
  PROVE  d.id[1] = receiver
<1>1. \/ d.id = <<receiver, s.name, m.name>>
      \/ d.id = <<receiver, s.name>> \o OpName(m)
  BY DEF MethodDefs, Def
<1> QED
  BY <1>1, ByNameIds

(* What makes MetadataMatches inductive: until gen fails, the metadata names
   what has been written, a client that is being printed included; lanes are
   transports, and a wrapper's type cannot be taken for a method. *)
MetaInv ==
  /\ lanes \in Seq({"grpc", "rest"})
  /\ \A w \in wrappers : \E m : w[1] = OpName(m)
  /\ pc \notin Stopped => metadata = Named(Written)

LEMMA MetaInvInit == Init => MetaInv
<1> SUFFICES ASSUME Init PROVE MetaInv
  OBVIOUS
<1>1. Written = {}
  BY DEF Init, Written, AllDefs, InClient
<1>2. Named({}) = {}
  BY DEF Named
<1> QED
  BY <1>1, <1>2 DEF Init, MetaInv

(* Only a transport's client is recorded. *)
LEMMA OthersNotNamed ==
  ASSUME \A w \in wrappers : \E m : w[1] = OpName(m)
  PROVE  /\ Named(HelperDefs) = {}
         /\ Named(ConstructorDefs) = {}
         /\ Named(OperationDefs) = {}
         /\ Named(AuxDefs) = {}
         /\ \A receiver \in {"interface", "client"} : \A s, m, sig :
               Named(MethodDefs(receiver, s, m, sig)) = {}
         /\ \A s : Named(BuilderDefs(s)) = {}
<1>1. Named(HelperDefs) = {}
  <2>1. \A d \in HelperDefs : d.id[1] = "func"
    BY DEF HelperDefs, Def, Helper
  <2> QED
    BY <2>1, NothingNamed DEF Recording
<1>2. Named(ConstructorDefs) = {}
  <2>1. \A d \in ConstructorDefs : d.id[1] = "New"
    BY DEF ConstructorDefs, Def, New
  <2> QED
    BY <2>1, NothingNamed DEF Recording
<1>3. Named(OperationDefs) = {}
  <2>1. \A d \in OperationDefs : d.id[1] \in {"type", "handle"}
    BY DEF OperationDefs, Def
  <2> QED
    BY <2>1, NothingNamed DEF Recording
<1>4. Named(AuxDefs) = {}
  <2>1. \A d \in AuxDefs : d.id[1] = "type"
    <3>1. ASSUME NEW w \in wrappers PROVE WrapperDef(w).id[1] = "type"
      <4>1. PICK m : w[1] = OpName(m)
        OBVIOUS
      <4>2. WrapperDef(w).id = <<"type">> \o OpName(m)
        BY <4>1 DEF WrapperDef, Def
      <4> QED
        BY <4>2, ByNameIds
    <3>2. ASSUME NEW p \in iters PROVE IterDef(p).id[1] = "type"
      BY DEF IterDef, Def
    <3> QED
      BY <3>1, <3>2 DEF AuxDefs
  <2> QED
    BY <2>1, NothingNamed DEF Recording
<1>5. ASSUME NEW receiver \in {"interface", "client"}, NEW s, NEW m, NEW sig
      PROVE  Named(MethodDefs(receiver, s, m, sig)) = {}
  <2>1. \A d \in MethodDefs(receiver, s, m, sig) : d.id[1] = receiver
    BY MethodDefsOf
  <2> QED
    BY <2>1, NothingNamed DEF Recording
<1>6. ASSUME NEW s PROVE Named(BuilderDefs(s)) = {}
  <2>1. ASSUME NEW d \in BuilderDefs(s) PROVE Len(d.id) = 4
    <3>1. PICK i \in DOMAIN s.methods, t \in Range1(transports) :
                  d = Def(<<t, s.name>> \o OpName(s.methods[i]), <<"byName">>, i)
      <4> DEFINE lros == {i \in DOMAIN s.methods : <<s.name, s.methods[i].name>> \in wrapped}
      <4>1. d \in {Def(<<t, s.name>> \o OpName(s.methods[i]), <<"byName">>, i) :
                     i \in lros, t \in Range1(transports)}
        BY DEF BuilderDefs
      <4>2. lros \subseteq DOMAIN s.methods
        OBVIOUS
      <4> HIDE DEF lros
      <4> QED
        BY <4>1, <4>2
    <3>2. d.id = <<t, s.name>> \o OpName(s.methods[i])
      BY <3>1 DEF Def
    <3>3. d.id = <<t, s.name, s.methods[i].name, "Operation">>
      BY <3>2, ByNameIds, Zenon
    <3> QED
      BY <3>3
  <2> QED
    BY <2>1, NothingNamed DEF Recording
<1> QED
  BY <1>1, <1>2, <1>3, <1>4, <1>5, <1>6

LEMMA TransportsAreKnown ==
  ASSUME request \in Requests, OptionsInv, pc \in Inside
  PROVE  transports \in Seq({"grpc", "rest"})
<1>1. request.transports \in {<<"grpc">>, <<"rest">>, <<"grpc", "rest">>}
  BY RequestsAssumption DEF IsRequest
<1>2. transports \in {<<"grpc">>, <<"rest">>, <<"grpc", "rest">>}
  BY <1>1 DEF OptionsInv
<1>3. <<"grpc">> \in Seq({"grpc", "rest"}) /\ <<"rest">> \in Seq({"grpc", "rest"})
      /\ <<"grpc", "rest">> \in Seq({"grpc", "rest"})
  OBVIOUS
<1> QED
  BY <1>2, <1>3

LEMMA OtherServiceStepsKeep ==
  ASSUME QuietStep
  PROVE  metadata' = metadata /\ wrappers' = wrappers
BY DEF QuietStep, NextService, GenSnippet, SnippetsDone, StartClient, InterfaceDone,
       TransportDone, GenExampleFile, GenExampleIteratorFile, GenSnippetMetadata, GenDocFile,
       GenGapicMetadataFile, metaVars, auxVars

LEMMA LanesKeptOrTaken ==
  ASSUME Next
  PROVE  \/ lanes' = lanes
         \/ MakeTransports /\ lanes' = transports
         \/ TransportDone /\ lanes # <<>> /\ lanes' = Tail(lanes)
BY DEF Next, GenService, GenPackage, NextService, GenSnippet, SnippetFails, SnippetsDone,
       StartClient, InterfaceMethod, InterfaceFails, InterfaceDone, WrapperMethod,
       MakeTransports, TransportMethod, TransportFails, TransportDone, GenOperationBuilders,
       GenExampleFile, ExampleFails, GenExampleIteratorFile, GenAndCommitHelpers,
       GenSnippetMetadata, GenDocFile, GenGapicMetadataFile, CustomOperationType,
       GenAuxFile, Fail, loopVars

LEMMA StepsOfNext ==
  ASSUME Next
  PROVE  \/ QuietStep
         \/ SnippetFails \/ InterfaceFails \/ TransportFails \/ ExampleFails
         \/ GenAndCommitHelpers \/ InterfaceMethod \/ WrapperMethod \/ MakeTransports
         \/ TransportMethod \/ GenOperationBuilders \/ CustomOperationType \/ GenAuxFile
BY DEF Next, GenService, GenPackage, QuietStep

LEMMA MetaInvStep ==
  ASSUME MetaInv, EntriesInv, OptionsInv, [Next]_vars
  PROVE  MetaInv'
<1>0. /\ lanes \in Seq({"grpc", "rest"})
      /\ \A w \in wrappers : \E m : w[1] = OpName(m)
      /\ pc \notin Stopped => metadata = Named(Written)
      /\ request \in Requests
  BY DEF MetaInv, EntriesInv
<1>1. CASE UNCHANGED vars
  <2>1. Written' = Written
    BY <1>1 DEF Written, AllDefs, vars
  <2> QED
    BY <1>0, <1>1, <2>1 DEF MetaInv, vars, loopVars, auxVars, metaVars
<1>2. CASE Next
  <2>1. lanes' \in Seq({"grpc", "rest"})
    <3>1. CASE lanes' = lanes
      BY <1>0, <3>1
    <3>2. CASE MakeTransports /\ lanes' = transports
      BY <1>0, <3>2, TransportsAreKnown DEF MakeTransports, Inside
    <3>3. CASE TransportDone /\ lanes # <<>> /\ lanes' = Tail(lanes)
      BY <1>0, <3>3, HeadTailProperties
    <3> QED
      BY <1>2, <3>1, <3>2, <3>3, LanesKeptOrTaken
  <2>2. \/ wrappers' = wrappers
        \/ /\ TransportMethod
           /\ wrappers' = wrappers \cup {<<OpName(Head(todo)), Head(todo).info>>}
    BY <1>2 DEF Next, GenService, GenPackage, NextService, GenSnippet, SnippetFails, SnippetsDone,
       StartClient, InterfaceMethod, InterfaceFails, InterfaceDone, WrapperMethod,
       MakeTransports, TransportMethod, TransportFails, TransportDone, GenOperationBuilders,
       GenExampleFile, ExampleFails, GenExampleIteratorFile, GenAndCommitHelpers,
       GenSnippetMetadata, GenDocFile, GenGapicMetadataFile, CustomOperationType,
       GenAuxFile, Fail, auxVars
  <2>3. \A w \in wrappers' : \E m : w[1] = OpName(m)
    <3> DEFINE new == <<OpName(Head(todo)), Head(todo).info>>
    <3>1. \E m : new[1] = OpName(m)
      OBVIOUS
    <3>2. \A w \in wrappers' : w \in wrappers \/ w = new
      BY <2>2
    <3> HIDE DEF new
    <3> QED
      BY <1>0, <3>1, <3>2
  <2>4. ASSUME pc' \notin Stopped PROVE metadata' = Named(Written')
    <3> USE <2>4
    <3>0. ASSUME pc \notin Stopped, metadata' = metadata,
                 NEW S, Named(S) = {}, Written' = Written \cup S
          PROVE  metadata' = Named(Written')
      BY <1>0, <3>0, NamedUnion
    <3>1. CASE QuietStep
      <4>1. pc \notin Stopped
        BY <3>1 DEF Stopped, QuietStep, NextService, GenSnippet, SnippetsDone, StartClient,
             InterfaceDone, TransportDone, GenExampleFile, GenExampleIteratorFile,
             GenSnippetMetadata, GenDocFile, GenGapicMetadataFile
      <4> QED
        BY <1>0, <3>1, <4>1, QuietWrites, OtherServiceStepsKeep
    <3>2. CASE SnippetFails \/ InterfaceFails \/ TransportFails \/ ExampleFails
      BY <3>2 DEF SnippetFails, InterfaceFails, TransportFails, ExampleFails, Fail, Stopped
    <3>3. CASE GenAndCommitHelpers
      <4>1. pc \notin Stopped /\ metadata' = metadata
        BY <3>3 DEF GenAndCommitHelpers, Stopped, metaVars
      <4> QED
        BY <1>0, <3>0, <3>3, <4>1, OthersNotNamed, HelpersWritten
    <3>4. CASE InterfaceMethod
      <4>1. pc \notin Stopped /\ metadata' = metadata
        BY <3>4 DEF InterfaceMethod, Stopped, metaVars
      <4> QED
        BY <1>0, <3>0, <3>4, <4>1, OthersNotNamed, InterfaceWritten
    <3>5. CASE WrapperMethod
      <4>1. pc \notin Stopped /\ metadata' = metadata
        BY <3>5 DEF WrapperMethod, Stopped, metaVars
      <4> QED
        BY <1>0, <3>0, <3>5, <4>1, OthersNotNamed, WrapperWritten
    <3>6. CASE MakeTransports
      <4>1. pc \notin Stopped /\ metadata' = metadata
        BY <3>6 DEF MakeTransports, Stopped, metaVars
      <4> QED
        BY <1>0, <3>0, <3>6, <4>1, OthersNotNamed, ConstructorsWritten
    <3>7. CASE TransportMethod
      <4> DEFINE m == Head(todo)
                 t == Head(lanes)
                 new == LaneDef(m)
      <4>1. /\ pc \notin Stopped /\ lanes # <<>>
            /\ metadata' = metadata \cup {<<Service.name, t, m.name>>}
        BY <3>7 DEF TransportMethod, Stopped, Recorded
      <4>2. Written' = Written \cup {new}
        BY <3>7, TransportWritten
      <4>3. t \in {"grpc", "rest"}
        BY <1>0, <4>1, HeadTailProperties
      <4>4. new.id = <<t, Service.name, m.name>>
        BY DEF LaneDef, Def
      <4>5. Named({new}) = {<<Service.name, t, m.name>>}
        <5>1. Recording(new)
          BY <4>3, <4>4 DEF Recording
        <5>2. new.id[1] = t /\ new.id[2] = Service.name /\ new.id[3] = m.name
          BY <4>4
        <5> HIDE DEF new, t, m
        <5> QED
          BY <5>1, <5>2 DEF Named
      <4> HIDE DEF new, t, m
      <4> QED
        BY <1>0, <4>1, <4>2, <4>5, NamedUnion
    <3>8. CASE GenOperationBuilders
      <4>1. pc \notin Stopped /\ metadata' = metadata
        BY <3>8 DEF GenOperationBuilders, Stopped, metaVars
      <4> QED
        BY <1>0, <3>0, <3>8, <4>1, OthersNotNamed, BuildersWritten
    <3>9. CASE CustomOperationType
      <4>1. pc \notin Stopped /\ metadata' = metadata
        BY <3>9 DEF CustomOperationType, Stopped, metaVars
      <4> QED
        BY <1>0, <3>0, <3>9, <4>1, OthersNotNamed, OperationsWritten
    <3>10. CASE GenAuxFile
      <4>1. pc \notin Stopped /\ metadata' = metadata
        BY <3>10 DEF GenAuxFile, Stopped, metaVars
      <4> QED
        BY <1>0, <3>0, <3>10, <4>1, OthersNotNamed, AuxWritten
    <3> QED
      BY <1>2, <3>1, <3>2, <3>3, <3>4, <3>5, <3>6, <3>7, <3>8, <3>9, <3>10, StepsOfNext
  <2> QED
    BY <2>1, <2>3, <2>4 DEF MetaInv
<1> QED
  BY <1>1, <1>2

(* gapic_metadata.json names the methods that the transports' clients of the
   package define, no more and no fewer (genGRPCMethods and genRESTMethods call
   addMetadataMethod for every method they print). *)
THEOREM MetadataAlwaysMatches == Spec => []MetadataMatches
<1>1. MetaInv => MetadataMatches
  BY DEF MetaInv, MetadataMatches, Named, Recording, Written, Stopped, InClient
<1> QED
  BY <1>1, MetaInvInit, MetaInvStep, EntriesInvInit, EntriesInvStep, OptionsInvInit,
     OptionsInvStep, PTL DEF Spec

-------------------------------------------------------------------------------
(* The snippets of a service, as snippet metadata names them. *)
Entries(s, ms) == {<<s.name, m.name>> : m \in {n \in ms : HasExample(n)}}
Explanations == {<<e[1], e[2]>> : e \in explained}
Pending ==
  CASE pc \in {"snippets", "client", "interface"} -> Entries(Service, MethodSet(Service))
    [] pc = "wrappers" -> Entries(Service, Range1(todo))
    [] OTHER -> {}

(* A method with ambiguous page fields ends the run in the first pass, so
   that the second has none to skip. *)
NoneRefused(ms) == \A m \in ms : HasExample(m) => ~PagingError(m)
WellExplained(D) ==
  \A e \in explained : \E d \in D : d.id = <<"client", e[1], e[2]>> /\ d.sig = e[3]

(* What makes SnippetsExplained inductive: what the first pass added and the
   second has not explained yet are methods the second has still to visit. *)
SnippetInv ==
  pc \notin Stopped /\ request.snippets =>
    /\ Explanations \subseteq listed
    /\ listed \subseteq Explanations \cup Pending
    /\ WellExplained(Written)
    /\ pc = "snippets" => NoneRefused(MethodSet(Service) \ Range1(todo))
    /\ pc \in {"client", "interface", "wrappers"} => NoneRefused(MethodSet(Service))

LEMMA SnippetInvInit == Init => SnippetInv
BY DEF Init, SnippetInv, Explanations, WellExplained

LEMMA RequestKept ==
  ASSUME Next
  PROVE  request' = request
BY DEF Next, GenService, GenPackage, NextService, GenSnippet, SnippetFails, SnippetsDone,
       StartClient, InterfaceMethod, InterfaceFails, InterfaceDone, WrapperMethod,
       MakeTransports, TransportMethod, TransportFails, TransportDone, GenOperationBuilders,
       GenExampleFile, ExampleFails, GenExampleIteratorFile, GenAndCommitHelpers,
       GenSnippetMetadata, GenDocFile, GenGapicMetadataFile, CustomOperationType,
       GenAuxFile, Fail, cfgVars

(* A run that has stopped takes no step. *)
LEMMA StoppedForGood == Next => pc \notin Stopped
BY DEF Next, GenService, GenPackage, NextService, GenSnippet, SnippetFails, SnippetsDone,
       StartClient, InterfaceMethod, InterfaceFails, InterfaceDone, WrapperMethod,
       MakeTransports, TransportMethod, TransportFails, TransportDone, GenOperationBuilders,
       GenExampleFile, ExampleFails, GenExampleIteratorFile, GenAndCommitHelpers,
       GenSnippetMetadata, GenDocFile, GenGapicMetadataFile, CustomOperationType,
       GenAuxFile, Stopped

(* A definition, once written, stays until the run fails. *)
LEMMA WrittenGrows == Next /\ pc' \notin Stopped => Written \subseteq Written'
<1> SUFFICES ASSUME Next, pc' \notin Stopped PROVE Written \subseteq Written'
  OBVIOUS
<1>1. ~(SnippetFails \/ InterfaceFails \/ TransportFails \/ ExampleFails)
  BY DEF SnippetFails, InterfaceFails, TransportFails, ExampleFails, Fail, Stopped
<1>2. CASE QuietStep
  BY <1>2, QuietWrites
<1>3. CASE GenAndCommitHelpers
  BY <1>3, HelpersWritten
<1>4. CASE InterfaceMethod
  BY <1>4, InterfaceWritten
<1>5. CASE WrapperMethod
  BY <1>5, WrapperWritten
<1>6. CASE MakeTransports
  BY <1>6, ConstructorsWritten
<1>7. CASE TransportMethod
  BY <1>7, TransportWritten
<1>8. CASE GenOperationBuilders
  BY <1>8, BuildersWritten
<1>9. CASE CustomOperationType
  BY <1>9, OperationsWritten
<1>10. CASE GenAuxFile
  BY <1>10, AuxWritten
<1> QED
  BY <1>1, <1>2, <1>3, <1>4, <1>5, <1>6, <1>7, <1>8, <1>9, <1>10, StepsOfNext

(* A step outside the two passes. *)
ElsewhereStep ==
  \/ GenAndCommitHelpers \/ TransportMethod \/ TransportDone \/ GenOperationBuilders
  \/ GenExampleFile \/ GenExampleIteratorFile
  \/ GenSnippetMetadata \/ GenDocFile \/ GenGapicMetadataFile \/ CustomOperationType \/ GenAuxFile
LEMMA Elsewhere ==
  ASSUME ElsewhereStep
  PROVE  /\ listed' = listed /\ explained' = explained
         /\ {pc, pc'} \cap {"snippets", "client", "interface", "wrappers"} = {}
<1>1. listed' = listed /\ explained' = explained
  BY DEF ElsewhereStep, GenAndCommitHelpers, TransportMethod, TransportDone,
    GenOperationBuilders, GenExampleFile, GenExampleIteratorFile, GenSnippetMetadata, GenDocFile,
    GenGapicMetadataFile, CustomOperationType, GenAuxFile, metaVars
<1>2. /\ pc \notin {"snippets", "client", "interface", "wrappers"}
      /\ pc' \notin {"snippets", "client", "interface", "wrappers"}
  BY DEF ElsewhereStep, GenAndCommitHelpers, TransportMethod, TransportDone,
    GenOperationBuilders, GenExampleFile, GenExampleIteratorFile, GenSnippetMetadata, GenDocFile,
    GenGapicMetadataFile, CustomOperationType, GenAuxFile
<1> QED
  BY <1>1, <1>2

LEMMA SnippetInvStep ==
  ASSUME SnippetInv, EntriesInv, [Next]_vars
  PROVE  SnippetInv'
<1>1. CASE UNCHANGED vars
  <2>1. /\ Written' = Written /\ Service' = Service /\ MethodSet(Service)' = MethodSet(Service)
        /\ pc' = pc /\ todo' = todo /\ request' = request
        /\ listed' = listed /\ explained' = explained
    BY <1>1, SameService DEF Written, AllDefs, vars, cfgVars, loopVars, metaVars
  <2>2. Explanations' = Explanations /\ WellExplained(Written)' = WellExplained(Written)
    BY <2>1 DEF Explanations, WellExplained
  <2>3. Pending' = Pending
    BY <2>1 DEF Pending, Entries, HasExample, Range1
  <2>4. /\ NoneRefused(MethodSet(Service))' = NoneRefused(MethodSet(Service))
        /\ NoneRefused(MethodSet(Service) \ Range1(todo))'
             = NoneRefused(MethodSet(Service) \ Range1(todo))
    BY <2>1 DEF NoneRefused, HasExample, PagingError, Streaming, Range1
  <2> QED
    BY <2>1, <2>2, <2>3, <2>4 DEF SnippetInv
<1>2. CASE Next
  <2> SUFFICES ASSUME pc' \notin Stopped, request.snippets
               PROVE  /\ Explanations' \subseteq listed'
                      /\ listed' \subseteq Explanations' \cup Pending'
                      /\ WellExplained(Written)'
                      /\ pc' = "snippets" => NoneRefused(MethodSet(Service) \ Range1(todo))'
                      /\ pc' \in {"client", "interface", "wrappers"} =>
                           NoneRefused(MethodSet(Service))'
    BY <1>2, RequestKept DEF SnippetInv
  <2>0. /\ Explanations \subseteq listed
        /\ listed \subseteq Explanations \cup Pending
        /\ WellExplained(Written)
        /\ pc = "snippets" => NoneRefused(MethodSet(Service) \ Range1(todo))
        /\ pc \in {"client", "interface", "wrappers"} => NoneRefused(MethodSet(Service))
    BY <1>2, StoppedForGood DEF SnippetInv
  <2>a. Written \subseteq Written' /\ request' = request
    BY <1>2, WrittenGrows, RequestKept
  <2>b. /\ explained' = explained => Explanations' = Explanations
        /\ explained' = explained => WellExplained(Written)'
    BY <2>0, <2>a DEF Explanations, WellExplained
  <2>c. current' = current => /\ Service' = Service
                              /\ Methods(Service)' = Methods(Service)
                              /\ MethodSet(Service)' = MethodSet(Service)
    BY <2>a, SameService
  <2>d. pc \in {"snippets", "interface", "wrappers"} => todo \in Seq(MethodSet(Service))
    BY DEF EntriesInv
  <2>1. CASE ElsewhereStep
    <3>1. /\ listed' = listed /\ explained' = explained
          /\ pc \notin {"snippets", "client", "interface", "wrappers"}
          /\ pc' \notin {"snippets", "client", "interface", "wrappers"}
      BY <2>1, Elsewhere
    <3>2. Pending = {}
      BY <3>1 DEF Pending
    <3> QED
      BY <2>0, <2>b, <3>1, <3>2
  <2>2. CASE NextService
    <3>1. /\ pc = "service" /\ listed' = listed /\ explained' = explained /\ current' = current
          /\ \/ pc' = "snippetMetadata"
             \/ pc' = "snippets" /\ todo' = Methods(Service)
      BY <2>2 DEF NextService, metaVars
    <3>2. Pending = {}
      BY <3>1 DEF Pending
    <3>3. pc' = "snippets" => NoneRefused(MethodSet(Service) \ Range1(todo))'
      BY <2>c, <3>1 DEF NoneRefused, MethodSet, Range1
    <3> QED
      BY <2>0, <2>b, <3>1, <3>2, <3>3
  <2>3. CASE GenSnippet
    <3> DEFINE m == Head(todo)
    <3>1. /\ pc = "snippets" /\ pc' = "snippets" /\ todo # <<>> /\ todo' = Tail(todo)
          /\ current' = current /\ explained' = explained
          /\ HasExample(m) => ~PagingError(m)
          /\ \/ listed' = listed
             \/ HasExample(m) /\ listed' = listed \cup {<<Service.name, m.name>>}
      BY <2>3 DEF GenSnippet
    <3>2. m \in MethodSet(Service) /\ Range1(todo) \subseteq Range1(todo') \cup {m}
      BY <2>d, <3>1, RestOfLoop
    <3>3. HasExample(m) => <<Service.name, m.name>> \in Pending
      BY <3>1, <3>2 DEF Pending, Entries
    <3>4. Pending' = Pending
      <4>1. Pending = Entries(Service, MethodSet(Service))
        BY <3>1 DEF Pending
      <4>2. Pending' = Entries(Service, MethodSet(Service))'
        BY <3>1 DEF Pending
      <4> QED
        BY <2>c, <3>1, <4>1, <4>2 DEF Entries, HasExample
    <3>5. NoneRefused(MethodSet(Service) \ Range1(todo))'
      <4> SUFFICES ASSUME NEW n \in MethodSet(Service), n \notin Range1(todo'), HasExample(n)
                   PROVE  ~PagingError(n)
        BY <2>c, <3>1 DEF NoneRefused, HasExample, PagingError, Streaming, Range1
      <4>1. CASE n = m
        BY <3>1, <4>1
      <4>2. CASE n # m
        BY <2>0, <3>1, <3>2, <4>2 DEF NoneRefused
      <4> QED
        BY <4>1, <4>2
    <3> HIDE DEF m
    <3> QED
      BY <2>0, <2>b, <3>1, <3>3, <3>4, <3>5
  <2>4. CASE SnippetsDone \/ StartClient \/ InterfaceMethod
    <3>1. /\ pc \in {"snippets", "client", "interface"} /\ pc' \in {"client", "interface"}
          /\ current' = current /\ explained' = explained /\ listed' = listed
          /\ pc = "snippets" => todo = <<>>
      BY <2>4 DEF SnippetsDone, StartClient, InterfaceMethod, loopVars, metaVars
    <3>2. Pending' = Pending
      <4>1. Pending = Entries(Service, MethodSet(Service))
        BY <3>1 DEF Pending
      <4>2. Pending' = Entries(Service, MethodSet(Service))'
        BY <3>1 DEF Pending
      <4> QED
        BY <2>c, <3>1, <4>1, <4>2 DEF Entries, HasExample
    <3>3. NoneRefused(MethodSet(Service))'
      <4>1. NoneRefused(MethodSet(Service))
        BY <2>0, <3>1 DEF NoneRefused, Range1
      <4> QED
        BY <2>c, <3>1, <4>1 DEF NoneRefused, HasExample, PagingError, Streaming
    <3> QED
      BY <2>0, <2>b, <3>1, <3>2, <3>3
  <2>5. CASE InterfaceDone
    <3>1. /\ pc = "interface" /\ pc' = "wrappers" /\ todo' = Methods(Service)
          /\ current' = current /\ explained' = explained /\ listed' = listed
      BY <2>5 DEF InterfaceDone, metaVars
    <3>2. Pending' = Pending
      <4>1. Pending = Entries(Service, MethodSet(Service))
        BY <3>1 DEF Pending
      <4>2. Pending' = Entries(Service, Range1(todo))'
        BY <3>1 DEF Pending
      <4>3. Range1(todo)' = MethodSet(Service)
        BY <3>1 DEF Range1, MethodSet
      <4> QED
        BY <2>c, <3>1, <4>1, <4>2, <4>3 DEF Entries, HasExample
    <3>3. NoneRefused(MethodSet(Service))'
      BY <2>0, <2>c, <3>1 DEF NoneRefused, HasExample, PagingError, Streaming
    <3> QED
      BY <2>0, <2>b, <3>1, <3>2, <3>3
  <2>6. CASE WrapperMethod
    <3> DEFINE m == Head(todo)
               entry == <<Service.name, m.name, ClientSignature(m)>>
    <3>1. /\ pc = "wrappers" /\ todo # <<>> /\ todo' = Tail(todo) /\ current' = current
          /\ listed' = listed /\ pc' = "wrappers"
      BY <2>6 DEF WrapperMethod, Stopped
    <3>2. m \in MethodSet(Service) /\ Range1(todo) \subseteq Range1(todo') \cup {m}
      BY <2>d, <3>1, RestOfLoop
    <3>3. /\ Pending = Entries(Service, Range1(todo))
          /\ Pending' = Entries(Service, Range1(todo'))
      <4>1. Pending = Entries(Service, Range1(todo))
        BY <3>1 DEF Pending
      <4>2. Pending' = Entries(Service, Range1(todo))'
        BY <3>1 DEF Pending
      <4> QED
        BY <2>c, <3>1, <4>1, <4>2 DEF Entries, HasExample, Range1
    <3>4. Pending \subseteq Pending' \cup (IF HasExample(m) THEN {<<Service.name, m.name>>} ELSE {})
      BY <3>2, <3>3 DEF Entries
    <3>5. NoneRefused(MethodSet(Service))'
      BY <2>0, <2>c, <3>1 DEF NoneRefused, HasExample, PagingError, Streaming
    <3>6. CASE ~HasExample(m)
      <4>1. explained' = explained
        BY <2>6, <3>6 DEF WrapperMethod, HasExample
      <4> HIDE DEF m
      <4> QED
        BY <2>0, <2>b, <3>1, <3>4, <3>5, <3>6, <4>1
    <3>7. CASE HasExample(m)
      <4>1. ~PagingError(m)
        BY <2>0, <3>1, <3>2, <3>7 DEF NoneRefused
      <4>2. /\ <<Service.name, m.name>> \in listed
            /\ explained' = explained \cup {entry}
        BY <2>6, <3>1, <3>7, <4>1
           DEF WrapperMethod, HasExample, Explained, ClientSignature
      <4>3. Written' = Written \cup MethodDefs("client", Service, m, ClientSignature(m))
        BY <2>6, <4>1, WrapperWritten DEF Skipped
      <4>4. \E d \in Written' : d.id = <<"client", Service.name, m.name>> /\ d.sig = ClientSignature(m)
        <5> DEFINE d == Def(<<"client", Service.name, m.name>>, ClientSignature(m), Len(todo))
        <5>1. d \in Written'
          BY <4>3 DEF MethodDefs
        <5>2. d.id = <<"client", Service.name, m.name>> /\ d.sig = ClientSignature(m)
          BY DEF Def
        <5> HIDE DEF d
        <5> QED
          BY <5>1, <5>2
      <4>5. entry[1] = Service.name /\ entry[2] = m.name /\ entry[3] = ClientSignature(m)
        OBVIOUS
      <4> HIDE DEF m, entry
      <4>6. Explanations' = Explanations \cup {<<Service.name, m.name>>}
        BY <4>2, <4>5 DEF Explanations
      <4>7. WellExplained(Written)'
        BY <2>0, <2>a, <4>2, <4>4, <4>5 DEF WellExplained
      <4> QED
        BY <2>0, <3>1, <3>4, <3>5, <4>2, <4>6, <4>7
    <3> QED
      BY <3>6, <3>7
  <2>7. CASE MakeTransports
    <3>1. /\ pc = "wrappers" /\ todo = <<>> /\ pc' = "transport"
          /\ explained' = explained /\ listed' = listed
      BY <2>7 DEF MakeTransports, metaVars
    <3>2. Pending = {}
      BY <3>1 DEF Pending, Entries, Range1
    <3> QED
      BY <2>0, <2>b, <3>1, <3>2
  <2>8. ~(SnippetFails \/ InterfaceFails \/ TransportFails \/ ExampleFails)
    BY DEF SnippetFails, InterfaceFails, TransportFails, ExampleFails, Fail, Stopped
  <2> QED
    BY <1>2, <2>1, <2>2, <2>3, <2>4, <2>5, <2>6, <2>7, <2>8
       DEF Next, GenService, GenPackage, ElsewhereStep
<1> QED
  BY <1>1, <1>2

(* The two passes over snippet metadata (genSnippetFile, which adds a method,
   and genClientWrapperMethod, which adds its parameters and result) visit the
   same methods, and what is recorded is what the client's method returns. *)
THEOREM SnippetsAlwaysExplained == Spec => []SnippetsExplained
<1>1. SnippetInv => SnippetsExplained
  BY DEF SnippetInv, SnippetsExplained, Explanations, Pending, WellExplained, Written, Stopped,
         InClient
<1> QED
  BY <1>1, SnippetInvInit, SnippetInvStep, EntriesInvInit, EntriesInvStep, PTL DEF Spec

-------------------------------------------------------------------------------
(* The identifiers of a file, seen as sequences. *)
LEMMA RestOfId ==
  /\ \A a, b, c : SubSeq(<<a, b, c>>, 3, Len(<<a, b, c>>)) = <<c>>
  /\ \A a, b, c, d : SubSeq(<<a, b, c, d>>, 3, Len(<<a, b, c, d>>)) = <<c, d>>
<1>1. ASSUME NEW a, NEW b, NEW c
      PROVE  SubSeq(<<a, b, c>>, 3, Len(<<a, b, c>>)) = <<c>>
  <2> DEFINE p == <<a, b, c>>
             q == <<c>>
             S == {a, b, c}
  <2>1. /\ Len(p) = 3 /\ p[3] = c /\ \A i \in 3 .. 3 : p[i] \in S
        /\ q \in Seq(S) /\ Len(q) = 1 /\ q[1] = c
    OBVIOUS
  <2> HIDE DEF p, q, S
  <2>2. /\ SubSeq(p, 3, 3) \in Seq(S) /\ Len(SubSeq(p, 3, 3)) = 1
        /\ \A i \in 1 .. 1 : SubSeq(p, 3, 3)[i] = p[3 + i - 1]
    BY <2>1, SubSeqProperties
  <2>3. SubSeq(p, 3, 3) = q
    BY <2>1, <2>2, SeqEqual
  <2>4. SubSeq(p, 3, Len(p)) = q
    BY <2>1, <2>3
  <2> QED
    BY <2>4 DEF p, q
<1>2. ASSUME NEW a, NEW b, NEW c, NEW d
      PROVE  SubSeq(<<a, b, c, d>>, 3, Len(<<a, b, c, d>>)) = <<c, d>>
  <2> DEFINE p == <<a, b, c, d>>
             q == <<c, d>>
             S == {a, b, c, d}
  <2>1. /\ Len(p) = 4 /\ p[3] = c /\ p[4] = d /\ \A i \in 3 .. 4 : p[i] \in S
        /\ q \in Seq(S) /\ Len(q) = 2 /\ q[1] = c /\ q[2] = d
    OBVIOUS
  <2> HIDE DEF p, q, S
  <2>2. /\ SubSeq(p, 3, 4) \in Seq(S) /\ Len(SubSeq(p, 3, 4)) = 2
        /\ \A i \in 1 .. 2 : SubSeq(p, 3, 4)[i] = p[3 + i - 1]
    BY <2>1, SubSeqProperties
  <2>3. SubSeq(p, 3, 4) = q
    BY <2>1, <2>2, SeqEqual
  <2>4. SubSeq(p, 3, Len(p)) = q
    BY <2>1, <2>3
  <2> QED
    BY <2>4 DEF p, q
<1> QED
  BY <1>1, <1>2

-------------------------------------------------------------------------------
(* What a method is, in every order of looking at it. *)
LEMMA FirstKind ==
  ASSUME NEW order, NEW m, DOMAIN order \subseteq Nat,
         NEW i \in DOMAIN order, Is(order[i], m), \A j \in 1 .. i - 1 : ~Is(order[j], m),
         1 .. i - 1 \subseteq DOMAIN order, 0 \notin DOMAIN order
  PROVE  Kind(order, m) = order[i]
<1> DEFINE First(k) == Is(order[k], m) /\ \A j \in 1 .. k - 1 : ~Is(order[j], m)
<1>1. \A k \in DOMAIN order : First(k) => k = i
  <2> SUFFICES ASSUME NEW k \in DOMAIN order, First(k), k # i PROVE FALSE
    OBVIOUS
  <2>1. k \in Nat \ {0} /\ i \in Nat \ {0}
    OBVIOUS
  <2>2. k \in 1 .. i - 1 \/ i \in 1 .. k - 1
    BY <2>1
  <2> QED
    BY <2>2
<1>2. First(i)
  OBVIOUS
<1>3. Kind(order, m) = order[CHOOSE k \in DOMAIN order : First(k)]
  BY DEF Kind
<1> HIDE DEF First
<1>4. (CHOOSE k \in DOMAIN order : First(k)) = i
  BY <1>1, <1>2
<1> QED
  BY <1>3, <1>4

IsA(kind, m) ==
  kind = IF m.out = "Empty" THEN "empty"
         ELSE IF IsPaged(m) THEN "paging"
         ELSE IF IsLRO(m) THEN "lro"
         ELSE IF m.cs THEN "clientStream"
         ELSE IF m.ss THEN "serverStream" ELSE "unary"

LEMMA SixKinds ==
  ASSUME NEW o, NEW m, DOMAIN o = 1 .. 6, Is(o[6], m)
  PROVE  Kind(o, m) = IF Is(o[1], m) THEN o[1] ELSE IF Is(o[2], m) THEN o[2]
                      ELSE IF Is(o[3], m) THEN o[3] ELSE IF Is(o[4], m) THEN o[4]
                      ELSE IF Is(o[5], m) THEN o[5] ELSE o[6]
<1> DEFINE First(k) == Is(o[k], m) /\ \A j \in 1 .. k - 1 : ~Is(o[j], m)
<1>1. ASSUME NEW i \in 1 .. 6, First(i) PROVE Kind(o, m) = o[i]
  <2>1. 1 .. i - 1 \subseteq DOMAIN o /\ DOMAIN o \subseteq Nat /\ 0 \notin DOMAIN o
    OBVIOUS
  <2> QED
    BY <1>1, <2>1, FirstKind
<1>2. CASE Is(o[1], m)
  BY <1>1, <1>2
<1>3. CASE ~Is(o[1], m) /\ Is(o[2], m)
  BY <1>1, <1>3
<1>4. CASE ~Is(o[1], m) /\ ~Is(o[2], m) /\ Is(o[3], m)
  BY <1>1, <1>4
<1>5. CASE ~Is(o[1], m) /\ ~Is(o[2], m) /\ ~Is(o[3], m) /\ Is(o[4], m)
  BY <1>1, <1>5
<1>6. CASE ~Is(o[1], m) /\ ~Is(o[2], m) /\ ~Is(o[3], m) /\ ~Is(o[4], m) /\ Is(o[5], m)
  BY <1>1, <1>6
<1>7. CASE ~Is(o[1], m) /\ ~Is(o[2], m) /\ ~Is(o[3], m) /\ ~Is(o[4], m) /\ ~Is(o[5], m)
  BY <1>1, <1>7
<1> QED
  BY <1>2, <1>3, <1>4, <1>5, <1>6, <1>7

LEMMA OrdersAgree ==
  ASSUME NEW m, IsMethod(m)
  PROVE  /\ IsA(Kind(InterfaceOrder, m), m)
         /\ IsA(Kind(ClientOrder, m), m)
         /\ IsA(Kind(TransportOrder, m), m)
<1>1. IsLRO(m) => m.out # "Empty" /\ ~IsPaged(m)
  BY DEF IsLRO, IsMethod, IsPaged, NoPage
<1>2. /\ Is("empty", m) = (m.out = "Empty")
      /\ Is("paging", m) = IsPaged(m)
      /\ Is("lro", m) = IsLRO(m)
      /\ Is("clientStream", m) = m.cs
      /\ Is("serverStream", m) = m.ss
      /\ Is("unary", m)
  BY DEF Is, IsMethod
<1>3. IsA(Kind(InterfaceOrder, m), m)
  <2> DEFINE o == InterfaceOrder
  <2>1. /\ DOMAIN o = 1 .. 6
        /\ o[1] = "empty" /\ o[2] = "paging" /\ o[3] = "lro"
        /\ o[4] = "clientStream" /\ o[5] = "serverStream" /\ o[6] = "unary"
    BY DEF InterfaceOrder
  <2> HIDE DEF o
  <2> QED
    BY <1>2, <2>1, SixKinds DEF IsA, o
<1>4. IsA(Kind(ClientOrder, m), m)
  <2> DEFINE o == ClientOrder
  <2>1. /\ DOMAIN o = 1 .. 6
        /\ o[1] = "empty" /\ o[2] = "lro" /\ o[3] = "paging"
        /\ o[4] = "clientStream" /\ o[5] = "serverStream" /\ o[6] = "unary"
    BY DEF ClientOrder
  <2> HIDE DEF o
  <2> QED
    BY <1>1, <1>2, <2>1, SixKinds DEF IsA, o
<1>5. IsA(Kind(TransportOrder, m), m)
  <2> DEFINE o == TransportOrder
  <2>1. /\ DOMAIN o = 1 .. 6
        /\ o[1] = "lro" /\ o[2] = "empty" /\ o[3] = "paging"
        /\ o[4] = "clientStream" /\ o[5] = "serverStream" /\ o[6] = "unary"
    BY DEF TransportOrder
  <2> HIDE DEF o
  <2> QED
    BY <1>1, <1>2, <2>1, SixKinds DEF IsA, o
<1> QED
  BY <1>3, <1>4, <1>5

-------------------------------------------------------------------------------
(* The methods of a service and their signatures, as the request determines
   them; r is the request. *)
OverriddenIn(r) ==
  \E s \in Range1(r.services), m \in Range1(r.mixins.iamPolicy) :
    \E own \in Range1(s.methods) : own.name = m.name
MixinsIn(r) ==
  IF r.apis <= 1 THEN <<>>
  ELSE r.mixins.locations
         \o (IF OverriddenIn(r) THEN <<>> ELSE r.mixins.iamPolicy)
         \o r.mixins.operations
MethodsIn(r, s) == Range1(s.methods \o MixinsIn(r))
CustomOpIn(r, m) ==
  r.customOp /\ m.out = "Operation" /\ m.name # "Wait" /\ m.opts /\ m.http # "get"
Call(r, s, m) ==
  IF m.out = "Empty" THEN <<"error", m.in>>
  ELSE IF IsPaged(m) THEN <<"iterator", m.in, m.page.iter>>
  ELSE IF IsLRO(m) THEN <<"operation", m.in, OpName(m)>>
  ELSE IF m.cs THEN <<"stream", <<>>, <<s.pkg, s.name, m.name>> >>
  ELSE IF m.ss THEN <<"stream", m.in, <<s.pkg, s.name, m.name>> >>
  ELSE IF CustomOpIn(r, m) THEN <<"operation", m.in, <<"Operation">> >>
  ELSE <<"message", m.in, m.out>>

Callable(r, s, m) == << <<m.name>>, Call(r, s, m)>>
ByName(m) == <<OpName(m), <<"byName">> >>
Callables(r, s, ms) == {Callable(r, s, m) : m \in ms}
Offered(r, s, ms) == Callables(r, s, ms) \cup {ByName(m) : m \in {n \in ms : IsLRO(n)}}
Offers(r, s) == Offered(r, s, MethodsIn(r, s))

OwnTransports(r, s) == IF HasRESTMethod(s) THEN Range1(r.transports) ELSE {"grpc"}

(* What the descriptors of a package have in common: services have names of
   their own (protoc sees to it); the request of a streaming method is a
   message of the service's own package, which internalClientIntfInit takes for
   granted; and custom operations, which come from Discovery documents, have an
   HTTP rule and go with REST only. *)
Uniform(r) ==
  /\ \A i, j \in DOMAIN r.services : r.services[i].name = r.services[j].name => i = j
  /\ \A s \in Range1(r.services) : \A m \in Range1(s.methods) \cup MixinSet(r) :
        Streaming(m) => m.in[1] = s.pkg
  /\ \A s \in Range1(r.services) : \A m \in Range1(s.methods) :
        CustomOpIn(r, m) => m.http # "none"
  /\ r.customOp => "grpc" \notin Range1(r.transports)

LEMMA MethodSetIsMethodsIn == \A s : MethodSet(s) = MethodsIn(request, s)
BY DEF MethodSet, Methods, Mixins, IAMPolicyOverridden, MethodsIn, MixinsIn, OverriddenIn, Services

LEMMA RangeOfConcat ==
  ASSUME NEW S, NEW p \in Seq(S), NEW q \in Seq(S)
  PROVE  Range1(p \o q) = Range1(p) \cup Range1(q)
<1>0. Len(p) \in Nat /\ Len(q) \in Nat
  BY LenProperties
<1>1. /\ p \o q \in Seq(S) /\ Len(p \o q) = Len(p) + Len(q)
      /\ \A i \in 1 .. Len(p) + Len(q) :
            (p \o q)[i] = IF i <= Len(p) THEN p[i] ELSE q[i - Len(p)]
  BY ConcatProperties
<1>2. DOMAIN p = 1 .. Len(p) /\ DOMAIN q = 1 .. Len(q) /\ DOMAIN (p \o q) = 1 .. Len(p) + Len(q)
  BY <1>1
<1>3. ASSUME NEW i \in DOMAIN (p \o q) PROVE (p \o q)[i] \in Range1(p) \cup Range1(q)
  <2>1. CASE i <= Len(p)
    <3>1. i \in DOMAIN p /\ (p \o q)[i] = p[i]
      BY <1>0, <1>1, <1>2, <2>1
    <3> QED
      BY <3>1 DEF Range1
  <2>2. CASE ~(i <= Len(p))
    <3>1. i - Len(p) \in DOMAIN q /\ (p \o q)[i] = q[i - Len(p)]
      BY <1>0, <1>1, <1>2, <2>2
    <3> QED
      BY <3>1 DEF Range1
  <2> QED
    BY <2>1, <2>2
<1>4. ASSUME NEW i \in DOMAIN p PROVE p[i] \in Range1(p \o q)
  <2>1. i \in DOMAIN (p \o q) /\ (p \o q)[i] = p[i]
    BY <1>0, <1>1, <1>2
  <2> QED
    BY <2>1 DEF Range1
<1>5. ASSUME NEW i \in DOMAIN q PROVE q[i] \in Range1(p \o q)
  <2>1. Len(p) + i \in DOMAIN (p \o q) /\ (p \o q)[Len(p) + i] = q[i]
    BY <1>0, <1>1, <1>2
  <2> QED
    BY <2>1 DEF Range1
<1> QED
  BY <1>3, <1>4, <1>5 DEF Range1

LEMMA RangeOfThree ==
  ASSUME NEW S, NEW p \in Seq(S), NEW i \in Seq(S), NEW o \in Seq(S)
  PROVE  /\ p \o i \in Seq(S) /\ (p \o i) \o o \in Seq(S)
         /\ Range1(p \o i) = Range1(p) \cup Range1(i)
         /\ Range1((p \o i) \o o) = Range1(p) \cup Range1(i) \cup Range1(o)
<1> DEFINE q == p \o i
<1>1. q \in Seq(S) /\ Range1(q) = Range1(p) \cup Range1(i)
  BY RangeOfConcat
<1> HIDE DEF q
<1>2. q \o o \in Seq(S) /\ Range1(q \o o) = Range1(q) \cup Range1(o)
  BY <1>1, RangeOfConcat
<1> QED
  BY <1>1, <1>2 DEF q

(* A method of a service is the service's own or a mixin, and mixins are no
   operations: isLRO leaves out what google.longrunning declares. *)
LEMMA MixinsInAre ==
  ASSUME NEW r, IsRequest(r)
  PROVE  MixinsIn(r) \in Seq(MixinSet(r)) /\ Range1(MixinsIn(r)) \subseteq MixinSet(r)
<1> DEFINE S == MixinSet(r)
           p == r.mixins.locations
           i == IF OverriddenIn(r) THEN <<>> ELSE r.mixins.iamPolicy
           o == r.mixins.operations
<1>1. <<>> \in Seq(S) /\ Range1(<<>>) = {}
  BY EmptySeq DEF Range1
<1>2. /\ p \in Seq(S) /\ o \in Seq(S) /\ r.mixins.iamPolicy \in Seq(S)
      /\ Range1(p) \subseteq S /\ Range1(o) \subseteq S /\ Range1(r.mixins.iamPolicy) \subseteq S
  BY MixinLists
<1>3. i \in Seq(S) /\ Range1(i) \subseteq S
  BY <1>1, <1>2
<1>4. MixinsIn(r) = IF r.apis <= 1 THEN <<>> ELSE (p \o i) \o o
  BY DEF MixinsIn
<1> HIDE DEF S, p, i, o
<1>5. /\ (p \o i) \o o \in Seq(S)
      /\ Range1((p \o i) \o o) = Range1(p) \cup Range1(i) \cup Range1(o)
  BY <1>2, <1>3, RangeOfThree
<1>6. MixinsIn(r) \in Seq(S) /\ Range1(MixinsIn(r)) \subseteq S
  BY <1>1, <1>2, <1>3, <1>4, <1>5
<1> QED
  BY <1>6 DEF S

LEMMA MethodsInAre ==
  ASSUME NEW r, IsRequest(r), NEW s \in Range1(r.services)
  PROVE  /\ MethodsIn(r, s) \subseteq Range1(s.methods) \cup MixinSet(r)
         /\ Range1(s.methods) \subseteq MethodsIn(r, s)
         /\ \A m \in MethodsIn(r, s) : IsMethod(m)
         /\ \A m \in MethodsIn(r, s) : IsLRO(m) \/ CustomOpIn(r, m) => m \in Range1(s.methods)
<1> DEFINE S == Range1(s.methods) \cup MixinSet(r)
<1>1. s.methods \in Seq(S)
  <2>1. s.methods \in Seq(Range1(s.methods))
    BY DEF IsRequest, IsList
  <2> QED
    BY <2>1
<1>2. MixinsIn(r) \in Seq(S) /\ Range1(MixinsIn(r)) \subseteq MixinSet(r)
  BY MixinsInAre
<1>3. MethodsIn(r, s) = Range1(s.methods) \cup Range1(MixinsIn(r))
  <2> HIDE DEF S
  <2> QED
    BY <1>1, <1>2, RangeOfConcat DEF MethodsIn
<1>4. \A m \in MixinSet(r) :
        /\ IsMethod(m)
        /\ m.out # "Operation"
        /\ m.out = "longrunning.Operation" => m.proto = "google.longrunning"
  BY DEF IsRequest, IsMixin, MixinSet
<1>5. \A m \in Range1(s.methods) : IsMethod(m)
  BY DEF IsRequest
<1>6. \A m \in MixinSet(r) : ~IsLRO(m) /\ ~CustomOpIn(r, m)
  BY <1>4 DEF IsLRO, CustomOpIn
<1> QED
  BY <1>2, <1>3, <1>4, <1>5, <1>6

(* The interface, the client and the transports give a method one signature. *)
LEMMA SignaturesAgree ==
  ASSUME IsRequest(request), Uniform(request),
         NEW s \in Range1(request.services), NEW m \in MethodsIn(request, s)
  PROVE  /\ Signature(Kind(InterfaceOrder, m), s, m, m.in[1]) = Call(request, s, m)
         /\ Signature(Kind(ClientOrder, m), s, m, s.pkg) = Call(request, s, m)
         /\ \A t \in OwnTransports(request, s) :
              TransportSignature(t, Kind(TransportOrder, m), s, m) = Call(request, s, m)
<1>1. /\ IsMethod(m) /\ m \in Range1(s.methods) \cup MixinSet(request)
      /\ CustomOpIn(request, m) => m \in Range1(s.methods)
  BY MethodsInAre
<1>2. /\ IsA(Kind(InterfaceOrder, m), m)
      /\ IsA(Kind(ClientOrder, m), m)
      /\ IsA(Kind(TransportOrder, m), m)
  BY <1>1, OrdersAgree
<1>3. Streaming(m) => m.in[1] = s.pkg
  BY <1>1 DEF Uniform
<1>4. IsCustomOp(m) = CustomOpIn(request, m)
  BY DEF IsCustomOp, CustomOpIn
<1>5. ASSUME NEW kind, IsA(kind, m), NEW pkg, Streaming(m) => pkg = s.pkg
      PROVE  Signature(kind, s, m, pkg) = Call(request, s, m)
  <2>1. m.cs \/ m.ss => pkg = s.pkg
    BY <1>5 DEF Streaming
  <2>2. CASE kind = "empty"
    BY <2>2, <1>5 DEF IsA, Signature, Call
  <2>3. CASE kind = "paging"
    BY <2>3, <1>5 DEF IsA, Signature, Call
  <2>4. CASE kind = "lro"
    BY <2>4, <1>5 DEF IsA, Signature, Call
  <2>5. CASE kind = "clientStream"
    BY <2>1, <2>5, <1>5 DEF IsA, Signature, Call
  <2>6. CASE kind = "serverStream"
    BY <2>1, <2>6, <1>5 DEF IsA, Signature, Call
  <2>7. CASE kind = "unary"
    BY <2>7, <1>4, <1>5 DEF IsA, Signature, Call, Result
  <2> QED
    BY <1>5, <2>2, <2>3, <2>4, <2>5, <2>6, <2>7 DEF IsA
<1>6. "grpc" \in OwnTransports(request, s) => ~CustomOpIn(request, m)
  <2> SUFFICES ASSUME "grpc" \in OwnTransports(request, s), CustomOpIn(request, m) PROVE FALSE
    OBVIOUS
  <2>1. m \in Range1(s.methods) /\ m.http # "none" /\ request.customOp
    BY <1>1 DEF Uniform, CustomOpIn
  <2>2. HasRESTMethod(s)
    BY <2>1 DEF HasRESTMethod
  <2> QED
    BY <2>1, <2>2 DEF OwnTransports, Uniform
<1>7. ASSUME NEW t \in OwnTransports(request, s)
      PROVE  TransportSignature(t, Kind(TransportOrder, m), s, m) = Call(request, s, m)
  <2> DEFINE kind == Kind(TransportOrder, m)
  <2>1. CASE t = "grpc" /\ kind = "unary"
    <3>1. TransportSignature(t, kind, s, m) = <<"message", m.in, m.out>>
      BY <2>1 DEF TransportSignature
    <3>2. m.out # "Empty" /\ ~IsPaged(m) /\ ~IsLRO(m) /\ ~m.cs /\ ~m.ss
      BY <1>2, <2>1 DEF IsA
    <3> QED
      BY <1>6, <2>1, <3>1, <3>2 DEF Call
  <2>2. CASE ~(t = "grpc" /\ kind = "unary")
    <3>1. TransportSignature(t, kind, s, m) = Signature(kind, s, m, s.pkg)
      BY <2>2 DEF TransportSignature
    <3> HIDE DEF kind
    <3> QED
      BY <1>2, <1>5, <3>1 DEF kind
  <2> QED
    BY <2>1, <2>2
<1> QED
  BY <1>2, <1>3, <1>5, <1>7

-------------------------------------------------------------------------------
(* A receiver's methods among the definitions D. *)
Receivers == {"interface", "client", "grpc", "rest"}
Piece(d) == <<SubSeq(d.id, 3, Len(d.id)), d.sig>>
SurfaceOf(D, receiver, name) ==
  {Piece(d) : d \in {e \in D : e.id[1] = receiver /\ e.id[2] = name}}

(* D offers all that the request asks for; or all but the methods ms, or all
   calls but those of ms, constructors by name aside. *)
Full(D, receiver, r, s) == Offers(r, s) \subseteq SurfaceOf(D, receiver, s.name)
But(D, receiver, r, s, ms) ==
  Offers(r, s) \subseteq SurfaceOf(D, receiver, s.name) \cup Offered(r, s, ms)
CallsBut(D, receiver, r, s, ms) ==
  Callables(r, s, MethodsIn(r, s)) \subseteq SurfaceOf(D, receiver, s.name) \cup Callables(r, s, ms)
Complete(D, r, s) ==
  \A receiver \in {"interface", "client"} \cup OwnTransports(r, s) : Full(D, receiver, r, s)

(* A definition that the request asks for. *)
Proper(r, d) ==
  /\ d.id[1] \in Receivers =>
       \E s \in Range1(r.services) : d.id[2] = s.name /\ Piece(d) \in Offers(r, s)
  /\ d.id[1] = "New" =>
       \E s \in Range1(r.services) : d.id[2] = s.name /\ d.id[3] \in OwnTransports(r, s)

LEMMA SurfaceGrows ==
  ASSUME NEW D, NEW E, D \subseteq E, NEW receiver, NEW r, NEW s
  PROVE  /\ SurfaceOf(D, receiver, s.name) \subseteq SurfaceOf(E, receiver, s.name)
         /\ Full(D, receiver, r, s) => Full(E, receiver, r, s)
         /\ \A ms : But(D, receiver, r, s, ms) => But(E, receiver, r, s, ms)
         /\ \A ms : CallsBut(D, receiver, r, s, ms) => CallsBut(E, receiver, r, s, ms)
<1>1. SurfaceOf(D, receiver, s.name) \subseteq SurfaceOf(E, receiver, s.name)
  BY DEF SurfaceOf
<1> QED
  BY <1>1 DEF Full, But, CallsBut

LEMMA NothingLeft ==
  ASSUME NEW D, NEW receiver, NEW r, NEW s
  PROVE  /\ But(D, receiver, r, s, {}) => Full(D, receiver, r, s)
         /\ But(D, receiver, r, s, MethodsIn(r, s))
         /\ CallsBut(D, receiver, r, s, MethodsIn(r, s))
BY DEF But, Full, CallsBut, Offers, Offered, Callables

(* One more method printed. *)
LEMMA OneMore ==
  ASSUME NEW D, NEW E, D \subseteq E, NEW receiver, NEW r, NEW s, NEW m,
         NEW ms, NEW rest, ms \subseteq rest \cup {m}
  PROVE  /\ But(D, receiver, r, s, ms)
              /\ Offered(r, s, {m}) \subseteq SurfaceOf(E, receiver, s.name)
              => But(E, receiver, r, s, rest)
         /\ CallsBut(D, receiver, r, s, ms)
              /\ Callable(r, s, m) \in SurfaceOf(E, receiver, s.name)
              => CallsBut(E, receiver, r, s, rest)
<1>1. SurfaceOf(D, receiver, s.name) \subseteq SurfaceOf(E, receiver, s.name)
  BY SurfaceGrows
<1>2. Offered(r, s, ms) \subseteq Offered(r, s, rest) \cup Offered(r, s, {m})
  BY DEF Offered, Callables
<1>3. Callables(r, s, ms) \subseteq Callables(r, s, rest) \cup {Callable(r, s, m)}
  BY DEF Callables
<1> QED
  BY <1>1, <1>2, <1>3 DEF But, CallsBut

LEMMA PieceOfCall ==
  ASSUME NEW d, NEW receiver, NEW name, NEW x, d.id = <<receiver, name, x>>
  PROVE  d.id[1] = receiver /\ d.id[2] = name /\ Piece(d) = << <<x>>, d.sig>>
<1>1. SubSeq(<<receiver, name, x>>, 3, Len(<<receiver, name, x>>)) = <<x>>
  BY RestOfId
<1>2. SubSeq(d.id, 3, Len(d.id)) = <<x>>
  BY <1>1, Zenon
<1> QED
  BY <1>2 DEF Piece

LEMMA PieceOfByName ==
  ASSUME NEW d, NEW receiver, NEW name, NEW m, d.id = <<receiver, name>> \o OpName(m)
  PROVE  d.id[1] = receiver /\ d.id[2] = name /\ Piece(d) = <<OpName(m), d.sig>>
<1>1. d.id = <<receiver, name, m.name, "Operation">>
  BY ByNameIds, Zenon
<1>2. SubSeq(<<receiver, name, m.name, "Operation">>, 3,
             Len(<<receiver, name, m.name, "Operation">>)) = OpName(m)
  BY RestOfId DEF OpName
<1>3. SubSeq(d.id, 3, Len(d.id)) = OpName(m)
  BY <1>1, <1>2, Zenon
<1> QED
  BY <1>1, <1>3 DEF Piece

(* What the interface and the client define for a method is what the request
   asks for: the call and, for an operation, its constructor by name. *)
LEMMA MethodDefsOffered ==
  ASSUME NEW r, NEW s \in Range1(r.services), NEW m \in MethodsIn(r, s), IsMethod(m),
         NEW receiver \in {"interface", "client"}
  PROVE  /\ \A d \in MethodDefs(receiver, s, m, Call(r, s, m)) : Proper(r, d)
         /\ Offered(r, s, {m})
              \subseteq SurfaceOf(MethodDefs(receiver, s, m, Call(r, s, m)), receiver, s.name)
<1> DEFINE sig == Call(r, s, m)
           D == MethodDefs(receiver, s, m, sig)
           call == Def(<<receiver, s.name, m.name>>, sig, Len(todo))
           byName == Def(<<receiver, s.name>> \o OpName(m), <<"byName">>, Len(todo))
<1>1. IsLRO(m) => sig[1] = "operation"
  <2>1. IsLRO(m) => m.out # "Empty" /\ ~IsPaged(m)
    BY DEF IsLRO, IsMethod, IsPaged, NoPage
  <2> QED
    BY <2>1 DEF Call
<1>2. D = {call} \cup (IF IsLRO(m) THEN {byName} ELSE {})
  <2>1. D = {call} \cup (IF sig[1] = "operation" /\ IsLRO(m) THEN {byName} ELSE {})
    BY Zenon DEF MethodDefs
  <2> HIDE DEF sig, call, byName, D
  <2> QED
    BY <1>1, <2>1
<1>3. call.id[1] = receiver /\ call.id[2] = s.name /\ Piece(call) = Callable(r, s, m)
  <2>1. call.id = <<receiver, s.name, m.name>> /\ call.sig = sig
    BY DEF Def
  <2> HIDE DEF call, sig
  <2>2. /\ call.id[1] = receiver /\ call.id[2] = s.name
        /\ Piece(call) = << <<m.name>>, call.sig>>
    BY <2>1, PieceOfCall
  <2> QED
    BY <2>1, <2>2 DEF Callable, sig
<1>4. byName.id[1] = receiver /\ byName.id[2] = s.name /\ Piece(byName) = ByName(m)
  <2>1. byName.id = <<receiver, s.name>> \o OpName(m) /\ byName.sig = <<"byName">>
    BY DEF Def
  <2> HIDE DEF byName
  <2>2. /\ byName.id[1] = receiver /\ byName.id[2] = s.name
        /\ Piece(byName) = <<OpName(m), byName.sig>>
    <3> DEFINE name == s.name
    <3>1. byName.id = <<receiver, name>> \o OpName(m)
      BY <2>1
    <3> HIDE DEF name
    <3>2. /\ byName.id[1] = receiver /\ byName.id[2] = name
          /\ Piece(byName) = <<OpName(m), byName.sig>>
      BY <3>1, PieceOfByName
    <3> QED
      BY <3>2 DEF name
  <2> QED
    BY <2>1, <2>2 DEF ByName
<1> HIDE DEF call, byName, sig, D
<1>5. Callable(r, s, m) \in Offers(r, s) /\ (IsLRO(m) => ByName(m) \in Offers(r, s))
  BY DEF Offers, Offered, Callables
<1>6. \A d \in D : Proper(r, d)
  BY <1>2, <1>3, <1>4, <1>5 DEF Proper, Receivers
<1>7. Offered(r, s, {m}) \subseteq SurfaceOf(D, receiver, s.name)
  BY <1>2, <1>3, <1>4 DEF Offered, Callables, SurfaceOf
<1> QED
  BY <1>6, <1>7 DEF D, sig

-------------------------------------------------------------------------------
(* A method whose page fields no transport refuses. *)
Tolerated(m) == m.out = "Empty" \/ ~PagingError(m)

(* The service being generated: its interface, then its client, then one
   transport after the other, then the constructors by name. *)
InterfacePhase ==
  /\ But(Written, "interface", request, Service, Range1(todo))
  /\ \A m \in MethodSet(Service) \ Range1(todo) : Tolerated(m)
WrapperPhase ==
  /\ But(Written, "client", request, Service, Range1(todo))
  /\ \A m \in MethodSet(Service) : Tolerated(m)
TransportPhase ==
  /\ todo \in Seq(MethodSet(Service))
  /\ Range1(lanes) \subseteq OwnTransports(request, Service)
  /\ \A t \in OwnTransports(request, Service) \ Range1(lanes) :
        CallsBut(Written, t, request, Service, {})
  /\ lanes # <<>> => CallsBut(Written, Head(lanes), request, Service, Range1(todo))
  /\ \A m \in MethodSet(Service) : IsLRO(m) =>
        \/ <<Service.name, m.name>> \in wrapped
        \/ lanes = transports /\ m \in Range1(todo)

AfterInterface == {"wrappers", "transport", "example", "iterExample"}
AfterWrappers == {"transport", "example", "iterExample"}
AfterClient == {"example", "iterExample"}
AfterServices == {"snippetMetadata", "doc", "gapicMetadata", "operations", "aux", "done"}

ProgressInv ==
  /\ pc = "interface" => InterfacePhase
  /\ pc \in AfterInterface => Full(Written, "interface", request, Service)
  /\ pc = "wrappers" => WrapperPhase
  /\ pc \in AfterWrappers => Full(Written, "client", request, Service)
  /\ pc = "transport" => TransportPhase
  /\ pc \in AfterClient =>
       \A t \in OwnTransports(request, Service) : Full(Written, t, request, Service)

(* Only operations are wrapped. *)
WrappedInv ==
  \A p \in wrapped : \E s \in Range1(request.services) : \E m \in MethodsIn(request, s) :
    IsLRO(m) /\ p = <<s.name, m.name>>

(* What makes SameSurface inductive: nothing is defined that the request does
   not ask for, services that are behind are complete, and of the present one
   only what the loops have still to visit is missing. *)
SurfaceInv ==
  pc \notin Stopped =>
    /\ \A d \in Written : Proper(request, d)
    /\ WrappedInv
    /\ \A i \in DOMAIN Services : i < current => Complete(Written, request, Services[i])
    /\ pc \in AfterServices => current > Len(Services)
    /\ ProgressInv

LEMMA DistinctServices ==
  ASSUME NEW r, Uniform(r), NEW s \in Range1(r.services), NEW t \in Range1(r.services),
         s.name = t.name
  PROVE  s = t
BY DEF Uniform, Range1

LEMMA PresentService ==
  ASSUME EntriesInv, pc \in Inside \cup {"snippets", "client"}
  PROVE  /\ IsRequest(request)
         /\ current \in DOMAIN Services
         /\ Service \in Range1(request.services)
         /\ MethodSet(Service) = MethodsIn(request, Service)
         /\ \A m \in MethodSet(Service) : IsMethod(m)
         /\ Methods(Service) \in Seq(MethodSet(Service))
<1>1. /\ request \in Requests /\ current \in Nat \ {0} /\ current <= Len(Services)
  BY DEF EntriesInv
<1>2. IsRequest(request)
  BY <1>1, RequestsAssumption
<1>3. Services \in Seq(Range1(Services))
  BY <1>2 DEF IsRequest, IsList, Services
<1>4. current \in DOMAIN Services
  BY <1>1, <1>3
<1>5. Service \in Range1(request.services)
  BY <1>4 DEF Service, Services, Range1
<1>6. MethodSet(Service) = MethodsIn(request, Service)
  BY MethodSetIsMethodsIn
<1>7. \A m \in MethodSet(Service) : IsMethod(m)
  BY <1>2, <1>5, <1>6, MethodsInAre
<1> QED
  BY <1>1, <1>2, <1>4, <1>5, <1>6, <1>7, MethodsAreListed

LEMMA PresentTransports ==
  ASSUME EntriesInv, OptionsInv, pc \in Inside
  PROVE  /\ Range1(transports) = OwnTransports(request, Service)
         /\ transports # <<>>
<1>1. request.transports \in {<<"grpc">>, <<"rest">>, <<"grpc", "rest">>}
  BY PresentService DEF IsRequest
<1>2. transports = IF HasRESTMethod(Service) THEN request.transports ELSE <<"grpc">>
  BY DEF OptionsInv
<1>3. Range1(<<"grpc">>) = {"grpc"}
  BY DEF Range1
<1>4. Range1(transports) = OwnTransports(request, Service)
  BY <1>2, <1>3 DEF OwnTransports
<1>5. <<"grpc">> # <<>> /\ <<"rest">> # <<>> /\ <<"grpc", "rest">> # <<>>
  OBVIOUS
<1> QED
  BY <1>1, <1>2, <1>4, <1>5

(* The definition a transport prints for a method. *)
LEMMA LaneDefOffered ==
  ASSUME EntriesInv, Uniform(request), pc \in Inside,
         Head(lanes) \in OwnTransports(request, Service), NEW m \in MethodSet(Service)
  PROVE  /\ Proper(request, LaneDef(m))
         /\ Callable(request, Service, m)
              \in SurfaceOf({LaneDef(m)}, Head(lanes), Service.name)
<1> DEFINE t == Head(lanes)
           d == LaneDef(m)
<1>1. /\ IsRequest(request) /\ Service \in Range1(request.services)
      /\ m \in MethodsIn(request, Service)
  BY PresentService
<1>2. d.id = <<t, Service.name, m.name>> /\ d.sig = Call(request, Service, m)
  BY <1>1, SignaturesAgree DEF LaneDef, Def
<1> HIDE DEF t, d
<1>3. d.id[1] = t /\ d.id[2] = Service.name /\ Piece(d) = << <<m.name>>, d.sig>>
  <2> DEFINE name == Service.name
             x == m.name
  <2>1. d.id = <<t, name, x>>
    BY <1>2
  <2> HIDE DEF name, x
  <2> QED
    BY <2>1, PieceOfCall DEF name, x
<1>4. Piece(d) = Callable(request, Service, m)
  BY <1>2, <1>3 DEF Callable
<1>5. Callable(request, Service, m) \in Offers(request, Service)
  BY <1>1 DEF Offers, Offered, Callables
<1>6. t \in {"grpc", "rest"}
  <2>1. request.transports \in {<<"grpc">>, <<"rest">>, <<"grpc", "rest">>}
    BY <1>1 DEF IsRequest
  <2>2. Range1(request.transports) \subseteq {"grpc", "rest"}
    BY <2>1 DEF Range1
  <2> QED
    BY <2>2 DEF OwnTransports, t
<1>7. Proper(request, d)
  BY <1>1, <1>3, <1>4, <1>5, <1>6 DEF Proper
<1>8. Callable(request, Service, m) \in SurfaceOf({d}, t, Service.name)
  BY <1>3, <1>4 DEF SurfaceOf
<1> QED
  BY <1>7, <1>8 DEF t, d

(* The constructors by name, of each transport, for each operation wrapped. *)
LEMMA BuildersOffered ==
  ASSUME EntriesInv, OptionsInv, WrappedInv, Uniform(request), pc \in Inside
  PROVE  /\ \A d \in BuilderDefs(Service) : Proper(request, d)
         /\ \A t \in OwnTransports(request, Service), m \in MethodSet(Service) :
              IsLRO(m) /\ <<Service.name, m.name>> \in wrapped =>
                ByName(m) \in SurfaceOf(BuilderDefs(Service), t, Service.name)
<1> DEFINE s == Service
           lros == {i \in DOMAIN s.methods : <<s.name, s.methods[i].name>> \in wrapped}
<1>0. /\ IsRequest(request) /\ s \in Range1(request.services)
      /\ MethodSet(s) = MethodsIn(request, s)
      /\ Range1(transports) = OwnTransports(request, s)
  BY PresentService, PresentTransports
<1>1. BuilderDefs(s) = {Def(<<t, s.name>> \o OpName(s.methods[i]), <<"byName">>, i) :
                          i \in lros, t \in Range1(transports)}
  BY DEF BuilderDefs
<1>2. lros \subseteq DOMAIN s.methods /\ \A i \in lros : <<s.name, s.methods[i].name>> \in wrapped
  OBVIOUS
<1>3. ASSUME NEW i \in DOMAIN s.methods, <<s.name, s.methods[i].name>> \in wrapped
      PROVE  i \in lros
  BY <1>3
<1> HIDE DEF lros, s
<1>4. ASSUME NEW d \in BuilderDefs(s) PROVE Proper(request, d)
  <2>1. PICK i \in lros, t \in Range1(transports) :
             d = Def(<<t, s.name>> \o OpName(s.methods[i]), <<"byName">>, i)
    BY <1>1
  <2>2. d.id[1] = t /\ d.id[2] = s.name /\ Piece(d) = ByName(s.methods[i])
    <3> DEFINE name == s.name
               m == s.methods[i]
    <3>1. d.id = <<t, name>> \o OpName(m)
      BY <2>1 DEF Def
    <3>2. d.sig = <<"byName">>
      BY <2>1 DEF Def
    <3> HIDE DEF name, m
    <3>3. d.id[1] = t /\ d.id[2] = name /\ Piece(d) = <<OpName(m), d.sig>>
      BY <3>1, PieceOfByName
    <3> QED
      BY <3>2, <3>3 DEF name, m, ByName
  <2>a. PICK u \in Range1(request.services) : \E m \in MethodsIn(request, u) :
             IsLRO(m) /\ <<s.name, s.methods[i].name>> = <<u.name, m.name>>
    BY <1>2, <2>1 DEF WrappedInv
  <2>3. PICK m \in MethodsIn(request, u) :
             IsLRO(m) /\ <<s.name, s.methods[i].name>> = <<u.name, m.name>>
    BY <2>a
  <2>4. u = s /\ m.name = s.methods[i].name
    BY <1>0, <2>3, DistinctServices
  <2>5. ByName(s.methods[i]) = ByName(m)
    BY <2>4 DEF ByName, OpName
  <2>6. ByName(m) \in Offers(request, s)
    BY <2>3, <2>4 DEF Offers, Offered
  <2>7. t \in {"grpc", "rest"}
    <3>1. Range1(request.transports) \subseteq {"grpc", "rest"}
      BY <1>0 DEF IsRequest, Range1
    <3> QED
      BY <1>0, <3>1 DEF OwnTransports
  <2> QED
    BY <1>0, <2>2, <2>5, <2>6, <2>7 DEF Proper
<1>5. ASSUME NEW t \in OwnTransports(request, s), NEW m \in MethodSet(s),
             IsLRO(m), <<s.name, m.name>> \in wrapped
      PROVE  ByName(m) \in SurfaceOf(BuilderDefs(s), t, s.name)
  <2>1. m \in Range1(s.methods)
    BY <1>0, <1>5, MethodsInAre
  <2>2. PICK i \in DOMAIN s.methods : s.methods[i] = m
    BY <2>1 DEF Range1
  <2> DEFINE d == Def(<<t, s.name>> \o OpName(s.methods[i]), <<"byName">>, i)
  <2>3. i \in lros
    BY <1>3, <1>5, <2>2
  <2>4. d \in BuilderDefs(s)
    BY <1>0, <1>1, <2>3
  <2>5. d.id[1] = t /\ d.id[2] = s.name /\ Piece(d) = ByName(s.methods[i])
    <3> DEFINE name == s.name
               own == s.methods[i]
    <3>1. d.id = <<t, name>> \o OpName(own)
      BY DEF Def
    <3>2. d.sig = <<"byName">>
      BY DEF Def
    <3> HIDE DEF d, name, own
    <3>3. d.id[1] = t /\ d.id[2] = name /\ Piece(d) = <<OpName(own), d.sig>>
      BY <3>1, PieceOfByName
    <3> QED
      BY <3>2, <3>3 DEF name, own, ByName
  <2> HIDE DEF d
  <2> QED
    BY <2>2, <2>4, <2>5 DEF SurfaceOf
<1> QED
  BY <1>4, <1>5 DEF s

-------------------------------------------------------------------------------
(* Helpers and types are nobody's methods. *)
LEMMA OthersProper ==
  ASSUME MetaInv
  PROVE  \A d \in HelperDefs \cup OperationDefs \cup AuxDefs : Proper(request, d)
<1>1. \A d \in HelperDefs : d.id[1] = "func"
  BY DEF HelperDefs, Def, Helper
<1>2. \A d \in OperationDefs : d.id[1] \in {"type", "handle"}
  BY DEF OperationDefs, Def
<1>3. \A d \in AuxDefs : d.id[1] = "type"
  <2>1. ASSUME NEW w \in wrappers PROVE WrapperDef(w).id[1] = "type"
    <3>1. PICK m : w[1] = OpName(m)
      BY DEF MetaInv
    <3>2. WrapperDef(w).id = <<"type">> \o OpName(m)
      BY <3>1 DEF WrapperDef, Def
    <3> QED
      BY <3>2, ByNameIds
  <2>2. ASSUME NEW p \in iters PROVE IterDef(p).id[1] = "type"
    BY DEF IterDef, Def
  <2> QED
    BY <2>1, <2>2 DEF AuxDefs
<1>4. \A d : d.id[1] \in {"func", "type", "handle"} => Proper(request, d)
  BY DEF Proper, Receivers
<1> QED
  BY <1>1, <1>2, <1>3, <1>4

LEMMA ConstructorsProper ==
  ASSUME EntriesInv, OptionsInv, pc \in Inside
  PROVE  \A d \in ConstructorDefs : Proper(request, d)
<1> SUFFICES ASSUME NEW d \in ConstructorDefs PROVE Proper(request, d)
  OBVIOUS
<1>1. PICK i \in DOMAIN transports : d = Def(New(Service, transports[i]), <<"func">>, i)
  BY DEF ConstructorDefs
<1>2. d.id[1] = "New" /\ d.id[2] = Service.name /\ d.id[3] = transports[i]
  BY <1>1 DEF Def, New
<1>3. transports[i] \in OwnTransports(request, Service)
  BY PresentTransports DEF Range1
<1>4. Service \in Range1(request.services)
  BY PresentService
<1> QED
  BY <1>2, <1>3, <1>4 DEF Proper, Receivers

(* What the interface and the client print for the next method. *)
LEMMA NextMethodOffered ==
  ASSUME EntriesInv, Uniform(request), pc \in {"interface", "wrappers"}, todo # <<>>
  PROVE  /\ Head(todo) \in MethodSet(Service) /\ Tail(todo) \in Seq(MethodSet(Service))
         /\ Range1(todo) \subseteq Range1(Tail(todo)) \cup {Head(todo)}
         /\ \A receiver \in {"interface", "client"} :
              \A sig \in {InterfaceSignature(Head(todo)), ClientSignature(Head(todo))} :
                LET D == MethodDefs(receiver, Service, Head(todo), sig)
                IN  /\ \A d \in D : Proper(request, d)
                    /\ Offered(request, Service, {Head(todo)})
                         \subseteq SurfaceOf(D, receiver, Service.name)
<1> DEFINE m == Head(todo)
<1>1. /\ m \in MethodSet(Service) /\ Tail(todo) \in Seq(MethodSet(Service))
      /\ Range1(todo) \subseteq Range1(Tail(todo)) \cup {m}
  BY RestOfLoop DEF EntriesInv
<1>2. /\ IsRequest(request) /\ Service \in Range1(request.services)
      /\ m \in MethodsIn(request, Service) /\ IsMethod(m)
  BY <1>1, PresentService DEF Inside
<1>3. /\ InterfaceSignature(m) = Call(request, Service, m)
      /\ ClientSignature(m) = Call(request, Service, m)
  BY <1>2, SignaturesAgree DEF InterfaceSignature, ClientSignature
<1> HIDE DEF m
<1>4. ASSUME NEW receiver \in {"interface", "client"}
      PROVE  LET D == MethodDefs(receiver, Service, m, Call(request, Service, m))
             IN  /\ \A d \in D : Proper(request, d)
                 /\ Offered(request, Service, {m}) \subseteq SurfaceOf(D, receiver, Service.name)
  BY <1>2, MethodDefsOffered
<1> QED
  BY <1>1, <1>3, <1>4 DEF m

(* The methods a transport still has to visit. *)
LEMMA NextLaneMethod ==
  ASSUME TransportPhase, todo # <<>>
  PROVE  /\ Head(todo) \in MethodSet(Service) /\ Tail(todo) \in Seq(MethodSet(Service))
         /\ Range1(todo) \subseteq Range1(Tail(todo)) \cup {Head(todo)}
BY RestOfLoop DEF TransportPhase

LEMMA LanesAre ==
  ASSUME MetaInv, lanes # <<>>
  PROVE  /\ Head(lanes) \in Range1(lanes)
         /\ Range1(Tail(lanes)) \subseteq Range1(lanes)
         /\ Range1(lanes) \subseteq Range1(Tail(lanes)) \cup {Head(lanes)}
<1>1. lanes \in Seq({"grpc", "rest"})
  BY DEF MetaInv
<1>2. /\ Head(lanes) = lanes[1] /\ 1 \in DOMAIN lanes
      /\ Tail(lanes) \in Seq({"grpc", "rest"}) /\ Len(Tail(lanes)) = Len(lanes) - 1
      /\ \A i \in 1 .. Len(lanes) - 1 : Tail(lanes)[i] = lanes[i + 1]
      /\ Len(lanes) \in Nat
  BY <1>1, HeadTailProperties, LenProperties
<1>3. Range1(Tail(lanes)) \subseteq Range1(lanes)
  <2> SUFFICES ASSUME NEW i \in DOMAIN Tail(lanes) PROVE Tail(lanes)[i] \in Range1(lanes)
    BY DEF Range1
  <2>1. i \in 1 .. Len(lanes) - 1
    BY <1>2
  <2>2. i + 1 \in DOMAIN lanes /\ Tail(lanes)[i] = lanes[i + 1]
    BY <1>1, <1>2, <2>1
  <2> QED
    BY <2>2 DEF Range1
<1> QED
  BY <1>1, <1>2, <1>3, RestOfLoop DEF Range1

(* Nothing is written that the request does not ask for. *)
LEMMA ProperStep ==
  ASSUME SurfaceInv, EntriesInv, OptionsInv, MetaInv, Uniform(request), Next, pc' \notin Stopped
  PROVE  \A d \in Written' : Proper(request, d)
<1>0. /\ \A d \in Written : Proper(request, d)
      /\ WrappedInv /\ ProgressInv
  BY StoppedForGood DEF SurfaceInv
<1>a. ASSUME NEW D, Written' = Written \cup D, \A d \in D : Proper(request, d)
      PROVE  \A d \in Written' : Proper(request, d)
  BY <1>0, <1>a
<1>1. ~(SnippetFails \/ InterfaceFails \/ TransportFails \/ ExampleFails)
  BY DEF SnippetFails, InterfaceFails, TransportFails, ExampleFails, Fail, Stopped
<1>2. CASE QuietStep
  BY <1>0, <1>2, QuietWrites
<1>3. CASE GenAndCommitHelpers
  BY <1>a, <1>3, HelpersWritten, OthersProper
<1>4. CASE InterfaceMethod
  <2>1. pc \in {"interface", "wrappers"} /\ todo # <<>>
    BY <1>4 DEF InterfaceMethod
  <2> DEFINE D == MethodDefs("interface", Service, Head(todo), InterfaceSignature(Head(todo)))
  <2>2. \A d \in D : Proper(request, d)
    BY <2>1, NextMethodOffered
  <2>3. Written' = Written \cup D
    BY <1>4, InterfaceWritten
  <2> HIDE DEF D
  <2> QED
    BY <1>a, <2>2, <2>3
<1>5. CASE WrapperMethod
  <2>1. pc \in {"interface", "wrappers"} /\ todo # <<>>
    BY <1>5 DEF WrapperMethod
  <2> DEFINE D == MethodDefs("client", Service, Head(todo), ClientSignature(Head(todo)))
  <2>2. \A d \in D : Proper(request, d)
    BY <2>1, NextMethodOffered
  <2>3. Written' = Written \/ Written' = Written \cup D
    BY <1>5, WrapperWritten
  <2> HIDE DEF D
  <2> QED
    BY <1>0, <1>a, <2>2, <2>3
<1>6. CASE MakeTransports
  BY <1>a, <1>6, ConstructorsWritten, ConstructorsProper DEF MakeTransports, Inside
<1>7. CASE TransportMethod
  <2>1. pc = "transport" /\ todo # <<>> /\ lanes # <<>> /\ pc \in Inside
    BY <1>7 DEF TransportMethod, Inside
  <2>2. TransportPhase
    BY <1>0, <2>1 DEF ProgressInv
  <2>3. Head(lanes) \in OwnTransports(request, Service)
    BY <2>1, <2>2, LanesAre DEF TransportPhase
  <2>4. Head(todo) \in MethodSet(Service)
    BY <2>1, <2>2, NextLaneMethod
  <2>5. Proper(request, LaneDef(Head(todo)))
    BY <2>1, <2>3, <2>4, LaneDefOffered
  <2> QED
    BY <1>a, <1>7, <2>5, TransportWritten
<1>8. CASE GenOperationBuilders
  BY <1>0, <1>a, <1>8, BuildersWritten, BuildersOffered DEF GenOperationBuilders, Inside
<1>9. CASE CustomOperationType
  BY <1>0, <1>a, <1>9, OperationsWritten, OthersProper
<1>10. CASE GenAuxFile
  BY <1>a, <1>10, AuxWritten, OthersProper
<1> QED
  BY <1>1, <1>2, <1>3, <1>4, <1>5, <1>6, <1>7, <1>8, <1>9, <1>10, StepsOfNext

LEMMA WrappedStep ==
  ASSUME SurfaceInv, EntriesInv, Next, pc' \notin Stopped
  PROVE  WrappedInv'
<1>0. WrappedInv /\ ProgressInv /\ request' = request
  BY StoppedForGood, RequestKept DEF SurfaceInv
<1>1. CASE wrapped' = wrapped
  BY <1>0, <1>1 DEF WrappedInv
<1>2. CASE wrapped' # wrapped
  <2> DEFINE m == Head(todo)
             new == <<Service.name, m.name>>
  <2>1. /\ TransportMethod /\ wrapped' = wrapped \cup {new}
        /\ Kind(TransportOrder, m) = "lro"
    BY <1>2 DEF Next, GenService, GenPackage, NextService, GenSnippet, SnippetFails, SnippetsDone,
       StartClient, InterfaceMethod, InterfaceFails, InterfaceDone, WrapperMethod,
       MakeTransports, TransportMethod, TransportFails, TransportDone, GenOperationBuilders,
       GenExampleFile, ExampleFails, GenExampleIteratorFile, GenAndCommitHelpers,
       GenSnippetMetadata, GenDocFile, GenGapicMetadataFile, CustomOperationType,
       GenAuxFile, Fail, auxVars
  <2>2. pc = "transport" /\ todo # <<>> /\ pc \in Inside
    BY <2>1 DEF TransportMethod, Inside
  <2>3. m \in MethodSet(Service)
    BY <1>0, <2>2, NextLaneMethod DEF ProgressInv
  <2>4. /\ Service \in Range1(request.services) /\ m \in MethodsIn(request, Service)
        /\ IsMethod(m)
    BY <2>2, <2>3, PresentService
  <2>5. IsLRO(m)
    BY <2>1, <2>4, OrdersAgree DEF IsA
  <2> HIDE DEF m
  <2>6. \E s \in Range1(request.services) : \E n \in MethodsIn(request, s) :
           IsLRO(n) /\ new = <<s.name, n.name>>
    BY <2>4, <2>5
  <2> HIDE DEF new
  <2> QED
    BY <1>0, <2>1, <2>6 DEF WrappedInv
<1> QED
  BY <1>1, <1>2

(* Between the clients of two services nothing is in progress. *)
LEMMA NoProgress ==
  ASSUME pc' \notin {"interface", "wrappers", "transport", "example", "iterExample"}
  PROVE  ProgressInv'
BY DEF ProgressInv, AfterInterface, AfterWrappers, AfterClient

(* A loop starts with all methods of the service. *)
LEMMA AllToDo ==
  ASSUME EntriesInv, pc \in Inside \cup {"snippets", "client"}, request' = request,
         current' = current, todo' = Methods(Service)
  PROVE  /\ Service' = Service /\ MethodSet(Service)' = MethodSet(Service)
         /\ Range1(todo)' = MethodSet(Service)
         /\ MethodSet(Service) = MethodsIn(request, Service)
<1>1. /\ Service' = Service /\ MethodSet(Service)' = MethodSet(Service)
  BY SameService
<1>2. Range1(todo)' = MethodSet(Service)
  BY DEF Range1, MethodSet
<1> QED
  BY <1>1, <1>2, PresentService

LEMMA StartClientProgress ==
  ASSUME EntriesInv, StartClient
  PROVE  ProgressInv'
<1>1. /\ pc = "client" /\ pc' = "interface" /\ request' = request /\ current' = current
      /\ todo' = Methods(Service)
  BY DEF StartClient
<1>2. /\ Service' = Service /\ MethodSet(Service)' = MethodSet(Service)
      /\ Range1(todo)' = MethodSet(Service)
      /\ MethodSet(Service) = MethodsIn(request, Service)
  BY <1>1, AllToDo
<1>3. But(Written, "interface", request, Service, Range1(todo))'
  BY <1>1, <1>2, NothingLeft
<1>4. InterfacePhase'
  BY <1>2, <1>3 DEF InterfacePhase
<1> QED
  BY <1>1, <1>4 DEF ProgressInv, AfterInterface, AfterWrappers, AfterClient

LEMMA InterfaceProgress ==
  ASSUME EntriesInv, ProgressInv, Uniform(request), InterfaceMethod
  PROVE  ProgressInv'
<1> DEFINE m == Head(todo)
           D == MethodDefs("interface", Service, m, InterfaceSignature(m))
<1>1. /\ pc = "interface" /\ pc' = "interface" /\ request' = request /\ current' = current
      /\ todo # <<>> /\ todo' = Tail(todo)
      /\ Kind(InterfaceOrder, m) = "empty" \/ ~PagingError(m)
  BY DEF InterfaceMethod, cfgVars
<1>2. Service' = Service /\ MethodSet(Service)' = MethodSet(Service)
  BY <1>1, SameService
<1>3. /\ m \in MethodSet(Service) /\ Range1(todo) \subseteq Range1(todo') \cup {m}
      /\ Offered(request, Service, {m}) \subseteq SurfaceOf(D, "interface", Service.name)
  BY <1>1, NextMethodOffered
<1>4. Written' = Written \cup D
  BY InterfaceWritten
<1>5. InterfacePhase
  BY <1>1 DEF ProgressInv
<1>6. Tolerated(m)
  <2>1. IsMethod(m)
    BY <1>1, <1>3, PresentService DEF Inside
  <2> QED
    BY <1>1, <2>1, OrdersAgree DEF IsA, Tolerated
<1> HIDE DEF D, m
<1>7. Offered(request, Service, {m}) \subseteq SurfaceOf(Written', "interface", Service.name)
  BY <1>3, <1>4, SurfaceGrows
<1>8. But(Written', "interface", request, Service, Range1(todo'))
  BY <1>3, <1>4, <1>5, <1>7, OneMore DEF InterfacePhase
<1>9. \A n \in MethodSet(Service) \ Range1(todo') : Tolerated(n)
  BY <1>3, <1>5, <1>6 DEF InterfacePhase
<1>10. Range1(todo)' = Range1(todo')
  BY DEF Range1
<1>11. InterfacePhase'
  BY <1>1, <1>2, <1>8, <1>9, <1>10 DEF InterfacePhase
<1> QED
  BY <1>1, <1>11 DEF ProgressInv, AfterInterface, AfterWrappers, AfterClient

LEMMA InterfaceDoneProgress ==
  ASSUME EntriesInv, ProgressInv, InterfaceDone
  PROVE  ProgressInv'
<1>1. /\ pc = "interface" /\ pc' = "wrappers" /\ request' = request /\ current' = current
      /\ todo = <<>> /\ todo' = Methods(Service)
      /\ pc \in Inside
  BY DEF InterfaceDone, cfgVars, Inside
<1>2. /\ Service' = Service /\ MethodSet(Service)' = MethodSet(Service)
      /\ Range1(todo)' = MethodSet(Service)
      /\ MethodSet(Service) = MethodsIn(request, Service)
  BY <1>1, AllToDo
<1>3. Written \subseteq Written'
  BY <1>1, WrittenGrows DEF Next, GenService, Stopped
<1>4. InterfacePhase /\ Range1(todo) = {}
  BY <1>1 DEF ProgressInv, Range1
<1>5. Full(Written', "interface", request, Service)
  BY <1>3, <1>4, NothingLeft, SurfaceGrows DEF InterfacePhase
<1>6. WrapperPhase'
  <2>1. But(Written, "client", request, Service, Range1(todo))'
    BY <1>1, <1>2, NothingLeft
  <2> QED
    BY <1>2, <1>4, <2>1 DEF InterfacePhase, WrapperPhase
<1> QED
  BY <1>1, <1>2, <1>5, <1>6 DEF ProgressInv, AfterWrappers, AfterClient

LEMMA WrapperProgress ==
  ASSUME EntriesInv, ProgressInv, Uniform(request), WrapperMethod, pc' \notin Stopped
  PROVE  ProgressInv'
<1> DEFINE m == Head(todo)
           D == MethodDefs("client", Service, m, ClientSignature(m))
<1>1. /\ pc = "wrappers" /\ pc' = "wrappers" /\ request' = request /\ current' = current
      /\ todo # <<>> /\ todo' = Tail(todo)
  BY DEF WrapperMethod, cfgVars, Stopped
<1>2. Service' = Service /\ MethodSet(Service)' = MethodSet(Service)
  BY <1>1, SameService
<1>3. /\ m \in MethodSet(Service) /\ Range1(todo) \subseteq Range1(todo') \cup {m}
      /\ Offered(request, Service, {m}) \subseteq SurfaceOf(D, "client", Service.name)
  BY <1>1, NextMethodOffered
<1>4. WrapperPhase /\ Full(Written, "interface", request, Service)
  BY <1>1 DEF ProgressInv, AfterInterface
<1>5. ~Skipped(m)
  <2>1. IsMethod(m) /\ Tolerated(m)
    BY <1>1, <1>3, <1>4, PresentService DEF Inside, WrapperPhase
  <2> QED
    BY <2>1, OrdersAgree DEF IsA, Tolerated, Skipped
<1>6. Written' = Written \cup D
  BY <1>5, WrapperWritten
<1> HIDE DEF D, m
<1>7. Offered(request, Service, {m}) \subseteq SurfaceOf(Written', "client", Service.name)
  BY <1>3, <1>6, SurfaceGrows
<1>8. But(Written', "client", request, Service, Range1(todo'))
  BY <1>3, <1>4, <1>6, <1>7, OneMore DEF WrapperPhase
<1>9. Full(Written', "interface", request, Service)
  BY <1>4, <1>6, SurfaceGrows
<1>10. Range1(todo)' = Range1(todo')
  BY DEF Range1
<1>11. WrapperPhase'
  BY <1>1, <1>2, <1>4, <1>8, <1>10 DEF WrapperPhase
<1> QED
  BY <1>1, <1>2, <1>9, <1>11 DEF ProgressInv, AfterWrappers, AfterClient

LEMMA MakeTransportsProgress ==
  ASSUME EntriesInv, OptionsInv, ProgressInv, MakeTransports
  PROVE  ProgressInv'
<1>1. /\ pc = "wrappers" /\ pc' = "transport" /\ request' = request /\ current' = current
      /\ todo = <<>> /\ todo' = Methods(Service)
      /\ lanes' = transports /\ transports' = transports /\ pc \in Inside
  BY DEF MakeTransports, cfgVars, Inside
<1>2. /\ Service' = Service /\ MethodSet(Service)' = MethodSet(Service)
      /\ Range1(todo)' = MethodSet(Service)
      /\ MethodSet(Service) = MethodsIn(request, Service)
  BY <1>1, AllToDo
<1>3. Written \subseteq Written'
  BY ConstructorsWritten
<1>4. WrapperPhase /\ Full(Written, "interface", request, Service) /\ Range1(todo) = {}
  BY <1>1 DEF ProgressInv, AfterInterface, Range1
<1>5. /\ Full(Written', "interface", request, Service)
      /\ Full(Written', "client", request, Service)
  BY <1>3, <1>4, NothingLeft, SurfaceGrows DEF WrapperPhase
<1>6. TransportPhase'
  <2>1. todo' \in Seq(MethodSet(Service))
    BY <1>1, PresentService
  <2>2. Range1(lanes)' = OwnTransports(request, Service)
    BY <1>1, PresentTransports DEF Range1
  <2>3. CallsBut(Written', Head(lanes'), request, Service, Range1(todo)')
    BY <1>2, NothingLeft
  <2> QED
    BY <1>1, <1>2, <2>1, <2>2, <2>3 DEF TransportPhase
<1> QED
  BY <1>1, <1>2, <1>5, <1>6 DEF ProgressInv, AfterClient

LEMMA TransportProgress ==
  ASSUME EntriesInv, MetaInv, ProgressInv, Uniform(request), TransportMethod
  PROVE  ProgressInv'
<1> DEFINE m == Head(todo)
           t == Head(lanes)
           D == {LaneDef(m)}
<1>1. /\ pc = "transport" /\ pc' = "transport" /\ request' = request /\ current' = current
      /\ todo # <<>> /\ todo' = Tail(todo) /\ lanes # <<>> /\ lanes' = lanes
      /\ transports' = transports /\ pc \in Inside
  BY DEF TransportMethod, cfgVars, Inside
<1>2. Service' = Service /\ MethodSet(Service)' = MethodSet(Service)
  BY <1>1, SameService
<1>3. /\ TransportPhase
      /\ Full(Written, "interface", request, Service)
      /\ Full(Written, "client", request, Service)
  BY <1>1 DEF ProgressInv, AfterInterface, AfterWrappers
<1>4. /\ m \in MethodSet(Service) /\ todo' \in Seq(MethodSet(Service))
      /\ Range1(todo) \subseteq Range1(todo') \cup {m}
  BY <1>1, <1>3, NextLaneMethod
<1>5. t \in OwnTransports(request, Service)
  BY <1>1, <1>3, LanesAre DEF TransportPhase
<1>6. Callable(request, Service, m) \in SurfaceOf(D, t, Service.name)
  BY <1>1, <1>4, <1>5, LaneDefOffered
<1>7. Written' = Written \cup D
  BY TransportWritten
<1>8. /\ wrapped \subseteq wrapped'
      /\ IsLRO(m) => <<Service.name, m.name>> \in wrapped'
  <2>1. IsMethod(m)
    BY <1>1, <1>4, PresentService
  <2>2. IsLRO(m) => Kind(TransportOrder, m) = "lro"
    <3>1. IsLRO(m) => m.out # "Empty" /\ ~IsPaged(m)
      BY <2>1 DEF IsLRO, IsMethod, IsPaged, NoPage
    <3> QED
      BY <2>1, <3>1, OrdersAgree DEF IsA
  <2> QED
    BY <2>2 DEF TransportMethod
<1> HIDE DEF D, m, t
<1>9. Callable(request, Service, m) \in SurfaceOf(Written', t, Service.name)
  BY <1>6, <1>7, SurfaceGrows
<1>10. CallsBut(Written', t, request, Service, Range1(todo'))
  <2>1. CallsBut(Written, t, request, Service, Range1(todo))
    BY <1>1, <1>3 DEF TransportPhase, t
  <2> QED
    BY <1>4, <1>7, <1>9, <2>1, OneMore
<1>11. /\ Full(Written', "interface", request, Service)
       /\ Full(Written', "client", request, Service)
  BY <1>3, <1>7, SurfaceGrows
<1>12. \A u \in OwnTransports(request, Service) \ Range1(lanes) :
          CallsBut(Written', u, request, Service, {})
  BY <1>3, <1>7, SurfaceGrows DEF TransportPhase
<1>13. \A n \in MethodSet(Service) : IsLRO(n) =>
         \/ <<Service.name, n.name>> \in wrapped'
         \/ lanes = transports /\ n \in Range1(todo')
  BY <1>3, <1>4, <1>8 DEF TransportPhase
<1>14. Range1(todo)' = Range1(todo') /\ Range1(lanes)' = Range1(lanes) /\ Head(lanes') = t
  BY <1>1 DEF Range1, t
<1>15. TransportPhase'
  <2>1. Range1(lanes) \subseteq OwnTransports(request, Service)
    BY <1>3 DEF TransportPhase
  <2> QED
    BY <1>1, <1>2, <1>4, <1>10, <1>12, <1>13, <1>14, <2>1 DEF TransportPhase
<1> QED
  BY <1>1, <1>2, <1>11, <1>15 DEF ProgressInv, AfterClient

LEMMA TransportDoneProgress ==
  ASSUME EntriesInv, MetaInv, ProgressInv, TransportDone
  PROVE  ProgressInv'
<1> DEFINE t == Head(lanes)
<1>1. /\ pc = "transport" /\ pc' = "transport" /\ request' = request /\ current' = current
      /\ todo = <<>> /\ lanes # <<>> /\ lanes' = Tail(lanes)
      /\ todo' = IF Len(lanes) > 1 THEN Methods(Service) ELSE <<>>
      /\ wrapped' = wrapped /\ pc \in Inside
  BY DEF TransportDone, cfgVars, auxVars, Inside
<1>2. Service' = Service /\ MethodSet(Service)' = MethodSet(Service)
  BY <1>1, SameService
<1>3. /\ TransportPhase /\ Range1(todo) = {}
      /\ Full(Written, "interface", request, Service)
      /\ Full(Written, "client", request, Service)
  BY <1>1 DEF ProgressInv, AfterInterface, AfterWrappers, Range1
<1>4. Written' = Written
  BY <1>1, QuietWrites DEF QuietStep, Stopped
<1>5. /\ Methods(Service) \in Seq(MethodSet(Service))
      /\ MethodSet(Service) = MethodsIn(request, Service)
  BY <1>1, PresentService
<1>6. todo' \in Seq(MethodSet(Service))
  <2>1. <<>> \in Seq(MethodSet(Service))
    BY EmptySeq
  <2> QED
    BY <1>1, <1>5, <2>1
<1>7. /\ Range1(Tail(lanes)) \subseteq OwnTransports(request, Service)
      /\ Range1(lanes) \subseteq Range1(Tail(lanes)) \cup {t}
  BY <1>1, <1>3, LanesAre DEF TransportPhase
<1>8. CallsBut(Written, t, request, Service, {})
  BY <1>1, <1>3 DEF TransportPhase
<1> HIDE DEF t
<1>9. \A u \in OwnTransports(request, Service) \ Range1(Tail(lanes)) :
         CallsBut(Written, u, request, Service, {})
  BY <1>3, <1>7, <1>8 DEF TransportPhase
<1>10. lanes' # <<>> => CallsBut(Written, Head(lanes'), request, Service, Range1(todo'))
  <2> SUFFICES ASSUME lanes' # <<>>
               PROVE  CallsBut(Written, Head(lanes'), request, Service, Range1(todo'))
    OBVIOUS
  <2>1. lanes \in Seq({"grpc", "rest"})
    BY DEF MetaInv
  <2>2. Len(lanes) > 1
    <3>1. Tail(lanes) \in Seq({"grpc", "rest"}) /\ Len(Tail(lanes)) = Len(lanes) - 1
      BY <1>1, <2>1, HeadTailProperties
    <3>2. Len(Tail(lanes)) # 0 /\ Len(Tail(lanes)) \in Nat
      BY <1>1, <3>1, EmptySeq, LenProperties
    <3>3. Len(lanes) \in Nat
      BY <2>1, LenProperties
    <3> QED
      BY <3>1, <3>2, <3>3
  <2>3. Range1(todo') = MethodsIn(request, Service)
    BY <1>1, <1>5, <2>2 DEF MethodSet
  <2> QED
    BY <2>3, NothingLeft
<1>11. \A m \in MethodSet(Service) : IsLRO(m) => <<Service.name, m.name>> \in wrapped'
  BY <1>1, <1>3 DEF TransportPhase
<1>12. Range1(todo)' = Range1(todo') /\ Range1(lanes)' = Range1(Tail(lanes))
  BY <1>1 DEF Range1
<1>13. TransportPhase'
  BY <1>1, <1>2, <1>4, <1>6, <1>7, <1>9, <1>10, <1>11, <1>12 DEF TransportPhase
<1> QED
  BY <1>1, <1>2, <1>3, <1>4, <1>13 DEF ProgressInv, AfterClient

LEMMA BuildersProgress ==
  ASSUME EntriesInv, OptionsInv, WrappedInv, ProgressInv, Uniform(request), GenOperationBuilders
  PROVE  ProgressInv'
<1> DEFINE D == BuilderDefs(Service)
<1>1. /\ pc = "transport" /\ pc' = "example" /\ request' = request /\ current' = current
      /\ lanes = <<>> /\ pc \in Inside
  BY DEF GenOperationBuilders, cfgVars, loopVars, Inside
<1>2. Service' = Service
  BY <1>1, SameService
<1>3. /\ TransportPhase /\ Range1(lanes) = {}
      /\ Full(Written, "interface", request, Service)
      /\ Full(Written, "client", request, Service)
  BY <1>1 DEF ProgressInv, AfterInterface, AfterWrappers, Range1
<1>4. Written' = Written \cup D
  BY BuildersWritten
<1>5. /\ MethodSet(Service) = MethodsIn(request, Service) /\ transports # <<>>
  BY <1>1, PresentService, PresentTransports
<1>6. \A t \in OwnTransports(request, Service), m \in MethodSet(Service) :
         IsLRO(m) => ByName(m) \in SurfaceOf(D, t, Service.name)
  <2>1. \A m \in MethodSet(Service) : IsLRO(m) => <<Service.name, m.name>> \in wrapped
    BY <1>1, <1>3, <1>5 DEF TransportPhase
  <2> QED
    BY <1>1, <2>1, BuildersOffered
<1> HIDE DEF D
<1>7. ASSUME NEW t \in OwnTransports(request, Service)
      PROVE  Full(Written', t, request, Service)
  <2>1. CallsBut(Written', t, request, Service, {})
    BY <1>3, <1>4, SurfaceGrows DEF TransportPhase
  <2>2. SurfaceOf(D, t, Service.name) \subseteq SurfaceOf(Written', t, Service.name)
    BY <1>4, SurfaceGrows
  <2>3. Callables(request, Service, {}) = {}
    BY DEF Callables
  <2> QED
    BY <1>5, <1>6, <2>1, <2>2, <2>3 DEF Full, CallsBut, Offers, Offered
<1>8. /\ Full(Written', "interface", request, Service)
      /\ Full(Written', "client", request, Service)
  BY <1>3, <1>4, SurfaceGrows
<1> QED
  BY <1>1, <1>2, <1>7, <1>8 DEF ProgressInv

LEMMA ExampleProgress ==
  ASSUME ProgressInv, GenExampleFile
  PROVE  ProgressInv'
<1>1. /\ pc = "example" /\ pc' = "iterExample" /\ request' = request /\ current' = current
  BY DEF GenExampleFile, cfgVars, loopVars
<1>2. Service' = Service
  BY <1>1, SameService
<1>3. Written' = Written
  BY <1>1, QuietWrites DEF QuietStep, Stopped
<1> QED
  BY <1>1, <1>2, <1>3 DEF ProgressInv, AfterInterface, AfterWrappers, AfterClient

LEMMA ProgressStep ==
  ASSUME SurfaceInv, EntriesInv, OptionsInv, MetaInv, Uniform(request), Next, pc' \notin Stopped
  PROVE  ProgressInv'
<1>0. ProgressInv /\ WrappedInv
  BY StoppedForGood DEF SurfaceInv
<1>1. CASE NextService \/ GenSnippet \/ SnippetsDone \/ GenExampleIteratorFile \/ GenPackage
  <2>1. pc' \notin {"interface", "wrappers", "transport", "example", "iterExample"}
    BY <1>1 DEF NextService, GenSnippet, SnippetsDone, GenExampleIteratorFile, GenPackage,
         GenAndCommitHelpers, GenSnippetMetadata, GenDocFile, GenGapicMetadataFile,
         CustomOperationType, GenAuxFile
  <2> QED
    BY <2>1, NoProgress
<1>2. CASE SnippetFails \/ InterfaceFails \/ TransportFails \/ ExampleFails
  BY <1>2 DEF SnippetFails, InterfaceFails, TransportFails, ExampleFails, Fail, Stopped
<1> QED
  BY <1>0, <1>1, <1>2, StartClientProgress, InterfaceProgress, InterfaceDoneProgress,
     WrapperProgress, MakeTransportsProgress, TransportProgress, TransportDoneProgress,
     BuildersProgress, ExampleProgress DEF Next, GenService

(* The services that are behind stay complete; the present one is complete
   when its last file is committed. *)
LEMMA CompleteGrows ==
  ASSUME NEW D, NEW E, D \subseteq E, NEW r, NEW s, Complete(D, r, s)
  PROVE  Complete(E, r, s)
BY SurfaceGrows DEF Complete

LEMMA ServicesAreListed ==
  ASSUME EntriesInv
  PROVE  /\ IsRequest(request) /\ request \in Requests
         /\ current \in Nat \ {0} /\ Len(Services) \in Nat
         /\ DOMAIN Services = 1 .. Len(Services)
<1>1. request \in Requests /\ current \in Nat \ {0}
  BY DEF EntriesInv
<1>2. IsRequest(request)
  BY <1>1, RequestsAssumption
<1>3. Services \in Seq(Range1(Services))
  BY <1>2 DEF IsRequest, IsList, Services
<1> QED
  BY <1>1, <1>2, <1>3, LenProperties

LEMMA BehindStep ==
  ASSUME SurfaceInv, EntriesInv, Next, pc' \notin Stopped,
         NEW i \in DOMAIN Services, i < current'
  PROVE  Complete(Written', request, Services[i])
<1>0. /\ \A k \in DOMAIN Services : k < current => Complete(Written, request, Services[k])
      /\ ProgressInv
      /\ Written \subseteq Written'
  BY StoppedForGood, WrittenGrows DEF SurfaceInv
<1>1. CASE i < current
  <2>1. Complete(Written, request, Services[i])
    BY <1>0, <1>1
  <2> DEFINE s == Services[i]
  <2> HIDE DEF s
  <2>2. Complete(Written, request, s) => Complete(Written', request, s)
    BY <1>0, CompleteGrows
  <2> QED
    BY <2>1, <2>2 DEF s
<1>2. CASE ~(i < current)
  <2>1. current' # current
    BY <1>2
  <2>2. GenExampleIteratorFile
    BY <2>1 DEF Next, GenService, GenPackage, NextService, GenSnippet, SnippetFails,
       SnippetsDone, StartClient, InterfaceMethod, InterfaceFails, InterfaceDone,
       WrapperMethod, MakeTransports, TransportMethod, TransportFails, TransportDone,
       GenOperationBuilders, GenExampleFile, ExampleFails, GenAndCommitHelpers,
       GenSnippetMetadata, GenDocFile, GenGapicMetadataFile, CustomOperationType,
       GenAuxFile, Fail, loopVars
  <2>3. pc = "iterExample" /\ current' = current + 1
    BY <2>2 DEF GenExampleIteratorFile
  <2>4. i = current
    <3>1. i \in Nat /\ current \in Nat
      BY ServicesAreListed
    <3> QED
      BY <1>2, <2>3, <3>1
  <2>5. Complete(Written, request, Service)
    BY <1>0, <2>3 DEF ProgressInv, AfterInterface, AfterWrappers, AfterClient, Complete
  <2> DEFINE s == Service
  <2> HIDE DEF s
  <2>6. Complete(Written, request, s) => Complete(Written', request, s)
    BY <1>0, CompleteGrows
  <2> QED
    BY <2>4, <2>5, <2>6 DEF s, Service
<1> QED
  BY <1>1, <1>2

LEMMA AllBehindStep ==
  ASSUME SurfaceInv, Next, pc' \notin Stopped, pc' \in AfterServices
  PROVE  current' > Len(Services)'
<1>0. pc \in AfterServices => current > Len(Services)
  BY StoppedForGood DEF SurfaceInv
<1>1. Len(Services)' = Len(Services)
  BY RequestKept DEF Services
<1>2. CASE NextService
  BY <1>1, <1>2 DEF NextService, AfterServices
<1>3. CASE GenPackage
  <2>1. pc \in AfterServices /\ current' = current
    BY <1>3 DEF GenPackage, GenAndCommitHelpers, GenSnippetMetadata, GenDocFile,
       GenGapicMetadataFile, CustomOperationType, GenAuxFile, AfterServices, loopVars
  <2> QED
    BY <1>0, <1>1, <2>1
<1>4. CASE ~NextService /\ ~GenPackage
  BY <1>4 DEF Next, GenService, GenSnippet, SnippetFails, SnippetsDone, StartClient,
     InterfaceMethod, InterfaceFails, InterfaceDone, WrapperMethod, MakeTransports,
     TransportMethod, TransportFails, TransportDone, GenOperationBuilders, GenExampleFile,
     ExampleFails, GenExampleIteratorFile, Fail, AfterServices
<1> QED
  BY <1>2, <1>3, <1>4

LEMMA SurfaceInvInit == Init /\ EntriesInv => SurfaceInv
<1> SUFFICES ASSUME Init, EntriesInv PROVE SurfaceInv
  OBVIOUS
<1>1. Written = {} /\ wrapped = {} /\ current = 1 /\ pc = "helpers"
  BY DEF Init, Written, AllDefs, InClient
<1>2. \A i \in DOMAIN Services : ~(i < current)
  BY <1>1, ServicesAreListed
<1> QED
  BY <1>1, <1>2 DEF SurfaceInv, WrappedInv, ProgressInv, AfterInterface, AfterWrappers,
     AfterClient, AfterServices

LEMMA SurfaceInvStays ==
  ASSUME SurfaceInv, UNCHANGED vars
  PROVE  SurfaceInv'
<1>1. /\ Written' = Written /\ Services' = Services /\ request' = request
      /\ Service' = Service /\ MethodSet(Service)' = MethodSet(Service)
      /\ pc' = pc /\ todo' = todo /\ lanes' = lanes /\ wrapped' = wrapped
      /\ current' = current /\ transports' = transports
  BY SameService DEF Written, AllDefs, vars, cfgVars, loopVars, auxVars, Services
<1>2. InterfacePhase' = InterfacePhase
  BY <1>1 DEF InterfacePhase, Range1
<1>3. WrapperPhase' = WrapperPhase
  BY <1>1 DEF WrapperPhase, Range1
<1>4. TransportPhase' = TransportPhase
  BY <1>1 DEF TransportPhase, Range1
<1>5. ProgressInv' = ProgressInv
  BY <1>1, <1>2, <1>3, <1>4 DEF ProgressInv
<1>6. WrappedInv' = WrappedInv
  BY <1>1 DEF WrappedInv
<1> QED
  BY <1>1, <1>5, <1>6 DEF SurfaceInv

LEMMA SurfaceInvStep ==
  ASSUME SurfaceInv, EntriesInv, OptionsInv, MetaInv, Uniform(request), [Next]_vars
  PROVE  SurfaceInv'
<1>1. CASE UNCHANGED vars
  BY <1>1, SurfaceInvStays
<1>2. CASE Next
  <2> SUFFICES ASSUME pc' \notin Stopped
               PROVE  /\ (\A d \in Written : Proper(request, d))'
                      /\ WrappedInv'
                      /\ \A i \in DOMAIN Services' :
                           i < current' => Complete(Written', request', Services'[i])
                      /\ pc' \in AfterServices => current' > Len(Services)'
                      /\ ProgressInv'
    BY DEF SurfaceInv
  <2>1. request' = request /\ Services' = Services
    BY <1>2, RequestKept DEF Services
  <2>2. (\A d \in Written : Proper(request, d))'
    BY <1>2, <2>1, ProperStep
  <2>3. \A i \in DOMAIN Services' :
           i < current' => Complete(Written', request', Services'[i])
    BY <1>2, <2>1, BehindStep
  <2> QED
    BY <1>2, <2>2, <2>3, WrappedStep, AllBehindStep, ProgressStep
<1> QED
  BY <1>1, <1>2

-------------------------------------------------------------------------------
(* What a finished run has written of a service. *)
LEMMA WholeSurface ==
  ASSUME SurfaceInv, EntriesInv, Uniform(request), pc = "done",
         NEW s \in Range1(Services), NEW receiver \in {"interface", "client"} \cup OwnTransports(request, s)
  PROVE  Surface(receiver, s) = Offers(request, s)
<1>1. /\ \A d \in AllDefs : Proper(request, d)
      /\ \A i \in DOMAIN Services : i < current => Complete(AllDefs, request, Services[i])
      /\ current > Len(Services)
  BY DEF SurfaceInv, Written, InClient, Stopped, AfterServices
<1>2. Complete(AllDefs, request, s)
  <2>1. PICK i \in DOMAIN Services : s = Services[i]
    BY DEF Range1
  <2>2. i < current
    BY <1>1, ServicesAreListed
  <2> QED
    BY <1>1, <2>1, <2>2
<1>3. Surface(receiver, s) = SurfaceOf(AllDefs, receiver, s.name)
  BY DEF Surface, SurfaceOf, Piece
<1>4. Offers(request, s) \subseteq Surface(receiver, s)
  BY <1>2, <1>3 DEF Complete, Full
<1>5. receiver \in Receivers
  <2>1. Range1(request.transports) \subseteq {"grpc", "rest"}
    BY ServicesAreListed DEF IsRequest, Range1
  <2> QED
    BY <2>1 DEF OwnTransports, Receivers
<1>6. ASSUME NEW p \in Surface(receiver, s) PROVE p \in Offers(request, s)
  <2> DEFINE name == s.name
  <2>1. p \in SurfaceOf(AllDefs, receiver, name)
    BY <1>3, <1>6
  <2> HIDE DEF name
  <2>2. PICK d \in AllDefs : d.id[1] = receiver /\ d.id[2] = name /\ p = Piece(d)
    BY <2>1 DEF SurfaceOf
  <2>3. PICK t \in Range1(request.services) : d.id[2] = t.name /\ Piece(d) \in Offers(request, t)
    BY <1>1, <1>5, <2>2 DEF Proper
  <2>4. t.name = s.name
    BY <2>2, <2>3 DEF name
  <2>5. t = s
    BY <2>4, DistinctServices DEF Services
  <2> QED
    BY <2>2, <2>3, <2>5
<1> QED
  BY <1>4, <1>6

LEMMA SurfaceInvImplies ==
  ASSUME SurfaceInv, EntriesInv, Uniform(request)
  PROVE  SameSurface
<1> SUFFICES ASSUME pc = "done", NEW s \in Range1(Services)
             PROVE  /\ \A m \in MethodSet(s) : \E e \in Surface("interface", s) : e[1] = <<m.name>>
                    /\ Surface("client", s) = Surface("interface", s)
                    /\ \A t \in {"grpc", "rest"} :
                         (\E d \in AllDefs : d.id = New(s, t)) =>
                           Surface(t, s) = Surface("interface", s)
  BY DEF SameSurface
<1>1. /\ Surface("interface", s) = Offers(request, s)
      /\ Surface("client", s) = Offers(request, s)
      /\ \A t \in OwnTransports(request, s) : Surface(t, s) = Offers(request, s)
  BY WholeSurface
<1>2. ASSUME NEW m \in MethodSet(s)
      PROVE  \E e \in Offers(request, s) : e[1] = <<m.name>>
  <2>1. m \in MethodsIn(request, s)
    BY MethodSetIsMethodsIn
  <2>2. Callable(request, s, m) \in Offers(request, s)
    BY <2>1 DEF Offers, Offered, Callables
  <2>3. Callable(request, s, m)[1] = <<m.name>>
    BY DEF Callable
  <2> QED
    BY <2>2, <2>3
<1>3. ASSUME NEW t \in {"grpc", "rest"}, NEW d \in AllDefs, d.id = New(s, t)
      PROVE  t \in OwnTransports(request, s)
  <2> DEFINE name == s.name
  <2>0. d.id = <<"New", name, t>>
    BY <1>3 DEF New
  <2> HIDE DEF name
  <2>1. d.id[1] = "New" /\ d.id[2] = name /\ d.id[3] = t
    BY <2>0
  <2>2. Proper(request, d)
    BY DEF SurfaceInv, Written, InClient, Stopped
  <2>3. PICK u \in Range1(request.services) :
           d.id[2] = u.name /\ d.id[3] \in OwnTransports(request, u)
    BY <2>1, <2>2 DEF Proper
  <2>4. u.name = s.name
    BY <2>1, <2>3 DEF name
  <2>5. u = s
    BY <2>4, DistinctServices DEF Services
  <2> QED
    BY <2>1, <2>3, <2>5
<1> QED
  BY <1>1, <1>2, <1>3

(* A package that is answered without an error has one surface: the interface
   (internalClientIntfInit), the client (genClientWrapperMethod, whose errors
   clientInit drops) and every transport that has a constructor
   (genGRPCMethod, genRESTMethod, genOperationBuilders) define the same
   methods with the same signatures, those of all RPCs and mixins of the
   service, although each decides in an order of its own what a method is. *)
THEOREM SurfacesAlwaysAgree ==
  ASSUME \A r \in Requests : Uniform(r)
  PROVE  Spec => []SameSurface
<1>1. EntriesInv => Uniform(request)
  BY DEF EntriesInv
<1>2. Init => SurfaceInv
  BY SurfaceInvInit, EntriesInvInit
<1>3. SurfaceInv /\ EntriesInv /\ OptionsInv /\ MetaInv /\ [Next]_vars => SurfaceInv'
  BY <1>1, SurfaceInvStep
<1>4. SurfaceInv /\ EntriesInv => SameSurface
  BY <1>1, SurfaceInvImplies
<1>5. MetaInv /\ [Next]_vars /\ EntriesInv /\ OptionsInv => MetaInv'
  BY MetaInvStep
<1> QED
  BY <1>2, <1>3, <1>4, <1>5, EntriesInvInit, EntriesInvStep, OptionsInvInit, OptionsInvStep,
     MetaInvInit, PTL DEF Spec


-------------------------------------------------------------------------------
(* Names that are apart: those of services and of the methods of a service
   (protoc sees to it), and those of mixin methods (which collectMixinMethods
   lists once unless the service config has two HTTP rules for one of them).
   No service declares a method of a Locations or Operations mixin that is
   configured: getMixinMethods does not look, and would generate it twice.  The
   name of an iterator ends in "Iterator" (paging.go). *)
Apart(q) == \A i, j \in DOMAIN q : q[i].name = q[j].name => i = j
NamedApart(r) ==
  /\ \A i, j \in DOMAIN r.services : r.services[i].name = r.services[j].name => i = j
  /\ \A s \in Range1(r.services) :
       /\ \A i, j \in DOMAIN s.methods : s.methods[i].name = s.methods[j].name => i = j
       /\ \A m \in Range1(s.methods) : m.page.iter # "Operation"
  /\ Apart(r.mixins.locations) /\ Apart(r.mixins.iamPolicy) /\ Apart(r.mixins.operations)
  /\ \A m \in MixinSet(r) : m.page.iter # "Operation"
  /\ r.apis > 1 =>
       \A s \in Range1(r.services) : \A own \in Range1(s.methods) :
         \A m \in Range1(r.mixins.locations) \cup Range1(r.mixins.operations) :
           own.name # m.name

(* The file that defines an identifier. *)
Owner(id) ==
  IF id[1] = "func" THEN <<"helpers">>
  ELSE IF id[1] \in Receivers \cup {"New"} THEN <<"client", id[2]>>
  ELSE IF id[1] = "handle" \/ id = <<"type", "Operation">> THEN <<"operations">>
  ELSE <<"auxiliary">>

(* The identifiers that are still to be defined: p, c, names, ln are pc, current,
   the names of the methods in todo, and lanes. *)
NamesOf(ms) == {m.name : m \in ms}
ComingHere(p, names, ln, id) ==
  \/ p \in {"helpers", "service", "snippets", "client"}
  \/ /\ p = "interface"
     /\ id[1] = "interface" => id[3] \in names
  \/ /\ p = "wrappers"
     /\ id[1] # "interface"
     /\ id[1] = "client" => id[3] \in names
  \/ /\ p = "transport"
     /\ id[1] \in {"grpc", "rest"}
     /\ \/ Len(id) = 4
        \/ ln # <<>> /\ (id[1] \in Range1(Tail(ln)) \/ (id[1] = Head(ln) /\ id[3] \in names))
Coming(r, p, c, names, ln, id) ==
  \/ id[1] = "func" /\ p = "helpers"
  \/ id[1] \in Receivers \cup {"New"} /\
       \E i \in DOMAIN r.services :
          id[2] = r.services[i].name /\ (i > c \/ (i = c /\ ComingHere(p, names, ln, id)))
  \/ (id[1] = "handle" \/ id = <<"type", "Operation">>) /\ p \notin {"aux", "done"}
  \/ Owner(id) = <<"auxiliary">> /\ p # "done"
Ahead(id) == Coming(request, pc, current, NamesOf(Range1(todo)), lanes, id)

(* Loops meet every name, and every transport, once. *)
LoopsInv ==
  /\ pc \in InClient => todo \in Seq(MethodSet(Service)) /\ Apart(todo)
  /\ pc = "transport" => \A i, j \in DOMAIN lanes : lanes[i] = lanes[j] => i = j
  /\ \A p \in iters : p[1] # "Operation"

(* Files that define something have names of their own, and the client being
   printed has not been committed. *)
FilesInv ==
  /\ \A f \in files : \A d \in f.defs : f.name = Owner(d.id)
  /\ \A f, g \in files : f.name = g.name /\ f.defs # {} /\ g.defs # {} => f = g
  /\ pc \in InClient =>
       /\ \A d \in buffer.defs : Owner(d.id) = <<"client", Service.name>>
       /\ \A d \in AllDefs : Owner(d.id) # <<"client", Service.name>>

OnceInv ==
  IF pc \in Stopped THEN files = {}
  ELSE /\ \A d, e \in Written : d.id = e.id => d = e
       /\ \A d \in Written : ~Ahead(d.id)
       /\ LoopsInv
       /\ FilesInv

(* Two lists whose names are apart, one after the other. *)
LEMMA ApartConcat ==
  ASSUME NEW S, NEW p \in Seq(S), NEW q \in Seq(S), Apart(p), Apart(q),
         \A m \in Range1(p), n \in Range1(q) : m.name # n.name
  PROVE  Apart(p \o q)
<1>1. p \in Seq(S) /\ q \in Seq(S) /\ Apart(p) /\ Apart(q)
  OBVIOUS
<1>2. \A i \in DOMAIN p, j \in DOMAIN q : p[i].name # q[j].name
  BY DEF Range1
<1>3. Len(p) \in Nat /\ Len(q) \in Nat /\ DOMAIN p = 1 .. Len(p) /\ DOMAIN q = 1 .. Len(q)
  BY <1>1, LenProperties
<1>4. /\ DOMAIN (p \o q) = 1 .. Len(p) + Len(q)
      /\ \A i \in 1 .. Len(p) + Len(q) :
            (p \o q)[i] = IF i <= Len(p) THEN p[i] ELSE q[i - Len(p)]
  BY <1>1, ConcatProperties
<1>5. ASSUME NEW i \in DOMAIN (p \o q), NEW j \in DOMAIN (p \o q),
             (p \o q)[i].name = (p \o q)[j].name
      PROVE  i = j
  <2>1. /\ i <= Len(p) => i \in DOMAIN p /\ (p \o q)[i] = p[i]
        /\ ~(i <= Len(p)) => i - Len(p) \in DOMAIN q /\ (p \o q)[i] = q[i - Len(p)]
        /\ j <= Len(p) => j \in DOMAIN p /\ (p \o q)[j] = p[j]
        /\ ~(j <= Len(p)) => j - Len(p) \in DOMAIN q /\ (p \o q)[j] = q[j - Len(p)]
    BY <1>3, <1>4
  <2>2. CASE i <= Len(p) /\ j <= Len(p)
    BY <1>1, <1>5, <2>1, <2>2 DEF Apart
  <2>3. CASE ~(i <= Len(p)) /\ ~(j <= Len(p))
    <3>1. i - Len(p) = j - Len(p)
      BY <1>1, <1>5, <2>1, <2>3 DEF Apart
    <3> QED
      BY <1>3, <1>4, <3>1
  <2>4. CASE (i <= Len(p)) # (j <= Len(p))
    BY <1>2, <1>5, <2>1, <2>4
  <2> QED
    BY <2>2, <2>3, <2>4
<1> QED
  BY <1>5 DEF Apart

(* No method of a service has the name of another, or of a mixin; mixins of
   different APIs have different names. *)
LEMMA MethodsApart ==
  ASSUME NEW r, IsRequest(r), NamedApart(r), NEW s \in Range1(r.services)
  PROVE  Apart(s.methods \o MixinsIn(r))
<1> DEFINE S == Range1(s.methods) \cup MixinSet(r)
           p == r.mixins.locations
           i == IF OverriddenIn(r) THEN <<>> ELSE r.mixins.iamPolicy
           o == r.mixins.operations
           own == s.methods
<1>1. <<>> \in Seq(S) /\ Range1(<<>>) = {} /\ Apart(<<>>)
  BY EmptySeq DEF Range1, Apart
<1>2. p \in Seq(S) /\ o \in Seq(S) /\ r.mixins.iamPolicy \in Seq(S)
  BY MixinLists
<1>3. own \in Seq(S)
  <2>1. own \in Seq(Range1(own))
    BY DEF IsRequest, IsList
  <2> QED
    BY <2>1
<1>4. Apart(own) /\ Apart(p) /\ Apart(o) /\ Apart(r.mixins.iamPolicy)
  BY DEF NamedApart, Apart
<1>5. i \in Seq(S) /\ Apart(i) /\ Range1(i) \subseteq Range1(r.mixins.iamPolicy)
  BY <1>1, <1>2, <1>4
<1>6. /\ \A m \in Range1(p) : m.name \in LocationsRPCs
      /\ \A m \in Range1(i) : m.name \in IAMPolicyRPCs
      /\ \A m \in Range1(o) : m.name \in OperationsRPCs
  BY <1>5 DEF IsRequest, IsMixin
<1>7. /\ LocationsRPCs \cap IAMPolicyRPCs = {}
      /\ (LocationsRPCs \cup IAMPolicyRPCs) \cap OperationsRPCs = {}
  BY DEF LocationsRPCs, IAMPolicyRPCs, OperationsRPCs
<1>8. \A m \in Range1(own), n \in Range1(i) : m.name # n.name
  <2>1. CASE OverriddenIn(r)
    BY <1>1, <2>1
  <2>2. CASE ~OverriddenIn(r)
    BY <2>2 DEF OverriddenIn
  <2> QED
    BY <2>1, <2>2
<1>9. r.apis > 1 => \A m \in Range1(own), n \in Range1(p) \cup Range1(o) : m.name # n.name
  BY DEF NamedApart
<1>10. r.apis \in Nat
  BY DEF IsRequest
<1>11. MixinsIn(r) = IF r.apis <= 1 THEN <<>> ELSE (p \o i) \o o
  BY DEF MixinsIn
<1> HIDE DEF S, p, i, o, own
<1>12. /\ p \o i \in Seq(S) /\ Range1(p \o i) = Range1(p) \cup Range1(i)
       /\ Apart(p \o i)
  BY <1>2, <1>4, <1>5, <1>6, <1>7, RangeOfThree, ApartConcat
<1>13. /\ (p \o i) \o o \in Seq(S)
       /\ Range1((p \o i) \o o) = Range1(p) \cup Range1(i) \cup Range1(o)
       /\ Apart((p \o i) \o o)
  <2> DEFINE q == p \o i
  <2>1. q \in Seq(S) /\ Apart(q) /\ \A m \in Range1(q), n \in Range1(o) : m.name # n.name
    BY <1>6, <1>7, <1>12
  <2> HIDE DEF q
  <2>2. Apart(q \o o)
    BY <1>2, <1>4, <2>1, ApartConcat
  <2> QED
    BY <1>2, <1>5, <2>2, RangeOfThree DEF q
<1>14. CASE r.apis <= 1
  <2>1. Apart(own \o <<>>)
    BY <1>1, <1>3, <1>4, ApartConcat
  <2> QED
    BY <1>11, <1>14, <2>1 DEF own
<1>15. CASE r.apis > 1
  <2>1. \A m \in Range1(own), n \in Range1((p \o i) \o o) : m.name # n.name
    BY <1>8, <1>9, <1>13, <1>15
  <2>2. Apart(own \o ((p \o i) \o o))
    BY <1>3, <1>4, <1>13, <2>1, ApartConcat
  <2>3. MixinsIn(r) = (p \o i) \o o
    BY <1>10, <1>11, <1>15
  <2> QED
    BY <2>2, <2>3 DEF own
<1> QED
  BY <1>10, <1>14, <1>15

(* Taking the head off a list without repetitions. *)
LEMMA RestApart ==
  ASSUME NEW S, NEW q \in Seq(S), q # <<>>, Apart(q)
  PROVE  /\ Apart(Tail(q))
         /\ Head(q).name \in NamesOf(Range1(q))
         /\ Head(q).name \notin NamesOf(Range1(Tail(q)))
         /\ NamesOf(Range1(Tail(q))) \subseteq NamesOf(Range1(q))
<1>1. /\ Len(q) \in Nat \ {0} /\ DOMAIN q = 1 .. Len(q)
      /\ DOMAIN Tail(q) = 1 .. Len(q) - 1 /\ Head(q) = q[1]
      /\ \A i \in 1 .. Len(q) - 1 : Tail(q)[i] = q[i + 1]
  BY HeadTailProperties, LenProperties, EmptySeq
<1>2. \A i \in DOMAIN Tail(q) : i + 1 \in DOMAIN q /\ i + 1 # 1 /\ Tail(q)[i] = q[i + 1]
  BY <1>1
<1>3. Apart(Tail(q))
  <2> SUFFICES ASSUME NEW i \in DOMAIN Tail(q), NEW j \in DOMAIN Tail(q),
                      Tail(q)[i].name = Tail(q)[j].name
               PROVE  i = j
    BY DEF Apart
  <2>1. i + 1 = j + 1
    BY <1>2 DEF Apart
  <2> QED
    BY <1>1, <2>1
<1>4. 1 \in DOMAIN q
  BY <1>1
<1>5. Head(q) \in Range1(q) /\ Range1(Tail(q)) \subseteq Range1(q)
  BY <1>1, <1>2, <1>4 DEF Range1
<1>6. \A m \in Range1(Tail(q)) : m.name # Head(q).name
  <2> SUFFICES ASSUME NEW i \in DOMAIN Tail(q), Tail(q)[i].name = q[1].name PROVE FALSE
    BY <1>1 DEF Range1
  <2> QED
    BY <1>2, <1>4 DEF Apart
<1> QED
  BY <1>3, <1>5, <1>6 DEF NamesOf

LEMMA RestDistinct ==
  ASSUME NEW S, NEW q \in Seq(S), q # <<>>, \A i, j \in DOMAIN q : q[i] = q[j] => i = j
  PROVE  /\ \A i, j \in DOMAIN Tail(q) : Tail(q)[i] = Tail(q)[j] => i = j
         /\ Head(q) \notin Range1(Tail(q))
<1>1. /\ Len(q) \in Nat \ {0} /\ DOMAIN q = 1 .. Len(q)
      /\ DOMAIN Tail(q) = 1 .. Len(q) - 1 /\ Head(q) = q[1]
      /\ \A i \in 1 .. Len(q) - 1 : Tail(q)[i] = q[i + 1]
  BY HeadTailProperties, LenProperties, EmptySeq
<1>2. \A i \in DOMAIN Tail(q) : i + 1 \in DOMAIN q /\ i + 1 # 1 /\ Tail(q)[i] = q[i + 1]
  BY <1>1
<1>3. ASSUME NEW i \in DOMAIN Tail(q), NEW j \in DOMAIN Tail(q), Tail(q)[i] = Tail(q)[j]
      PROVE  i = j
  <2>1. i + 1 = j + 1
    BY <1>2, <1>3
  <2> QED
    BY <1>1, <2>1
<1>4. 1 \in DOMAIN q
  BY <1>1
<1>5. Head(q) \notin Range1(Tail(q))
  <2> SUFFICES ASSUME NEW i \in DOMAIN Tail(q), Tail(q)[i] = q[1] PROVE FALSE
    BY <1>1 DEF Range1
  <2> QED
    BY <1>2, <1>4
<1> QED
  BY <1>3, <1>5

(* The transports of a client are distinct. *)
LEMMA TransportsDistinct ==
  ASSUME EntriesInv, OptionsInv, pc \in Inside
  PROVE  \A i, j \in DOMAIN transports : transports[i] = transports[j] => i = j
<1>1. request.transports \in {<<"grpc">>, <<"rest">>, <<"grpc", "rest">>}
  BY PresentService DEF IsRequest
<1>2. transports \in {<<"grpc">>, <<"rest">>, <<"grpc", "rest">>}
  BY <1>1 DEF OptionsInv
<1>3. \A ts \in {<<"grpc">>, <<"rest">>, <<"grpc", "rest">>} :
         \A i, j \in DOMAIN ts : ts[i] = ts[j] => i = j
  OBVIOUS
<1> QED
  BY <1>2, <1>3

(* The names that are no iterator's. *)
LEMMA IteratorNames ==
  ASSUME EntriesInv, NamedApart(request), pc \in Inside, NEW m \in MethodSet(Service)
  PROVE  m.page.iter # "Operation"
<1>1. m \in Range1(Service.methods) \cup MixinSet(request)
  BY PresentService, MethodsInAre
<1> QED
  BY <1>1, PresentService DEF NamedApart

LEMMA ItersKept ==
  ASSUME NEW page, page.iter # "Operation", \A p \in iters : p[1] # "Operation",
         iters' = AddIter(page)
  PROVE  \A p \in iters' : p[1] # "Operation"
BY DEF AddIter

LEMMA AllMethodsApart ==
  ASSUME EntriesInv, NamedApart(request), pc \in Inside \cup {"snippets", "client"}
  PROVE  Methods(Service) \in Seq(MethodSet(Service)) /\ Apart(Methods(Service))
<1>1. Methods(Service) = Service.methods \o MixinsIn(request)
  BY DEF Methods, Mixins, IAMPolicyOverridden, MixinsIn, OverriddenIn, Services
<1>2. Apart(Service.methods \o MixinsIn(request))
  BY PresentService, MethodsApart
<1> QED
  BY <1>1, <1>2, PresentService

LEMMA PartsOf ==
  ASSUME NEW S, NEW q \in Seq(S), q # <<>>
  PROVE  Head(q) \in Range1(q) /\ Range1(Tail(q)) \subseteq Range1(q)
<1>1. /\ Len(q) \in Nat \ {0} /\ DOMAIN q = 1 .. Len(q)
      /\ DOMAIN Tail(q) = 1 .. Len(q) - 1 /\ Head(q) = q[1]
      /\ \A i \in 1 .. Len(q) - 1 : Tail(q)[i] = q[i + 1]
  BY HeadTailProperties, LenProperties, EmptySeq
<1>2. \A i \in DOMAIN Tail(q) : i + 1 \in DOMAIN q /\ Tail(q)[i] = q[i + 1]
  BY <1>1
<1>3. 1 \in DOMAIN q
  BY <1>1
<1> QED
  BY <1>1, <1>2, <1>3 DEF Range1

(* Steps in which a loop starts, goes on or ends. *)
LEMMA LoopSteps ==
  ASSUME Next, pc' \notin Stopped, pc' \in InClient \/ iters' # iters
  PROVE  \/ StartClient \/ InterfaceMethod \/ InterfaceDone \/ WrapperMethod
         \/ MakeTransports \/ TransportMethod \/ TransportDone
BY DEF Next, GenService, GenPackage, NextService, GenSnippet, SnippetFails, SnippetsDone,
       InterfaceFails, TransportFails, GenOperationBuilders,
       GenExampleFile, ExampleFails, GenExampleIteratorFile, GenAndCommitHelpers,
       GenSnippetMetadata, GenDocFile, GenGapicMetadataFile, CustomOperationType,
       GenAuxFile, Fail, InClient, Stopped, auxVars

LEMMA LoopsStep ==
  ASSUME LoopsInv, EntriesInv, OptionsInv, MetaInv, NamedApart(request), Next, pc' \notin Stopped
  PROVE  LoopsInv'
<1>0. request' = request
  BY RequestKept
<1>1. current' = current => /\ Service' = Service /\ MethodSet(Service)' = MethodSet(Service)
  BY <1>0, SameService
<1>2. CASE StartClient \/ InterfaceDone
  <2>1. /\ pc \in Inside \cup {"snippets", "client"} /\ pc' \in InClient /\ pc' # "transport"
        /\ current' = current /\ todo' = Methods(Service) /\ iters' = iters
    BY <1>2 DEF StartClient, InterfaceDone, InClient, Inside, auxVars
  <2>2. todo' \in Seq(MethodSet(Service)) /\ Apart(todo')
    BY <2>1, AllMethodsApart
  <2> QED
    BY <1>1, <2>1, <2>2 DEF LoopsInv
<1>3. CASE InterfaceMethod \/ WrapperMethod \/ TransportMethod
  <2> DEFINE m == Head(todo)
  <2>1. /\ pc \in InClient /\ pc' = pc /\ pc \in Inside /\ todo # <<>> /\ todo' = Tail(todo)
        /\ current' = current /\ lanes' = lanes
        /\ iters' = iters \/ iters' = AddIter(m.page)
    BY <1>3 DEF InterfaceMethod, WrapperMethod, TransportMethod, InClient, Inside, Stopped
  <2>2. todo \in Seq(MethodSet(Service)) /\ Apart(todo)
    BY <2>1 DEF LoopsInv
  <2>3. m \in MethodSet(Service) /\ todo' \in Seq(MethodSet(Service)) /\ Apart(todo')
    BY <2>1, <2>2, RestOfLoop, RestApart
  <2>4. \A p \in iters : p[1] # "Operation"
    BY DEF LoopsInv
  <2>5. m.page.iter # "Operation"
    BY <2>1, <2>3, IteratorNames
  <2> HIDE DEF m
  <2>6. \A p \in iters' : p[1] # "Operation"
    BY <2>1, <2>4, <2>5, ItersKept
  <2> QED
    BY <1>1, <2>1, <2>3, <2>6 DEF LoopsInv
<1>4. CASE MakeTransports
  <2>1. /\ pc = "wrappers" /\ pc \in Inside /\ pc' = "transport" /\ current' = current
        /\ todo' = Methods(Service) /\ lanes' = transports /\ iters' = iters
    BY <1>4 DEF MakeTransports, Inside, auxVars
  <2>2. todo' \in Seq(MethodSet(Service)) /\ Apart(todo')
    BY <2>1, AllMethodsApart
  <2>3. \A i, j \in DOMAIN lanes' : lanes'[i] = lanes'[j] => i = j
    BY <2>1, TransportsDistinct
  <2> QED
    BY <1>1, <2>1, <2>2, <2>3 DEF LoopsInv
<1>5. CASE TransportDone
  <2>1. /\ pc = "transport" /\ pc \in Inside /\ pc' = "transport" /\ current' = current
        /\ lanes # <<>> /\ lanes' = Tail(lanes) /\ iters' = iters
        /\ todo' = Methods(Service) \/ todo' = <<>>
    BY <1>5 DEF TransportDone, Inside, auxVars
  <2>2. todo' \in Seq(MethodSet(Service)) /\ Apart(todo')
    <3>1. <<>> \in Seq(MethodSet(Service)) /\ Apart(<<>>)
      BY EmptySeq DEF Apart
    <3> QED
      BY <2>1, <3>1, AllMethodsApart
  <2>3. \A i, j \in DOMAIN lanes' : lanes'[i] = lanes'[j] => i = j
    <3>1. lanes \in Seq({"grpc", "rest"}) /\ \A i, j \in DOMAIN lanes : lanes[i] = lanes[j] => i = j
      BY <2>1 DEF MetaInv, LoopsInv
    <3> QED
      BY <2>1, <3>1, RestDistinct
  <2> QED
    BY <1>1, <2>1, <2>2, <2>3 DEF LoopsInv
<1>6. CASE pc' \notin InClient /\ iters' = iters
  BY <1>6 DEF LoopsInv, InClient
<1> QED
  BY <1>2, <1>3, <1>4, <1>5, <1>6, LoopSteps

(* What is still to be defined after a step was so before it. *)
LEMMA HereLater ==
  ASSUME LoopsInv, EntriesInv, MetaInv, Next, pc' \notin Stopped, current' = current, NEW id,
         ComingHere(pc', NamesOf(Range1(todo')), lanes', id)
  PROVE  ComingHere(pc, NamesOf(Range1(todo)), lanes, id)
<1> DEFINE N == NamesOf(Range1(todo))
           M == NamesOf(Range1(todo'))
<1>0. ComingHere(pc', M, lanes', id)
  OBVIOUS
<1>a. pc \in InClient /\ todo # <<>> /\ todo' = Tail(todo) => M \subseteq N
  BY RestApart DEF LoopsInv
<1> HIDE DEF N, M
<1>1. CASE pc \in {"helpers", "service", "snippets", "client"}
  BY <1>1 DEF ComingHere
<1>2. CASE InterfaceMethod
  <2>1. pc = "interface" /\ pc' = "interface" /\ M \subseteq N
    BY <1>2, <1>a DEF InterfaceMethod, InClient
  <2> QED
    BY <1>0, <2>1 DEF ComingHere, N
<1>3. CASE InterfaceDone
  <2>1. pc = "interface" /\ pc' = "wrappers"
    BY <1>3 DEF InterfaceDone
  <2> QED
    BY <1>0, <2>1 DEF ComingHere
<1>4. CASE WrapperMethod
  <2>1. pc = "wrappers" /\ pc' = "wrappers" /\ M \subseteq N
    BY <1>4, <1>a DEF WrapperMethod, InClient, Stopped
  <2> QED
    BY <1>0, <2>1 DEF ComingHere, N
<1>5. CASE MakeTransports
  <2>1. pc = "wrappers" /\ pc' = "transport"
    BY <1>5 DEF MakeTransports
  <2> QED
    BY <1>0, <2>1 DEF ComingHere
<1>6. CASE TransportMethod
  <2>1. pc = "transport" /\ pc' = "transport" /\ M \subseteq N /\ lanes' = lanes
    BY <1>6, <1>a DEF TransportMethod, InClient
  <2> QED
    BY <1>0, <2>1 DEF ComingHere, N
<1>7. CASE TransportDone
  <2>1. pc = "transport" /\ pc' = "transport" /\ lanes # <<>> /\ lanes' = Tail(lanes)
    BY <1>7 DEF TransportDone
  <2> DEFINE rest == Tail(lanes)
  <2>2. rest \in Seq({"grpc", "rest"})
    BY <2>1 DEF MetaInv
  <2>3. rest # <<>> => Head(rest) \in Range1(rest) /\ Range1(Tail(rest)) \subseteq Range1(rest)
    BY <2>2, PartsOf
  <2>4. ComingHere("transport", M, rest, id)
    BY <1>0, <2>1
  <2>5. id[1] \in {"grpc", "rest"} /\ (Len(id) = 4 \/ id[1] \in Range1(rest))
    <3> HIDE DEF rest
    <3> QED
      BY <2>3, <2>4 DEF ComingHere
  <2> QED
    BY <2>1, <2>5 DEF ComingHere
<1>8. CASE GenOperationBuilders \/ GenExampleFile
  BY <1>0, <1>8 DEF GenOperationBuilders, GenExampleFile, ComingHere
<1>9. CASE GenExampleIteratorFile
  <2>1. current \in Nat /\ current' = current + 1
    BY <1>9 DEF GenExampleIteratorFile, EntriesInv
  <2> QED
    BY <2>1
<1>10. CASE SnippetFails \/ InterfaceFails \/ TransportFails \/ ExampleFails
  BY <1>10 DEF SnippetFails, InterfaceFails, TransportFails, ExampleFails, Fail, Stopped
<1>11. CASE GenPackage \/ NextService \/ GenSnippet \/ SnippetsDone \/ StartClient
  BY <1>0, <1>1, <1>11 DEF GenPackage, GenAndCommitHelpers, GenSnippetMetadata, GenDocFile,
    GenGapicMetadataFile, CustomOperationType, GenAuxFile, NextService, GenSnippet,
    SnippetsDone, StartClient, ComingHere
<1> QED
  BY <1>2, <1>3, <1>4, <1>5, <1>6, <1>7, <1>8, <1>9, <1>10, <1>11 DEF Next, GenService

LEMMA AheadLater ==
  ASSUME LoopsInv, EntriesInv, MetaInv, Next, pc' \notin Stopped, NEW id,
         Coming(request', pc', current', NamesOf(Range1(todo')), lanes', id)
  PROVE  Ahead(id)
<1> DEFINE N == NamesOf(Range1(todo))
           M == NamesOf(Range1(todo'))
<1>0. Coming(request, pc', current', M, lanes', id)
  BY RequestKept
<1>1. /\ pc' = "helpers" => pc = "helpers"
      /\ pc' \notin {"aux", "done"} => pc \notin {"aux", "done"}
      /\ pc' # "done" => pc # "done"
  BY DEF Next, GenService, GenPackage, NextService, GenSnippet, SnippetFails, SnippetsDone,
       StartClient, InterfaceMethod, InterfaceFails, InterfaceDone, WrapperMethod,
       MakeTransports, TransportMethod, TransportFails, TransportDone, GenOperationBuilders,
       GenExampleFile, ExampleFails, GenExampleIteratorFile, GenAndCommitHelpers,
       GenSnippetMetadata, GenDocFile, GenGapicMetadataFile, CustomOperationType,
       GenAuxFile, Fail
<1>2. ASSUME NEW i \in DOMAIN request.services,
             i > current' \/ (i = current' /\ ComingHere(pc', M, lanes', id))
      PROVE  i > current \/ (i = current /\ ComingHere(pc, N, lanes, id))
  <2>1. CASE current' = current
    BY <1>2, <2>1, HereLater
  <2>2. CASE current' # current
    <3>1. current' = current + 1
      BY <2>2 DEF Next, GenService, GenPackage, NextService, GenSnippet, SnippetFails,
         SnippetsDone, StartClient, InterfaceMethod, InterfaceFails, InterfaceDone,
         WrapperMethod, MakeTransports, TransportMethod, TransportFails, TransportDone,
         GenOperationBuilders, GenExampleFile, ExampleFails, GenExampleIteratorFile,
         GenAndCommitHelpers, GenSnippetMetadata, GenDocFile, GenGapicMetadataFile,
         CustomOperationType, GenAuxFile, Fail, loopVars
    <3>2. i \in Nat /\ current \in Nat
      BY ServicesAreListed DEF Services
    <3>3. i > current' \/ i = current'
      BY <1>2
    <3> QED
      BY <3>1, <3>2, <3>3
  <2> QED
    BY <2>1, <2>2
<1> HIDE DEF N, M
<1> QED
  BY <1>0, <1>1, <1>2 DEF Ahead, Coming, N

(* Printing what was still to be defined, and is so no longer. *)
LEMMA StillOnce ==
  ASSUME LoopsInv, EntriesInv, MetaInv, Next, pc' \notin Stopped,
         \A d, e \in Written : d.id = e.id => d = e,
         \A d \in Written : ~Ahead(d.id),
         NEW D, Written' = Written \cup D,
         \A d \in D : Ahead(d.id),
         \A d \in D : ~Coming(request', pc', current', NamesOf(Range1(todo')), lanes', d.id),
         \A d, e \in D : d.id = e.id => d = e
  PROVE  /\ \A d, e \in Written' : d.id = e.id => d = e
         /\ \A d \in Written' :
               ~Coming(request', pc', current', NamesOf(Range1(todo')), lanes', d.id)
<1> DEFINE P(id) == Coming(request', pc', current', NamesOf(Range1(todo')), lanes', id)
<1>1. \A id : P(id) => Ahead(id)
  BY AheadLater
<1>2. \A d \in D : ~P(d.id)
  OBVIOUS
<1> HIDE DEF P
<1>3. \A d, e \in Written' : d.id = e.id => d = e
  BY DEF Ahead
<1>4. \A d \in Written' : ~P(d.id)
  BY <1>1, <1>2
<1> QED
  BY <1>3, <1>4 DEF P

LEMMA OwnersAre ==
  ASSUME NEW id
  PROVE  /\ Owner(id) = <<"helpers">> <=> id[1] = "func"
         /\ Owner(id) = <<"operations">> <=> id[1] = "handle" \/ id = <<"type", "Operation">>
         /\ \A n : Owner(id) = <<"client", n>> <=> id[1] \in Receivers \cup {"New"} /\ id[2] = n
         /\ id[1] \in Receivers \cup {"New", "func", "handle"} => Owner(id) # <<"auxiliary">>
         /\ id[1] = "type" /\ id # <<"type", "Operation">> => Owner(id) = <<"auxiliary">>
<1>1. \A a, b \in {"helpers", "operations", "auxiliary"} : <<a>> = <<b>> => a = b
  OBVIOUS
<1>2. \A a, n : <<a>> # <<"client", n>>
  <2> SUFFICES ASSUME NEW a, NEW n, <<a>> = <<"client", n>> PROVE FALSE
    OBVIOUS
  <2>1. Len(<<a>>) = 1 /\ Len(<<"client", n>>) = 2
    OBVIOUS
  <2> QED
    BY <2>1
<1>3. \A m, n : <<"client", m>> = <<"client", n>> => m = n
  OBVIOUS
<1>4. id = <<"type", "Operation">> => id[1] = "type"
  OBVIOUS
<1> DEFINE one == id[1]
           two == id[2]
           op == id = <<"type", "Operation">>
           H == <<"helpers">>
           O == <<"operations">>
           A == <<"auxiliary">>
           C(n) == <<"client", n>>
<1>5. /\ H # O /\ H # A /\ O # A
      /\ \A n : H # C(n) /\ O # C(n) /\ A # C(n)
      /\ \A m, n : C(m) = C(n) => m = n
  BY <1>1, <1>2, <1>3
<1>6. Owner(id) = IF one = "func" THEN H
                  ELSE IF one \in Receivers \cup {"New"} THEN C(two)
                  ELSE IF one = "handle" \/ op THEN O
                  ELSE A
  BY DEF Owner
<1>7. op => one = "type"
  BY <1>4
<1> HIDE DEF one, two, op, H, O, A, C
<1>8. /\ Owner(id) = H <=> one = "func"
      /\ Owner(id) = O <=> one = "handle" \/ op
      /\ \A n : Owner(id) = C(n) <=> one \in Receivers \cup {"New"} /\ two = n
      /\ one \in Receivers \cup {"New", "func", "handle"} => Owner(id) # A
      /\ one = "type" /\ ~op => Owner(id) = A
  BY <1>5, <1>6, <1>7 DEF Receivers
<1> QED
  BY <1>8 DEF one, two, op, H, O, A, C

-------------------------------------------------------------------------------
(* What each step prints was still to be defined. *)
LEMMA ServiceNamed ==
  ASSUME EntriesInv, NamedApart(request), pc \in Inside \cup {"snippets", "client"}
  PROVE  /\ current \in DOMAIN request.services /\ request.services[current] = Service
         /\ \A i \in DOMAIN request.services :
               request.services[i].name = Service.name => i = current
         /\ ~(current > current)
         /\ \A i \in DOMAIN request.services : i \in Nat
<1>1. current \in DOMAIN request.services /\ request.services[current] = Service
  BY PresentService DEF Service, Services
<1>2. current \in Nat
  BY DEF EntriesInv
<1>3. \A i \in DOMAIN request.services : i \in Nat
  BY ServicesAreListed DEF Services
<1> QED
  BY <1>1, <1>2, <1>3 DEF NamedApart

(* An identifier of the service's client, before and after a step inside. *)
LEMMA ComingOfService ==
  ASSUME EntriesInv, NamedApart(request), pc \in Inside \cup {"snippets", "client"},
         NEW p, NEW names, NEW ln, NEW id,
         id[1] \in Receivers \cup {"New"}, id[2] = Service.name
  PROVE  Coming(request, p, current, names, ln, id) <=> ComingHere(p, names, ln, id)
<1>1. id[1] # "func" /\ id[1] # "handle" /\ id[1] # "type"
  BY DEF Receivers
<1>2. id # <<"type", "Operation">>
  BY <1>1
<1>3. Owner(id) # <<"auxiliary">>
  BY OwnersAre
<1> QED
  BY <1>1, <1>2, <1>3, ServiceNamed DEF Coming

LEMMA MethodIds ==
  ASSUME NEW receiver, NEW s, NEW m, NEW sig
  PROVE  /\ \A d \in MethodDefs(receiver, s, m, sig) :
               d.id[1] = receiver /\ d.id[2] = s.name /\ d.id[3] = m.name
         /\ \A d, e \in MethodDefs(receiver, s, m, sig) : d.id = e.id => d = e
<1> DEFINE name == s.name
           x == m.name
           D == MethodDefs(receiver, s, m, sig)
           call == Def(<<receiver, name, x>>, sig, Len(todo))
           byName == Def(<<receiver, name>> \o OpName(m), <<"byName">>, Len(todo))
<1>1. \A d \in D : d = call \/ d = byName
  BY DEF MethodDefs
<1>2. call.id = <<receiver, name, x>> /\ byName.id = <<receiver, name, x, "Operation">>
  BY ByNameIds DEF Def
<1> HIDE DEF call, byName, D, name, x
<1>3. Len(call.id) = 3 /\ Len(byName.id) = 4
  BY <1>2
<1>4. call.id # byName.id
  <2> SUFFICES ASSUME call.id = byName.id PROVE FALSE
    OBVIOUS
  <2>1. Len(call.id) = Len(byName.id)
    OBVIOUS
  <2> QED
    BY <1>3, <2>1
<1>5. /\ call.id[1] = receiver /\ call.id[2] = name /\ call.id[3] = x
      /\ byName.id[1] = receiver /\ byName.id[2] = name /\ byName.id[3] = x
  BY <1>2
<1>6. \A d \in D : d.id[1] = receiver /\ d.id[2] = name /\ d.id[3] = x
  BY <1>1, <1>5
<1>7. \A d, e \in D : d.id = e.id => d = e
  BY <1>1, <1>4
<1> QED
  BY <1>6, <1>7 DEF D, name, x

LEMMA HelpersOnce ==
  ASSUME GenAndCommitHelpers
  PROVE  /\ \A d \in HelperDefs : Ahead(d.id)
         /\ \A d \in HelperDefs :
               ~Coming(request', pc', current', NamesOf(Range1(todo')), lanes', d.id)
         /\ \A d, e \in HelperDefs : d.id = e.id => d = e
<1>1. \A d \in HelperDefs : d.id[1] = "func"
  BY DEF HelperDefs, Def, Helper
<1>2. \A d, e \in HelperDefs : d.id = e.id => d = e
  BY DEF HelperDefs, Def
<1>3. pc = "helpers" /\ pc' = "service"
  BY DEF GenAndCommitHelpers
<1>4. \A d \in HelperDefs : Ahead(d.id)
  BY <1>1, <1>3 DEF Ahead, Coming
<1>5. ASSUME NEW id, id[1] = "func", NEW r, NEW c, NEW names, NEW ln
      PROVE  ~Coming(r, "service", c, names, ln, id)
  <2>1. id # <<"type", "Operation">> /\ Owner(id) # <<"auxiliary">>
    BY <1>5, OwnersAre
  <2> QED
    BY <1>5, <2>1 DEF Coming, Receivers
<1> HIDE DEF HelperDefs
<1> QED
  BY <1>1, <1>2, <1>3, <1>4, <1>5

(* The interface and the client: a method's definitions follow its name. *)
LEMMA MethodOnce ==
  ASSUME LoopsInv, EntriesInv, NamedApart(request), pc \in InClient, pc' = pc,
         request' = request, current' = current, todo # <<>>, todo' = Tail(todo),
         NEW receiver,
         \/ pc = "interface" /\ receiver = "interface"
         \/ pc = "wrappers" /\ receiver = "client",
         NEW sig
  PROVE  LET D == MethodDefs(receiver, Service, Head(todo), sig)
         IN  /\ \A d \in D : Ahead(d.id)
             /\ \A d \in D :
                   ~Coming(request', pc', current', NamesOf(Range1(todo')), lanes', d.id)
             /\ \A d, e \in D : d.id = e.id => d = e
<1> DEFINE m == Head(todo)
           s == Service
           D == MethodDefs(receiver, s, m, sig)
<1>1. /\ \A d \in D : d.id[1] = receiver /\ d.id[2] = s.name /\ d.id[3] = m.name
      /\ \A d, e \in D : d.id = e.id => d = e
  BY MethodIds
<1>2. m.name \in NamesOf(Range1(todo)) /\ m.name \notin NamesOf(Range1(todo'))
  BY RestApart DEF LoopsInv
<1>3. receiver \in Receivers /\ pc \in Inside
  BY DEF Receivers, InClient, Inside
<1> HIDE DEF D, m
<1>4. ASSUME NEW d \in D
      PROVE  Ahead(d.id) /\ ~Coming(request', pc', current', NamesOf(Range1(todo')), lanes', d.id)
  <2>1. d.id[1] = receiver /\ d.id[2] = s.name /\ d.id[3] = m.name
    BY <1>1
  <2>2. ComingHere(pc, NamesOf(Range1(todo)), lanes, d.id)
    BY <1>2, <2>1 DEF ComingHere
  <2>3. ~ComingHere(pc', NamesOf(Range1(todo')), lanes', d.id)
    BY <1>2, <2>1 DEF ComingHere
  <2>4. Ahead(d.id)
    BY <1>3, <2>1, <2>2, ComingOfService DEF Ahead
  <2>5. ~Coming(request, pc', current, NamesOf(Range1(todo')), lanes', d.id)
    BY <1>3, <2>1, <2>3, ComingOfService
  <2> QED
    BY <2>4, <2>5
<1> QED
  BY <1>1, <1>4 DEF D, m

LEMMA ConstructorsOnce ==
  ASSUME EntriesInv, OptionsInv, NamedApart(request), MakeTransports
  PROVE  /\ \A d \in ConstructorDefs : Ahead(d.id)
         /\ \A d \in ConstructorDefs :
               ~Coming(request', pc', current', NamesOf(Range1(todo')), lanes', d.id)
         /\ \A d, e \in ConstructorDefs : d.id = e.id => d = e
<1> DEFINE name == Service.name
<1>1. /\ pc = "wrappers" /\ pc \in Inside /\ pc' = "transport"
      /\ request' = request /\ current' = current
  BY DEF MakeTransports, Inside, cfgVars
<1>2. ConstructorDefs = {Def(<<"New", name, transports[i]>>, <<"func">>, i) : i \in DOMAIN transports}
  BY DEF ConstructorDefs, New
<1> HIDE DEF name
<1>3. \A d \in ConstructorDefs : d.id[1] = "New" /\ d.id[2] = name
  BY <1>2 DEF Def
<1>4. ASSUME NEW d \in ConstructorDefs, NEW e \in ConstructorDefs, d.id = e.id PROVE d = e
  <2>1. PICK i \in DOMAIN transports : d = Def(<<"New", name, transports[i]>>, <<"func">>, i)
    BY <1>2
  <2>2. PICK j \in DOMAIN transports : e = Def(<<"New", name, transports[j]>>, <<"func">>, j)
    BY <1>2
  <2>3. d.id = <<"New", name, transports[i]>> /\ e.id = <<"New", name, transports[j]>>
    BY <2>1, <2>2 DEF Def
  <2> DEFINE t == transports[i]
             u == transports[j]
  <2>a. <<"New", name, t>> = <<"New", name, u>>
    BY <1>4, <2>3, Zenon
  <2>4. t = u
    <3> HIDE DEF t, u
    <3> QED
      BY <2>a
  <2>5. i = j
    BY <1>1, <2>4, TransportsDistinct
  <2> QED
    BY <2>1, <2>2, <2>5
<1>5. ASSUME NEW d \in ConstructorDefs
      PROVE  Ahead(d.id) /\ ~Coming(request', pc', current', NamesOf(Range1(todo')), lanes', d.id)
  <2>1. d.id[1] = "New" /\ d.id[2] = Service.name
    BY <1>3 DEF name
  <2>2. ComingHere(pc, NamesOf(Range1(todo)), lanes, d.id)
    BY <1>1, <2>1 DEF ComingHere
  <2>3. ~ComingHere(pc', NamesOf(Range1(todo')), lanes', d.id)
    BY <1>1, <2>1 DEF ComingHere
  <2>4. Ahead(d.id)
    BY <1>1, <2>1, <2>2, ComingOfService DEF Ahead
  <2>5. ~Coming(request, pc', current, NamesOf(Range1(todo')), lanes', d.id)
    BY <1>1, <2>1, <2>3, ComingOfService
  <2> QED
    BY <1>1, <2>4, <2>5
<1> QED
  BY <1>4, <1>5

LEMMA LaneOnce ==
  ASSUME LoopsInv, EntriesInv, OptionsInv, MetaInv, NamedApart(request), TransportMethod
  PROVE  /\ Ahead(LaneDef(Head(todo)).id)
         /\ ~Coming(request', pc', current', NamesOf(Range1(todo')), lanes',
                    LaneDef(Head(todo)).id)
<1> DEFINE m == Head(todo)
           t == Head(lanes)
           name == Service.name
           x == m.name
           id == LaneDef(m).id
<1>1. /\ pc = "transport" /\ pc \in Inside /\ pc' = "transport"
      /\ request' = request /\ current' = current /\ lanes' = lanes
      /\ lanes # <<>> /\ todo # <<>> /\ todo' = Tail(todo)
  BY DEF TransportMethod, Inside, cfgVars
<1>2. m.name \in NamesOf(Range1(todo)) /\ m.name \notin NamesOf(Range1(todo'))
  BY <1>1, RestApart DEF LoopsInv, InClient
<1>3. lanes \in Seq({"grpc", "rest"}) /\ \A i, j \in DOMAIN lanes : lanes[i] = lanes[j] => i = j
  BY <1>1 DEF MetaInv, LoopsInv
<1>4. t \in {"grpc", "rest"} /\ t \notin Range1(Tail(lanes))
  BY <1>1, <1>3, RestOfLoop, RestDistinct
<1>5. id = <<t, name, x>>
  BY DEF LaneDef, Def
<1> HIDE DEF id, m, t, name, x
<1>6. id[1] = t /\ id[2] = name /\ id[3] = x /\ Len(id) = 3
  BY <1>5
<1>7. id[1] \in Receivers \cup {"New"} /\ id[2] = Service.name
  BY <1>4, <1>6 DEF Receivers, name
<1>8. ComingHere(pc, NamesOf(Range1(todo)), lanes, id)
  BY <1>1, <1>2, <1>4, <1>6 DEF ComingHere, t, x
<1>9. ~ComingHere(pc', NamesOf(Range1(todo')), lanes', id)
  BY <1>1, <1>2, <1>4, <1>6 DEF ComingHere, x
<1>10. Ahead(id)
  BY <1>1, <1>7, <1>8, ComingOfService DEF Ahead
<1>11. ~Coming(request, pc', current, NamesOf(Range1(todo')), lanes', id)
  BY <1>1, <1>7, <1>9, ComingOfService
<1> QED
  BY <1>1, <1>10, <1>11 DEF id, m

LEMMA BuildersOnce ==
  ASSUME EntriesInv, OptionsInv, NamedApart(request), GenOperationBuilders
  PROVE  /\ \A d \in BuilderDefs(Service) : Ahead(d.id)
         /\ \A d \in BuilderDefs(Service) :
               ~Coming(request', pc', current', NamesOf(Range1(todo')), lanes', d.id)
         /\ \A d, e \in BuilderDefs(Service) : d.id = e.id => d = e
<1> DEFINE s == Service
           name == s.name
           D == BuilderDefs(s)
<1>1. /\ pc = "transport" /\ pc \in Inside /\ pc' = "example"
      /\ request' = request /\ current' = current
  BY DEF GenOperationBuilders, Inside, cfgVars, loopVars
<1>2. \A d \in D : \E i \in DOMAIN s.methods : \E t \in Range1(transports) :
         d = Def(<<t, name>> \o OpName(s.methods[i]), <<"byName">>, i)
  <2> DEFINE lros == {i \in DOMAIN s.methods : <<s.name, s.methods[i].name>> \in wrapped}
  <2>1. D = {Def(<<t, s.name>> \o OpName(s.methods[i]), <<"byName">>, i) :
               i \in lros, t \in Range1(transports)}
    BY DEF BuilderDefs
  <2>2. lros \subseteq DOMAIN s.methods
    OBVIOUS
  <2> HIDE DEF lros, D
  <2> QED
    BY <2>1, <2>2
<1>3. Range1(transports) \subseteq {"grpc", "rest"}
  <2>1. transports \in Seq({"grpc", "rest"})
    BY <1>1, TransportsAreKnown DEF EntriesInv
  <2> QED
    BY <2>1 DEF Range1
<1>4. \A i, j \in DOMAIN s.methods : s.methods[i].name = s.methods[j].name => i = j
  BY <1>1, PresentService DEF NamedApart
<1> HIDE DEF D, s, name
<1>a. \A d \in D : \E i \in DOMAIN s.methods : \E t \in {"grpc", "rest"} :
         /\ d = Def(<<t, name>> \o OpName(s.methods[i]), <<"byName">>, i)
         /\ d.id = <<t, name, s.methods[i].name, "Operation">>
  <2> SUFFICES ASSUME NEW d \in D
               PROVE  \E i \in DOMAIN s.methods : \E t \in {"grpc", "rest"} :
                         /\ d = Def(<<t, name>> \o OpName(s.methods[i]), <<"byName">>, i)
                         /\ d.id = <<t, name, s.methods[i].name, "Operation">>
    OBVIOUS
  <2>1. PICK i \in DOMAIN s.methods : \E t \in Range1(transports) :
           d = Def(<<t, name>> \o OpName(s.methods[i]), <<"byName">>, i)
    BY <1>2
  <2>2. PICK t \in Range1(transports) :
           d = Def(<<t, name>> \o OpName(s.methods[i]), <<"byName">>, i)
    BY <2>1
  <2>3. d.id = <<t, name>> \o OpName(s.methods[i])
    BY <2>2 DEF Def
  <2>4. d.id = <<t, name, s.methods[i].name, "Operation">>
    BY <2>3, ByNameIds, Zenon
  <2> QED
    BY <1>3, <2>2, <2>4
<1>5. ASSUME NEW d \in D, NEW e \in D, d.id = e.id PROVE d = e
  <2>1. PICK i \in DOMAIN s.methods : \E t \in {"grpc", "rest"} :
         /\ d = Def(<<t, name>> \o OpName(s.methods[i]), <<"byName">>, i)
         /\ d.id = <<t, name, s.methods[i].name, "Operation">>
    BY <1>a
  <2>2. PICK t \in {"grpc", "rest"} :
         /\ d = Def(<<t, name>> \o OpName(s.methods[i]), <<"byName">>, i)
         /\ d.id = <<t, name, s.methods[i].name, "Operation">>
    BY <2>1
  <2>3. PICK j \in DOMAIN s.methods : \E u \in {"grpc", "rest"} :
         /\ e = Def(<<u, name>> \o OpName(s.methods[j]), <<"byName">>, j)
         /\ e.id = <<u, name, s.methods[j].name, "Operation">>
    BY <1>a
  <2>4. PICK u \in {"grpc", "rest"} :
         /\ e = Def(<<u, name>> \o OpName(s.methods[j]), <<"byName">>, j)
         /\ e.id = <<u, name, s.methods[j].name, "Operation">>
    BY <2>3
  <2> DEFINE x == s.methods[i].name
             y == s.methods[j].name
  <2>5. d.id = <<t, name, x, "Operation">> /\ e.id = <<u, name, y, "Operation">>
    BY <2>2, <2>4
  <2>6. t = u /\ x = y
    <3> HIDE DEF x, y
    <3>1. d.id[1] = t /\ d.id[3] = x /\ e.id[1] = u /\ e.id[3] = y
      BY <2>5
    <3> QED
      BY <1>5, <3>1
  <2>7. i = j
    BY <1>4, <2>6
  <2> QED
    BY <2>2, <2>4, <2>6, <2>7, Zenon
<1>6. ASSUME NEW d \in D
      PROVE  Ahead(d.id) /\ ~Coming(request', pc', current', NamesOf(Range1(todo')), lanes', d.id)
  <2>1. d.id[1] \in {"grpc", "rest"} /\ d.id[2] = name /\ Len(d.id) = 4
    <3>1. PICK i \in DOMAIN s.methods : \E t \in {"grpc", "rest"} :
             d.id = <<t, name, s.methods[i].name, "Operation">>
      BY <1>a
    <3>2. PICK t \in {"grpc", "rest"} : d.id = <<t, name, s.methods[i].name, "Operation">>
      BY <3>1
    <3> QED
      BY <3>2
  <2>2. d.id[1] \in Receivers \cup {"New"} /\ d.id[2] = Service.name
    BY <2>1 DEF Receivers, s, name
  <2>3. ComingHere(pc, NamesOf(Range1(todo)), lanes, d.id)
    BY <1>1, <2>1 DEF ComingHere
  <2>4. ~ComingHere(pc', NamesOf(Range1(todo')), lanes', d.id)
    BY <1>1 DEF ComingHere
  <2>5. Ahead(d.id)
    BY <1>1, <2>2, <2>3, ComingOfService DEF Ahead
  <2>6. ~Coming(request, pc', current, NamesOf(Range1(todo')), lanes', d.id)
    BY <1>1, <2>2, <2>4, ComingOfService
  <2> QED
    BY <1>1, <2>5, <2>6
<1> QED
  BY <1>5, <1>6 DEF D, s

(* Types are nobody's methods either. *)
LEMMA ComingOfType ==
  ASSUME NEW id, id[1] \in {"handle", "type"}, NEW r, NEW p, NEW c, NEW names, NEW ln
  PROVE  Coming(r, p, c, names, ln, id) <=>
           IF id[1] = "handle" \/ id = <<"type", "Operation">>
           THEN p \notin {"aux", "done"} ELSE p # "done"
<1>1. id[1] \notin Receivers \cup {"New", "func"}
  BY DEF Receivers
<1>2. Owner(id) = <<"auxiliary">> <=> ~(id[1] = "handle" \/ id = <<"type", "Operation">>)
  <2>1. <<"operations">> # <<"auxiliary">>
    OBVIOUS
  <2> QED
    BY <2>1, OwnersAre
<1> QED
  BY <1>1, <1>2 DEF Coming

LEMMA OperationsOnce ==
  ASSUME CustomOperationType
  PROVE  /\ \A d \in OperationDefs : Ahead(d.id)
         /\ \A d \in OperationDefs :
               ~Coming(request', pc', current', NamesOf(Range1(todo')), lanes', d.id)
         /\ \A d, e \in OperationDefs : d.id = e.id => d = e
<1>1. pc = "operations" /\ pc' = "aux"
  BY DEF CustomOperationType
<1>2. \A d \in OperationDefs :
         \/ d = Def(<<"type", "Operation">>, <<"type", "error">>, 0)
         \/ \E h \in Handles : d = Def(<<"handle", h>>, <<"type">>, 0)
  BY DEF OperationDefs
<1>3. ASSUME NEW d \in OperationDefs
      PROVE  /\ d.id[1] \in {"handle", "type"}
             /\ d.id[1] = "handle" \/ d.id = <<"type", "Operation">>
  BY <1>2 DEF Def
<1>4. ASSUME NEW d \in OperationDefs, NEW e \in OperationDefs, d.id = e.id PROVE d = e
  <2>1. CASE d.id[1] = "type"
    <3>1. e.id[1] = "type"
      BY <1>4, <2>1
    <3> QED
      BY <1>2, <2>1, <3>1 DEF Def
  <2>2. CASE d.id[1] = "handle"
    <3>1. e.id[1] = "handle"
      BY <1>4, <2>2
    <3>2. PICK h : d = Def(<<"handle", h>>, <<"type">>, 0)
      BY <1>2, <2>2 DEF Def
    <3>3. PICK k : e = Def(<<"handle", k>>, <<"type">>, 0)
      BY <1>2, <3>1 DEF Def
    <3>4. d.id = <<"handle", h>> /\ e.id = <<"handle", k>>
      BY <3>2, <3>3 DEF Def
    <3>a. <<"handle", h>> = <<"handle", k>>
      BY <1>4, <3>4, Zenon
    <3>5. h = k
      BY <3>a
    <3> QED
      BY <3>2, <3>3, <3>5
  <2> QED
    BY <1>3, <2>1, <2>2
<1>5. ASSUME NEW d \in OperationDefs
      PROVE  Ahead(d.id) /\ ~Coming(request', pc', current', NamesOf(Range1(todo')), lanes', d.id)
  BY <1>1, <1>3, ComingOfType DEF Ahead
<1> QED
  BY <1>4, <1>5

LEMMA AuxIds ==
  ASSUME MetaInv, LoopsInv
  PROVE  /\ \A d \in AuxDefs : d.id[1] = "type" /\ d.id # <<"type", "Operation">>
         /\ \A w \in wrappers : \E x :
               w[1] = <<x, "Operation">> /\ WrapperDef(w).id = <<"type", x, "Operation">>
         /\ \A p \in iters : IterDef(p).id = <<"type", p[1]>>
<1>1. ASSUME NEW w \in wrappers
      PROVE  \E x : w[1] = <<x, "Operation">> /\ WrapperDef(w).id = <<"type", x, "Operation">>
  <2>1. PICK m : w[1] = OpName(m)
    BY DEF MetaInv
  <2>2. WrapperDef(w).id = <<"type">> \o OpName(m)
    BY <2>1 DEF WrapperDef, Def
  <2>3. <<"type">> \o OpName(m) = <<"type", m.name, "Operation">>
    BY ByNameIds, Zenon
  <2> QED
    BY <2>1, <2>2, <2>3 DEF OpName
<1>2. \A p \in iters : IterDef(p).id = <<"type", p[1]>>
  BY DEF IterDef, Def
<1>3. \A x : <<"type", x, "Operation">> # <<"type", "Operation">>
  <2> SUFFICES ASSUME NEW x, <<"type", x, "Operation">> = <<"type", "Operation">> PROVE FALSE
    OBVIOUS
  <2>1. Len(<<"type", x, "Operation">>) = 3 /\ Len(<<"type", "Operation">>) = 2
    OBVIOUS
  <2> QED
    BY <2>1
<1>4. \A y : <<"type", y>> = <<"type", "Operation">> => y = "Operation"
  OBVIOUS
<1>5. ASSUME NEW w \in wrappers
      PROVE  WrapperDef(w).id[1] = "type" /\ WrapperDef(w).id # <<"type", "Operation">>
  <2>1. PICK x : WrapperDef(w).id = <<"type", x, "Operation">>
    BY <1>1
  <2> QED
    BY <1>3, <2>1
<1>6. ASSUME NEW p \in iters
      PROVE  IterDef(p).id[1] = "type" /\ IterDef(p).id # <<"type", "Operation">>
  <2>1. p[1] # "Operation"
    BY DEF LoopsInv
  <2>2. IterDef(p).id = <<"type", p[1]>>
    BY <1>2
  <2> DEFINE y == p[1]
  <2> HIDE DEF y
  <2>3. IterDef(p).id = <<"type", y>>
    BY <2>2 DEF y
  <2> QED
    BY <1>4, <2>1, <2>3 DEF y
<1> QED
  BY <1>1, <1>2, <1>5, <1>6 DEF AuxDefs

LEMMA AuxOnce ==
  ASSUME MetaInv, LoopsInv, OneTypeEach, GenAuxFile
  PROVE  /\ \A d \in AuxDefs : Ahead(d.id)
         /\ \A d \in AuxDefs :
               ~Coming(request', pc', current', NamesOf(Range1(todo')), lanes', d.id)
         /\ \A d, e \in AuxDefs : d.id = e.id => d = e
<1>1. pc = "aux" /\ pc' = "done"
  BY DEF GenAuxFile
<1>2. ASSUME NEW d \in AuxDefs
      PROVE  Ahead(d.id) /\ ~Coming(request', pc', current', NamesOf(Range1(todo')), lanes', d.id)
  <2>1. d.id[1] \in {"handle", "type"} /\ d.id[1] # "handle" /\ d.id # <<"type", "Operation">>
    BY AuxIds
  <2> QED
    BY <1>1, <2>1, ComingOfType DEF Ahead
<1>3. ASSUME NEW v \in wrappers, NEW w \in wrappers, WrapperDef(v).id = WrapperDef(w).id
      PROVE  WrapperDef(v) = WrapperDef(w)
  <2>1. PICK x : v[1] = <<x, "Operation">> /\ WrapperDef(v).id = <<"type", x, "Operation">>
    BY AuxIds
  <2>2. PICK y : w[1] = <<y, "Operation">> /\ WrapperDef(w).id = <<"type", y, "Operation">>
    BY AuxIds
  <2>3. <<"type", x, "Operation">> = <<"type", y, "Operation">>
    BY <1>3, <2>1, <2>2, Zenon
  <2>4. x = y
    BY <2>3
  <2>5. v[1] = w[1]
    BY <2>1, <2>2, <2>4
  <2>6. v[2] = w[2]
    BY <2>5 DEF OneTypeEach
  <2> QED
    BY <2>5, <2>6 DEF WrapperDef
<1>4. ASSUME NEW p \in iters, NEW q \in iters, IterDef(p).id = IterDef(q).id
      PROVE  IterDef(p) = IterDef(q)
  <2>1. <<"type", p[1]>> = <<"type", q[1]>>
    BY <1>4, AuxIds, Zenon
  <2>2. p[1] = q[1]
    BY <2>1
  <2>3. p[2] = q[2]
    BY <2>2 DEF OneTypeEach
  <2> QED
    BY <2>2, <2>3 DEF IterDef
<1>5. ASSUME NEW w \in wrappers, NEW p \in iters, WrapperDef(w).id = IterDef(p).id PROVE FALSE
  <2>1. PICK x : WrapperDef(w).id = <<"type", x, "Operation">>
    BY AuxIds
  <2>2. IterDef(p).id = <<"type", p[1]>>
    BY AuxIds
  <2> DEFINE y == p[1]
             a == WrapperDef(w).id
  <2>3. a = <<"type", x, "Operation">> /\ a = <<"type", y>>
    BY <1>5, <2>1, <2>2
  <2> HIDE DEF y, a
  <2>4. Len(a) = 3 /\ Len(a) = 2
    <3>1. Len(<<"type", x, "Operation">>) = 3 /\ Len(<<"type", y>>) = 2
      OBVIOUS
    <3> QED
      BY <2>3, <3>1, Zenon
  <2> QED
    BY <2>4
<1> QED
  BY <1>2, <1>3, <1>4, <1>5 DEF AuxDefs

(* Nothing has been written twice. *)
LEMMA WrittenOnce ==
  ASSUME OnceInv, EntriesInv, OptionsInv, MetaInv, OneTypeEach, NamedApart(request),
         Next, pc' \notin Stopped
  PROVE  /\ \A d, e \in Written' : d.id = e.id => d = e
         /\ \A d \in Written' :
               ~Coming(request', pc', current', NamesOf(Range1(todo')), lanes', d.id)
<1>0. /\ \A d, e \in Written : d.id = e.id => d = e
      /\ \A d \in Written : ~Ahead(d.id)
      /\ LoopsInv
  BY StoppedForGood DEF OnceInv
<1>a. request' = request
  BY RequestKept
<1>1. ~(SnippetFails \/ InterfaceFails \/ TransportFails \/ ExampleFails)
  BY DEF SnippetFails, InterfaceFails, TransportFails, ExampleFails, Fail, Stopped
<1>2. CASE Written' = Written
  <2> DEFINE P(id) == Coming(request', pc', current', NamesOf(Range1(todo')), lanes', id)
  <2>1. \A id : P(id) => Ahead(id)
    BY <1>0, AheadLater
  <2> HIDE DEF P
  <2>2. \A d \in Written' : ~P(d.id)
    BY <1>0, <1>2, <2>1
  <2> QED
    BY <1>0, <1>2, <2>2 DEF P
<1>3. CASE GenAndCommitHelpers
  BY <1>0, <1>3, StillOnce, HelpersWritten, HelpersOnce
<1>4. CASE InterfaceMethod
  <2> DEFINE D == MethodDefs("interface", Service, Head(todo), InterfaceSignature(Head(todo)))
  <2>1. /\ pc \in InClient /\ pc' = pc /\ current' = current /\ todo # <<>> /\ todo' = Tail(todo)
        /\ pc = "interface"
    BY <1>4 DEF InterfaceMethod, InClient
  <2>2. /\ \A d \in D : Ahead(d.id)
        /\ \A d \in D : ~Coming(request', pc', current', NamesOf(Range1(todo')), lanes', d.id)
        /\ \A d, e \in D : d.id = e.id => d = e
    BY <1>0, <1>a, <2>1, MethodOnce
  <2>3. Written' = Written \cup D
    BY <1>4, InterfaceWritten
  <2> HIDE DEF D
  <2> QED
    BY <1>0, <2>2, <2>3, StillOnce
<1>5. CASE WrapperMethod
  <2> DEFINE D == MethodDefs("client", Service, Head(todo), ClientSignature(Head(todo)))
  <2>1. /\ pc \in InClient /\ pc' = pc /\ current' = current /\ todo # <<>> /\ todo' = Tail(todo)
        /\ pc = "wrappers"
    BY <1>5 DEF WrapperMethod, InClient, Stopped
  <2>2. /\ \A d \in D : Ahead(d.id)
        /\ \A d \in D : ~Coming(request', pc', current', NamesOf(Range1(todo')), lanes', d.id)
        /\ \A d, e \in D : d.id = e.id => d = e
    BY <1>0, <1>a, <2>1, MethodOnce
  <2>3. Written' = Written \/ Written' = Written \cup D
    BY <1>5, WrapperWritten
  <2> HIDE DEF D
  <2> QED
    BY <1>0, <1>2, <2>2, <2>3, StillOnce
<1>6. CASE MakeTransports
  BY <1>0, <1>6, StillOnce, ConstructorsWritten, ConstructorsOnce
<1>7. CASE TransportMethod
  <2> DEFINE D == {LaneDef(Head(todo))}
  <2>1. /\ \A d \in D : Ahead(d.id)
        /\ \A d \in D : ~Coming(request', pc', current', NamesOf(Range1(todo')), lanes', d.id)
        /\ \A d, e \in D : d.id = e.id => d = e
    BY <1>0, <1>7, LaneOnce
  <2>2. Written' = Written \cup D
    BY <1>7, TransportWritten
  <2> HIDE DEF D
  <2> QED
    BY <1>0, <2>1, <2>2, StillOnce
<1>8. CASE GenOperationBuilders
  BY <1>0, <1>8, StillOnce, BuildersWritten, BuildersOnce
<1>9. CASE CustomOperationType
  BY <1>0, <1>2, <1>9, StillOnce, OperationsWritten, OperationsOnce
<1>10. CASE GenAuxFile
  BY <1>0, <1>10, StillOnce, AuxWritten, AuxOnce
<1> QED
  BY <1>1, <1>2, <1>3, <1>4, <1>5, <1>6, <1>7, <1>8, <1>9, <1>10, QuietWrites, StepsOfNext

-------------------------------------------------------------------------------
(* Committing a file: what is in it is its own, and no other file of its name
   defines anything. *)
FilesApart(fs) ==
  /\ \A f \in fs : \A d \in f.defs : f.name = Owner(d.id)
  /\ \A f, g \in fs : f.name = g.name /\ f.defs # {} /\ g.defs # {} => f = g

LEMMA CommittedApart ==
  ASSUME FilesApart(files), NEW name, NEW text, files' = files \cup {File(name, text)},
         \A d \in text.defs : name = Owner(d.id),
         \A f \in files : f.name = name => f.defs = {} \/ text.defs = {}
  PROVE  FilesApart(files')
<1> DEFINE new == File(name, text)
<1>1. new.name = name /\ new.defs = text.defs
  BY DEF File
<1> HIDE DEF new
<1>2. files' = files \cup {new}
  BY DEF new
<1> QED
  BY <1>1, <1>2 DEF FilesApart

LEMMA EmptyApart ==
  ASSUME FilesApart(files), NEW name, NEW text, files' = files \cup {File(name, text)},
         text.defs = {}
  PROVE  FilesApart(files')
BY CommittedApart

(* A file whose definitions are all still to come has not been committed. *)
LEMMA NotCommitted ==
  ASSUME FilesApart(files), \A d \in Written : ~Ahead(d.id),
         NEW name, \A id : Owner(id) = name => Ahead(id),
         NEW f \in files, f.name = name
  PROVE  f.defs = {}
<1> SUFFICES ASSUME NEW d \in f.defs PROVE FALSE
  OBVIOUS
<1>1. d \in Written
  BY DEF Written, AllDefs
<1>2. Owner(d.id) = name
  BY DEF FilesApart
<1> QED
  BY <1>1, <1>2

LEMMA ClientOwners ==
  /\ \A receiver \in {"interface", "client"} : \A s, m, sig :
       \A d \in MethodDefs(receiver, s, m, sig) : Owner(d.id) = <<"client", s.name>>
  /\ \A d \in ConstructorDefs : Owner(d.id) = <<"client", Service.name>>
<1>1. ASSUME NEW receiver \in {"interface", "client"}, NEW s, NEW m, NEW sig,
             NEW d \in MethodDefs(receiver, s, m, sig)
      PROVE  Owner(d.id) = <<"client", s.name>>
  <2>1. d.id[1] = receiver /\ d.id[2] = s.name
    BY MethodIds
  <2>2. receiver \in Receivers \cup {"New"}
    BY DEF Receivers
  <2> QED
    BY <2>1, <2>2, OwnersAre
<1>2. ASSUME NEW d \in ConstructorDefs
      PROVE  Owner(d.id) = <<"client", Service.name>>
  <2> DEFINE name == Service.name
  <2>1. PICK i : d = Def(<<"New", name, transports[i]>>, <<"func">>, i)
    BY DEF ConstructorDefs, New
  <2> HIDE DEF name
  <2>2. d.id[1] = "New" /\ d.id[2] = name
    BY <2>1 DEF Def
  <2> QED
    BY <2>2, OwnersAre DEF name
<1> QED
  BY <1>1, <1>2

LEMMA LaneOwner ==
  ASSUME MetaInv, lanes # <<>>, NEW m
  PROVE  Owner(LaneDef(m).id) = <<"client", Service.name>>
<1> DEFINE t == Head(lanes)
           name == Service.name
           x == m.name
           id == LaneDef(m).id
<1>1. t \in {"grpc", "rest"}
  BY RestOfLoop DEF MetaInv
<1>2. id = <<t, name, x>>
  BY DEF LaneDef, Def
<1> HIDE DEF t, name, x, id
<1>3. id[1] \in Receivers \cup {"New"} /\ id[2] = name
  BY <1>1, <1>2 DEF Receivers
<1> QED
  BY <1>3, OwnersAre DEF name, id

LEMMA BuilderOwners ==
  ASSUME EntriesInv, OptionsInv, pc \in Inside
  PROVE  \A d \in BuilderDefs(Service) : Owner(d.id) = <<"client", Service.name>>
<1> DEFINE s == Service
           name == s.name
           lros == {i \in DOMAIN s.methods : <<s.name, s.methods[i].name>> \in wrapped}
<1>1. BuilderDefs(s) = {Def(<<t, s.name>> \o OpName(s.methods[i]), <<"byName">>, i) :
                          i \in lros, t \in Range1(transports)}
  BY DEF BuilderDefs
<1>2. Range1(transports) \subseteq {"grpc", "rest"}
  <2>1. transports \in Seq({"grpc", "rest"})
    BY TransportsAreKnown DEF EntriesInv
  <2> QED
    BY <2>1 DEF Range1
<1> HIDE DEF lros, s, name
<1> SUFFICES ASSUME NEW d \in BuilderDefs(s) PROVE Owner(d.id) = <<"client", name>>
  BY DEF s, name
<1>3. PICK i \in lros, t \in Range1(transports) :
         d = Def(<<t, s.name>> \o OpName(s.methods[i]), <<"byName">>, i)
  BY <1>1
<1>4. d.id = <<t, name>> \o OpName(s.methods[i])
  BY <1>3 DEF Def, name
<1> DEFINE x == s.methods[i].name
<1>5. d.id = <<t, name, x, "Operation">>
  BY <1>4, ByNameIds, Zenon
<1> HIDE DEF x
<1>6. d.id[1] \in Receivers \cup {"New"} /\ d.id[2] = name
  BY <1>2, <1>5 DEF Receivers
<1> QED
  BY <1>6, OwnersAre

(* Steps that leave the files alone, or add one without definitions. *)
LEMMA QuietFiles ==
  ASSUME FilesApart(files), QuietStep
  PROVE  FilesApart(files')
<1>1. CASE files' = files
  BY <1>1 DEF FilesApart
<1>2. ASSUME NEW name, NEW text, files' = files \cup {File(name, text)}, text.defs = {}
      PROVE  FilesApart(files')
  BY <1>2, EmptyApart
<1>3. \A t, R : Printed(Reset(t), {}, R).defs = {} /\ NoText.defs = {} /\ Reset(t).defs = {}
  BY FreshlyPrinted DEF NoText, Reset
<1>4. CASE GenSnippet
  BY <1>1, <1>2, <1>3, <1>4 DEF GenSnippet
<1>5. CASE GenExampleFile
  BY <1>2, <1>3, <1>5 DEF GenExampleFile
<1>6. CASE GenExampleIteratorFile
  BY <1>2, <1>3, <1>6 DEF GenExampleIteratorFile
<1>7. CASE GenSnippetMetadata
  BY <1>1, <1>2, <1>3, <1>7 DEF GenSnippetMetadata
<1>8. CASE GenDocFile
  BY <1>2, <1>3, <1>8 DEF GenDocFile
<1>9. CASE GenGapicMetadataFile
  BY <1>1, <1>2, <1>3, <1>9 DEF GenGapicMetadataFile
<1>10. CASE NextService \/ SnippetsDone \/ StartClient \/ InterfaceDone \/ TransportDone
  BY <1>1, <1>10 DEF NextService, SnippetsDone, StartClient, InterfaceDone, TransportDone
<1> QED
  BY <1>4, <1>5, <1>6, <1>7, <1>8, <1>9, <1>10 DEF QuietStep

(* The files of the package whose names are fixed. *)
LEMMA HelpersApart ==
  ASSUME FilesApart(files), \A d \in Written : ~Ahead(d.id), GenAndCommitHelpers
  PROVE  FilesApart(files')
<1>1. pc = "helpers" /\ files' = files \cup {File(<<"helpers">>, buffer')}
  BY DEF GenAndCommitHelpers
<1>2. buffer'.defs = HelperDefs
  BY FreshlyPrinted DEF GenAndCommitHelpers, HelperDefs
<1>3. \A d \in HelperDefs : d.id[1] = "func"
  BY DEF HelperDefs, Def, Helper
<1>4. \A d \in buffer'.defs : Owner(d.id) = <<"helpers">>
  BY <1>2, <1>3, OwnersAre
<1>5. \A id : Owner(id) = <<"helpers">> => Ahead(id)
  BY <1>1, OwnersAre DEF Ahead, Coming
<1>6. \A f \in files : f.name = <<"helpers">> => f.defs = {}
  BY <1>5, NotCommitted
<1> QED
  BY <1>1, <1>4, <1>6, CommittedApart

LEMMA OperationsApart ==
  ASSUME FilesApart(files), \A d \in Written : ~Ahead(d.id), CustomOperationType
  PROVE  FilesApart(files')
<1>1. CASE files' = files
  BY <1>1 DEF FilesApart
<1>2. CASE files' # files
  <2>1. /\ pc = "operations" /\ files' = files \cup {File(<<"operations">>, buffer')}
        /\ buffer' = Printed(Reset(buffer), OperationDefs, {})
    BY <1>2 DEF CustomOperationType, OperationDefs
  <2>2. buffer'.defs = OperationDefs
    BY <2>1, FreshlyPrinted
  <2>3. \A d \in OperationDefs : d.id[1] = "handle" \/ d.id = <<"type", "Operation">>
    BY DEF OperationDefs, Def
  <2>4. \A d \in buffer'.defs : Owner(d.id) = <<"operations">>
    BY <2>2, <2>3, OwnersAre
  <2>5. \A id : Owner(id) = <<"operations">> => Ahead(id)
    BY <2>1, OwnersAre DEF Ahead, Coming
  <2>6. \A f \in files : f.name = <<"operations">> => f.defs = {}
    BY <2>5, NotCommitted
  <2> QED
    BY <2>1, <2>4, <2>6, CommittedApart
<1> QED
  BY <1>1, <1>2

LEMMA AuxApart ==
  ASSUME FilesApart(files), \A d \in Written : ~Ahead(d.id), MetaInv, LoopsInv, GenAuxFile
  PROVE  FilesApart(files')
<1>1. pc = "aux" /\ files' = files \cup {File(<<"auxiliary">>, buffer')}
  BY DEF GenAuxFile
<1>2. buffer'.defs = AuxDefs
  BY FreshlyPrinted DEF GenAuxFile, AuxDefs
<1>3. \A d \in buffer'.defs : Owner(d.id) = <<"auxiliary">>
  BY <1>2, AuxIds, OwnersAre
<1>4. \A id : Owner(id) = <<"auxiliary">> => Ahead(id)
  BY <1>1 DEF Ahead, Coming
<1>5. \A f \in files : f.name = <<"auxiliary">> => f.defs = {}
  BY <1>4, NotCommitted
<1> QED
  BY <1>1, <1>3, <1>5, CommittedApart

(* The file of a client. *)
LEMMA ClientApart ==
  ASSUME FilesInv, EntriesInv, OptionsInv, GenOperationBuilders
  PROVE  FilesApart(files')
<1>1. /\ pc = "transport" /\ pc \in Inside
      /\ files' = files \cup {File(<<"client", Service.name>>, buffer')}
      /\ buffer' = Printed(buffer, BuilderDefs(Service), {})
  BY DEF GenOperationBuilders, Inside
<1>2. buffer'.defs = buffer.defs \cup BuilderDefs(Service)
  BY <1>1 DEF Printed
<1>3. /\ FilesApart(files)
      /\ \A d \in buffer.defs : Owner(d.id) = <<"client", Service.name>>
      /\ \A d \in AllDefs : Owner(d.id) # <<"client", Service.name>>
  BY <1>1 DEF FilesInv, FilesApart, InClient
<1>4. \A d \in buffer'.defs : Owner(d.id) = <<"client", Service.name>>
  BY <1>1, <1>2, <1>3, BuilderOwners
<1>5. \A f \in files : f.name = <<"client", Service.name>> => f.defs = {}
  BY <1>3 DEF AllDefs, FilesApart
<1> QED
  BY <1>1, <1>3, <1>4, <1>5, CommittedApart

(* The part of FilesInv about the client being printed. *)
ClientOpen ==
  /\ \A d \in buffer.defs : Owner(d.id) = <<"client", Service.name>>
  /\ \A d \in AllDefs : Owner(d.id) # <<"client", Service.name>>

LEMMA PrintedOpen ==
  ASSUME ClientOpen, NEW S, NEW R, buffer' = Printed(buffer, S, R), files' = files,
         Service' = Service, \A d \in S : Owner(d.id) = <<"client", Service.name>>
  PROVE  ClientOpen'
<1>1. buffer'.defs = buffer.defs \cup S
  BY DEF Printed
<1> QED
  BY <1>1 DEF ClientOpen, AllDefs

LEMMA KeptOpen ==
  ASSUME ClientOpen, buffer' = buffer, files' = files, Service' = Service
  PROVE  ClientOpen'
BY DEF ClientOpen, AllDefs

LEMMA StartedOpen ==
  ASSUME \A d \in Written : ~Ahead(d.id), EntriesInv, NamedApart(request), StartClient
  PROVE  ClientOpen'
<1>1. /\ pc = "client" /\ request' = request /\ current' = current /\ files' = files
      /\ buffer' = Reset(buffer)
  BY DEF StartClient
<1>2. Service' = Service
  BY <1>1, SameService
<1>3. buffer'.defs = {}
  BY <1>1 DEF Reset, NoText
<1>4. ASSUME NEW id, Owner(id) = <<"client", Service.name>>
      PROVE  Ahead(id)
  <2>1. id[1] \in Receivers \cup {"New"} /\ id[2] = Service.name
    BY <1>4, OwnersAre
  <2>2. ComingHere(pc, NamesOf(Range1(todo)), lanes, id)
    BY <1>1 DEF ComingHere
  <2> QED
    BY <1>1, <2>1, <2>2, ComingOfService DEF Ahead
<1>5. \A d \in AllDefs : Owner(d.id) # <<"client", Service.name>>
  BY <1>4 DEF Written
<1> QED
  BY <1>1, <1>2, <1>3, <1>5 DEF ClientOpen, AllDefs

LEMMA OpenStep ==
  ASSUME FilesInv, \A d \in Written : ~Ahead(d.id), EntriesInv, MetaInv,
         NamedApart(request), Next, pc' \in InClient
  PROVE  ClientOpen'
<1>1. pc \in InClient => ClientOpen
  BY DEF FilesInv, ClientOpen
<1>2. request' = request
  BY RequestKept
<1>3. current' = current => Service' = Service
  BY <1>2, SameService
<1>4. CASE StartClient
  BY <1>4, StartedOpen
<1>5. CASE InterfaceMethod
  <2>1. /\ pc \in InClient /\ current' = current /\ files' = files
        /\ buffer' = Printed(buffer, MethodDefs("interface", Service, Head(todo),
                                                InterfaceSignature(Head(todo))), {})
    BY <1>5 DEF InterfaceMethod, InClient, InterfaceSignature
  <2> QED
    BY <1>1, <1>3, <2>1, PrintedOpen, ClientOwners
<1>6. CASE WrapperMethod
  <2>1. /\ pc \in InClient /\ current' = current /\ files' = files
        /\ \/ buffer' = buffer
           \/ buffer' = Printed(buffer, MethodDefs("client", Service, Head(todo),
                                                   ClientSignature(Head(todo))), {})
    BY <1>6 DEF WrapperMethod, InClient, ClientSignature
  <2> QED
    BY <1>1, <1>3, <2>1, PrintedOpen, KeptOpen, ClientOwners
<1>7. CASE MakeTransports
  <2>1. /\ pc \in InClient /\ current' = current /\ files' = files
        /\ buffer' = Printed(buffer, ConstructorDefs,
                       UNION {ConstructorRefs(Service, t) : t \in Range1(transports)})
    BY <1>7 DEF MakeTransports, InClient, ConstructorDefs
  <2> QED
    BY <1>1, <1>3, <2>1, PrintedOpen, ClientOwners
<1>8. CASE TransportMethod
  <2> DEFINE S == {LaneDef(Head(todo))}
             R == TransportRefs(Head(lanes), Kind(TransportOrder, Head(todo)), Service, Head(todo))
  <2>1. /\ pc \in InClient /\ current' = current /\ files' = files /\ lanes # <<>>
        /\ buffer' = Printed(buffer, S, R)
    BY <1>8 DEF TransportMethod, InClient, LaneDef
  <2>2. \A d \in S : Owner(d.id) = <<"client", Service.name>>
    BY <2>1, LaneOwner
  <2> HIDE DEF S, R
  <2> QED
    BY <1>1, <1>3, <2>1, <2>2, PrintedOpen
<1>9. CASE InterfaceDone \/ TransportDone
  <2>1. pc \in InClient /\ current' = current /\ files' = files /\ buffer' = buffer
    BY <1>9 DEF InterfaceDone, TransportDone, InClient
  <2> QED
    BY <1>1, <1>3, <2>1, KeptOpen
<1>10. pc' \notin Stopped
  BY DEF InClient, Stopped
<1> QED
  BY <1>4, <1>5, <1>6, <1>7, <1>8, <1>9, <1>10, LoopSteps

LEMMA FilesStep ==
  ASSUME OnceInv, EntriesInv, OptionsInv, MetaInv, NamedApart(request), Next, pc' \notin Stopped
  PROVE  FilesInv'
<1>1. FilesInv /\ LoopsInv /\ \A d \in Written : ~Ahead(d.id)
  BY StoppedForGood DEF OnceInv
<1>2. FilesApart(files)
  BY <1>1 DEF FilesInv, FilesApart
<1>6. pc' \in InClient => ClientOpen'
  BY <1>1, OpenStep
<1> SUFFICES FilesApart(files')
  BY <1>6 DEF FilesInv, FilesApart, ClientOpen
<1>3. ~(SnippetFails \/ InterfaceFails \/ TransportFails \/ ExampleFails)
  BY DEF SnippetFails, InterfaceFails, TransportFails, ExampleFails, Fail, Stopped
<1>4. CASE InterfaceMethod \/ WrapperMethod \/ MakeTransports \/ TransportMethod
  <2>1. files' = files
    BY <1>4 DEF InterfaceMethod, WrapperMethod, MakeTransports, TransportMethod
  <2> QED
    BY <1>2, <2>1 DEF FilesApart
<1>5. CASE QuietStep
  BY <1>2, <1>5, QuietFiles
<1>a. CASE GenAndCommitHelpers
  BY <1>1, <1>2, <1>a, HelpersApart
<1>b. CASE CustomOperationType
  BY <1>1, <1>2, <1>b, OperationsApart
<1>c. CASE GenAuxFile
  BY <1>1, <1>2, <1>c, AuxApart
<1>d. CASE GenOperationBuilders
  BY <1>1, <1>d, ClientApart
<1> QED
  BY <1>3, <1>4, <1>5, <1>a, <1>b, <1>c, <1>d, StepsOfNext

-------------------------------------------------------------------------------
LEMMA OnceInvInit == Init => OnceInv
<1> SUFFICES ASSUME Init PROVE OnceInv
  OBVIOUS
<1>1. pc = "helpers" /\ files = {} /\ iters = {}
  BY DEF Init
<1>2. Written = {}
  BY <1>1 DEF Written, AllDefs, InClient
<1> QED
  BY <1>1, <1>2 DEF OnceInv, LoopsInv, FilesInv, Stopped, InClient

LEMMA OnceInvStays ==
  ASSUME OnceInv, UNCHANGED vars
  PROVE  OnceInv'
<1>1. /\ request' = request /\ pc' = pc /\ current' = current /\ todo' = todo /\ lanes' = lanes
      /\ buffer' = buffer /\ iters' = iters /\ files' = files
  BY DEF vars, cfgVars, loopVars, auxVars
<1>2. Written' = Written
  BY <1>1 DEF Written, AllDefs
<1>3. MethodSet(Service)' = MethodSet(Service) /\ Service' = Service
  BY <1>1, SameService
<1>4. LoopsInv = LoopsInv'
  BY <1>1, <1>3 DEF LoopsInv
<1>5. FilesInv = FilesInv'
  BY <1>1, <1>3 DEF FilesInv, AllDefs
<1> DEFINE A(id) == Coming(request, pc, current, NamesOf(Range1(todo)), lanes, id)
           B(id) == Coming(request', pc', current', NamesOf(Range1(todo')), lanes', id)
<1>6. \A id : A(id) = B(id)
  BY <1>1
<1>7. OnceInv = IF pc \in Stopped THEN files = {}
                ELSE /\ \A d, e \in Written : d.id = e.id => d = e
                     /\ \A d \in Written : ~A(d.id)
                     /\ LoopsInv /\ FilesInv
  BY DEF OnceInv, Ahead
<1>8. OnceInv' = IF pc' \in Stopped THEN files' = {}
                 ELSE /\ \A d, e \in Written' : d.id = e.id => d = e
                      /\ \A d \in Written' : ~B(d.id)
                      /\ LoopsInv' /\ FilesInv'
  BY DEF OnceInv, Ahead
<1> HIDE DEF A, B
<1> QED
  BY <1>1, <1>2, <1>4, <1>5, <1>6, <1>7, <1>8

LEMMA OnceInvStep ==
  ASSUME OnceInv, EntriesInv, EntriesInv', OptionsInv, MetaInv, OneTypeEach,
         NamedApart(request), [Next]_vars
  PROVE  OnceInv'
<1>1. CASE UNCHANGED vars
  BY <1>1, OnceInvStays
<1>2. CASE Next /\ pc' \in Stopped
  <2>1. pc' # "panicked"
    BY DEF EntriesInv, EntriesExist
  <2>2. files' = {}
    BY <1>2, <2>1 DEF Stopped, Next, GenService, GenPackage, NextService, GenSnippet,
       SnippetFails, SnippetsDone, StartClient, InterfaceMethod, InterfaceFails, InterfaceDone,
       WrapperMethod, MakeTransports, TransportMethod, TransportFails, TransportDone,
       GenOperationBuilders, GenExampleFile, ExampleFails, GenExampleIteratorFile,
       GenAndCommitHelpers, GenSnippetMetadata, GenDocFile, GenGapicMetadataFile,
       CustomOperationType, GenAuxFile, Fail
  <2> QED
    BY <1>2, <2>2 DEF OnceInv
<1>3. CASE Next /\ pc' \notin Stopped
  <2>1. /\ \A d, e \in Written' : d.id = e.id => d = e
        /\ \A d \in Written' :
              ~Coming(request', pc', current', NamesOf(Range1(todo')), lanes', d.id)
    BY <1>3, WrittenOnce
  <2>2. LoopsInv' /\ FilesInv'
    <3>1. LoopsInv
      BY <1>3, StoppedForGood DEF OnceInv
    <3> QED
      BY <1>3, <3>1, LoopsStep, FilesStep
  <2> QED
    BY <1>3, <2>1, <2>2 DEF OnceInv, Ahead
<1> QED
  BY <1>1, <1>2, <1>3

LEMMA OnceInvImplies == OnceInv => DefinedOnce
<1> SUFFICES ASSUME OnceInv PROVE DefinedOnce
  OBVIOUS
<1>1. CASE pc \in Stopped
  BY <1>1 DEF OnceInv, DefinedOnce, AllDefs
<1>2. CASE pc \notin Stopped
  <2>1. \A d, e \in AllDefs : d.id = e.id => d = e
    BY <1>2 DEF OnceInv, Written
  <2>2. ASSUME NEW f \in files, NEW g \in files, NEW d \in f.defs, NEW e \in g.defs, d.id = e.id
        PROVE  f = g
    BY <1>2, <2>2 DEF OnceInv, FilesInv
  <2> QED
    BY <2>1, <2>2 DEF DefinedOnce
<1> QED
  BY <1>1, <1>2

(* Nothing is defined twice in a package, in one file or in two: buffers are
   reset between files, every loop of gen() meets a service, a transport and a
   method once, an IAM mixin that a service redefines is left out of every
   client, and what auxiliary.go defines it has collected once for each name.
   That no service redefines a method of the other two mixins is assumed
   (NamedApart): their methods are generated whatever the services declare. *)
THEOREM NothingDefinedTwice ==
  ASSUME \A r \in Requests : NamedApart(r)
  PROVE  Spec => []DefinedOnce
<1>1. EntriesInv => NamedApart(request)
  BY DEF EntriesInv
<1>2. OnceInv /\ EntriesInv /\ EntriesInv' /\ OptionsInv /\ MetaInv /\ OneTypeEach /\ [Next]_vars
        => OnceInv'
  BY <1>1, OnceInvStep
<1>3. MetaInv /\ [Next]_vars /\ EntriesInv /\ OptionsInv => MetaInv'
  BY MetaInvStep
<1>4. Spec => []OneTypeEach
  BY AuxiliaryTypesAreUnique
<1> QED
  BY <1>2, <1>3, <1>4, OnceInvInit, OnceInvImplies, EntriesInvInit, EntriesInvStep,
     OptionsInvInit, OptionsInvStep, MetaInvInit, PTL DEF Spec

-------------------------------------------------------------------------------
(* What a package must be like for its uses to meet their definitions.  REST
   alone takes bindings in every service (the run generator_rest_only shows
   why); iterators of one name have one element type (iterTypeOf keeps the
   first); Empty has no fields to page through; custom operations are unary,
   have no operation_info, and name a service of the package, the same
   throughout a service that has any. *)
AllMethodsIn(r) == UNION {MethodsIn(r, s) : s \in Range1(r.services)}
OpServiceIn(r, s) ==
  LET ms == {i \in DOMAIN s.methods : s.methods[i].opServ # "none"}
  IN  IF ms = {} \/ ~r.customOp THEN "none"
      ELSE s.methods[CHOOSE i \in ms : \A j \in ms : i <= j].opServ
HandlesIn(r) == {OpServiceIn(r, s) : s \in Range1(r.services)} \ {"none"}
Linkable(r) ==
  /\ r.transports = <<"rest">> => \A s \in Range1(r.services) : HasRESTMethod(s)
  /\ \A m, n \in AllMethodsIn(r) :
        IsPaged(m) /\ IsPaged(n) /\ m.page.iter = n.page.iter => m.page.elem = n.page.elem
  /\ \A m \in AllMethodsIn(r) : IsPaged(m) => m.out # "Empty"
  /\ \A m \in AllMethodsIn(r) : CustomOpIn(r, m) =>
        ~Streaming(m) /\ m.info.response \in {"none", "Empty"}
  /\ \A s \in Range1(r.services) :
        /\ \A m \in Range1(s.methods) : CustomOpIn(r, m) => m.opServ # "none"
        /\ \A m \in Range1(s.methods) : r.customOp /\ m.opServ # "none" =>
              /\ m.opServ = OpServiceIn(r, s)
              /\ \E u \in Range1(r.services) : u.name = m.opServ

(* What a file may use before it is defined: everything the rest of the run
   will define. *)
HelpersIn(r) ==
  {"getVersionClient", "DefaultAuthScopes", "clientHook"}
    \cup (IF "rest" \in Range1(r.transports) THEN RESTHelpers ELSE {})
    \cup (IF "grpc" \in Range1(r.transports) THEN {"executeRPC"} ELSE {})
HelperRef(r, ref) == \E f \in HelpersIn(r) : ref = Ref(Helper(f), <<"func">>)
ConstructorRef(r, ref) ==
  \E s \in Range1(r.services) : \E t \in OwnTransports(r, s) : ref = Ref(New(s, t), <<"func">>)
MethodRef(r, ref) ==
  \E s \in Range1(r.services) : \E m \in MethodsIn(r, s) :
    ref = Ref(ClientMethod(s, m), <<Call(r, s, m)[1]>>)
WaitRef(r, ref) ==
  \E s \in Range1(r.services) : \E m \in MethodsIn(r, s) :
    IsLRO(m) /\ ref = Ref(<<"type">> \o OpName(m), <<"type", WaitShape(m)>>)
CustomOpRef(r, ref) ==
  /\ r.customOp
  /\ \/ ref \in {Ref(<<"type", "Operation">>, <<"type">>),
                 Ref(<<"type", "Operation">>, <<"type", "error">>)}
     \/ \E h \in HandlesIn(r) : ref = Ref(<<"handle", h>>, <<"type">>)
Promised(r, ref) ==
  \/ HelperRef(r, ref) \/ ConstructorRef(r, ref) \/ MethodRef(r, ref)
  \/ WaitRef(r, ref) \/ CustomOpRef(r, ref)
IterRef(p) == Ref(<<"type", p[1]>>, <<"iterator", p[2]>>)
WrapperRef(w) == Ref(<<"type">> \o w[1], <<"type">>)
Served(D, its, ws, r, ref) ==
  \/ \E d \in D : Fits(ref, d)
  \/ \E p \in its : ref = IterRef(p)
  \/ \E w \in ws : ref = WrapperRef(w)
  \/ Promised(r, ref)

(* What has been collected: iterators of the request's methods, complete
   operation_infos, and one for each wrapped method. *)
ItersCollected(its, r) ==
  \A p \in its : \E m \in AllMethodsIn(r) : IsPaged(m) /\ p = <<m.page.iter, m.page.elem>>
WrappersCollected(ws, ps, r) ==
  \A p \in ps : \E s \in Range1(r.services) : \E m \in MethodsIn(r, s) :
    IsLRO(m) /\ p = <<s.name, m.name>> /\ <<OpName(m), m.info>> \in ws
Spelling(id) == id = <<id[1], id[2], id[3]>> \/ id = <<id[1], id[2], id[3], id[4]>>
Spelled(D) == \A d \in D : d.id[1] \in Receivers => Spelling(d.id)
CollectedInv ==
  /\ ItersCollected(iters, request)
  /\ \A w \in wrappers : w[2].response # "none"
  /\ WrappersCollected(wrappers, wrapped, request)
  /\ Spelled(Written)

(* What has been written by now, of the package and of each service. *)
HelperDefsIn(r) == {Def(Helper(f), <<"func">>, 0) : f \in HelpersIn(r)}
Constructed(D, r, s) ==
  \A t \in OwnTransports(r, s) : \E d \in D : d.id = New(s, t) /\ d.sig = <<"func">>
AllWrapped(ws, r, s) == \A m \in MethodsIn(r, s) : IsLRO(m) => <<s.name, m.name>> \in ws
PackageInv ==
  /\ pc # "helpers" => HelperDefsIn(request) \subseteq Written
  /\ pc \in {"aux", "done"} /\ request.customOp => OperationDefs \subseteq Written
  /\ pc = "done" => AuxDefs \subseteq Written
  /\ \A i \in DOMAIN Services :
        /\ i < current \/ (i = current /\ pc \in AfterWrappers) =>
              Constructed(Written, request, Services[i])
        /\ i < current \/ (i = current /\ pc \in AfterClient) =>
              AllWrapped(wrapped, request, Services[i])

LinkInv ==
  pc \notin Stopped =>
    /\ \A ref \in WrittenRefs : Served(Written, iters, wrappers, request, ref)
    /\ CollectedInv
    /\ PackageInv
-------------------------------------------------------------------------------
(* The steps that use something, and what they use; the others add nothing. *)
SnippetUses(m) == ExampleRefs(Service, m)
ExampleUses ==
  {Ref(New(Service, t), <<"func">>) : t \in Range1(transports)}
    \cup UNION {ExampleRefs(Service, m) : m \in {n \in MethodSet(Service) : HasExample(n)}}
IterExampleUses ==
  UNION {{Ref(New(Service, transports[1]), <<"func">>),
          Ref(ClientMethod(Service, m), <<"iterator">>)} :
            m \in {n \in MethodSet(Service) : IsPaged(n)}}
ConstructorUses == UNION {ConstructorRefs(Service, t) : t \in Range1(transports)}
LaneUses(m) == TransportRefs(Head(lanes), Kind(TransportOrder, m), Service, m)
MetadataUses == {Ref(<<r[2], r[1], r[3]>>, <<>>) : r \in metadata}

LEMMA RefsWritten ==
  ASSUME Next, pc' \notin Stopped
  PROVE  \/ WrittenRefs' \subseteq WrittenRefs
         \/ /\ GenSnippet /\ HasExample(Head(todo))
            /\ WrittenRefs' = WrittenRefs \cup SnippetUses(Head(todo))
         \/ MakeTransports /\ WrittenRefs' = WrittenRefs \cup ConstructorUses
         \/ TransportMethod /\ WrittenRefs' = WrittenRefs \cup LaneUses(Head(todo))
         \/ GenExampleFile /\ WrittenRefs' = WrittenRefs \cup ExampleUses
         \/ GenExampleIteratorFile /\ WrittenRefs' = WrittenRefs \cup IterExampleUses
         \/ GenGapicMetadataFile /\ WrittenRefs' = WrittenRefs \cup MetadataUses
<1> USE DEF InClient
<1> DEFINE Nothing == WrittenRefs' \subseteq WrittenRefs
<1>0. ASSUME Writes({}, {}) PROVE Nothing
  BY <1>0 DEF Writes
<1>1. CASE NextService
  BY <1>0, <1>1, NothingWritten DEF NextService
<1>2. CASE GenSnippet
  <2>1. pc = "snippets" /\ pc' = pc
    BY <1>2 DEF GenSnippet
  <2>2. CASE ~HasExample(Head(todo))
    <3>1. files' = files
      BY <1>2, <2>2 DEF GenSnippet
    <3> QED
      BY <1>0, <2>1, <3>1, NothingWritten
  <2>3. CASE HasExample(Head(todo))
    <3>1. /\ files' = files \cup {File(<<"snippet", Service.name, Head(todo).name>>, buffer')}
          /\ buffer' = Printed(Reset(buffer), {}, SnippetUses(Head(todo)))
      BY <1>2, <2>3 DEF GenSnippet, SnippetUses
    <3>2. buffer'.refs = SnippetUses(Head(todo))
      BY <3>1, FreshlyPrinted
    <3>3. WrittenRefs' = WrittenRefs \cup buffer'.refs
      BY <2>1, <3>1, FileWritten DEF Writes
    <3> QED
      BY <1>2, <2>3, <3>2, <3>3
  <2> QED
    BY <2>2, <2>3
<1>3. CASE SnippetsDone
  BY <1>0, <1>3, NothingWritten DEF SnippetsDone
<1>4. CASE StartClient
  BY <1>4 DEF StartClient, Reset, NoText, WrittenRefs, AllRefs
<1>5. CASE InterfaceDone \/ TransportDone
  <2>1. /\ pc \in InClient /\ pc' \in InClient /\ buffer' = buffer /\ files' = files
    BY <1>5 DEF InterfaceDone, TransportDone
  <2> QED
    BY <1>0, <2>1, NothingWritten
<1>6. CASE GenExampleFile
  <2>1. /\ pc \notin InClient /\ pc' \notin InClient
        /\ files' = files \cup {File(<<"example", Service.name>>, buffer')}
    BY <1>6 DEF GenExampleFile
  <2>2. buffer'.refs = ExampleUses
    BY <1>6, FreshlyPrinted DEF GenExampleFile, ExampleUses
  <2> QED
    BY <1>6, <2>1, <2>2, FileWritten DEF Writes
<1>7. CASE GenExampleIteratorFile
  <2>1. /\ pc \notin InClient /\ pc' \notin InClient
        /\ files' = files \cup {File(<<"iterExample", Service.name>>, buffer')}
    BY <1>7 DEF GenExampleIteratorFile
  <2>2. buffer'.refs = IterExampleUses
    BY <1>7, FreshlyPrinted DEF GenExampleIteratorFile, IterExampleUses
  <2> QED
    BY <1>7, <2>1, <2>2, FileWritten DEF Writes
<1>8. CASE GenSnippetMetadata
  <2>1. pc \notin InClient /\ pc' \notin InClient
    BY <1>8 DEF GenSnippetMetadata
  <2>2. CASE files' = files
    BY <1>0, <2>1, <2>2, NothingWritten
  <2>3. CASE files' # files
    <3>1. files' = files \cup {File(<<"snippet_metadata">>, NoText)}
      BY <1>8, <2>3 DEF GenSnippetMetadata
    <3>2. AllRefs' = AllRefs \cup {}
      BY <3>1, Committed DEF NoText
    <3> QED
      BY <2>1, <3>2 DEF WrittenRefs
  <2> QED
    BY <2>2, <2>3
<1>9. CASE GenDocFile
  <2>1. /\ pc \notin InClient /\ pc' \notin InClient
        /\ files' = files \cup {File(<<"doc">>, buffer')} /\ buffer'.refs = {}
    BY <1>9 DEF GenDocFile, Reset, NoText
  <2>2. AllRefs' = AllRefs \cup {}
    BY <2>1, Committed
  <2> QED
    BY <2>1, <2>2 DEF WrittenRefs
<1>10. CASE GenGapicMetadataFile
  <2>1. pc \notin InClient /\ pc' \notin InClient
    BY <1>10 DEF GenGapicMetadataFile
  <2>2. CASE ~request.metadata
    <3>1. files' = files
      BY <1>10, <2>2 DEF GenGapicMetadataFile
    <3> QED
      BY <1>0, <2>1, <3>1, NothingWritten
  <2>3. CASE request.metadata
    <3>1. /\ files' = files \cup {File(<<"gapic_metadata">>, buffer')}
          /\ buffer' = Printed(Reset(buffer), {}, MetadataUses)
      BY <1>10, <2>3 DEF GenGapicMetadataFile, MetadataUses
    <3>2. buffer'.refs = MetadataUses
      BY <3>1, FreshlyPrinted
    <3>3. WrittenRefs' = WrittenRefs \cup buffer'.refs
      BY <2>1, <3>1, FileWritten DEF Writes
    <3> QED
      BY <1>10, <3>2, <3>3
  <2> QED
    BY <2>2, <2>3
<1>11. CASE SnippetFails \/ InterfaceFails \/ TransportFails \/ ExampleFails
  BY <1>11 DEF SnippetFails, InterfaceFails, TransportFails, ExampleFails, Fail, Stopped
<1>12. CASE GenAndCommitHelpers
  <2>1. /\ pc \notin InClient /\ pc' \notin InClient
        /\ files' = files \cup {File(<<"helpers">>, buffer')}
        /\ buffer' = Printed(Reset(buffer), HelperDefs, {})
    BY <1>12 DEF GenAndCommitHelpers, HelperDefs
  <2>2. buffer'.refs = {}
    BY <2>1, FreshlyPrinted
  <2> QED
    BY <2>1, <2>2, FileWritten DEF Writes
<1>13. CASE InterfaceMethod
  <2>1. Writes(MethodDefs("interface", Service, Head(todo), InterfaceSignature(Head(todo))), {})
    BY <1>13, PrintedOn DEF InterfaceMethod, InterfaceSignature
  <2> QED
    BY <2>1 DEF Writes
<1>14. CASE WrapperMethod
  <2>0. pc = "wrappers" /\ pc' = pc /\ files' = files
    BY <1>14 DEF WrapperMethod, Stopped
  <2>1. CASE Skipped(Head(todo))
    <3>1. buffer' = buffer
      BY <1>14, <2>1 DEF WrapperMethod, Skipped
    <3> QED
      BY <1>0, <2>0, <3>1, NothingWritten
  <2>2. CASE ~Skipped(Head(todo))
    <3>1. buffer' = Printed(buffer, MethodDefs("client", Service, Head(todo),
                                               ClientSignature(Head(todo))), {})
      BY <1>14, <2>2 DEF WrapperMethod, Skipped, ClientSignature
    <3>2. Writes(MethodDefs("client", Service, Head(todo), ClientSignature(Head(todo))), {})
      BY <2>0, <3>1, PrintedOn
    <3> QED
      BY <3>2 DEF Writes
  <2> QED
    BY <2>1, <2>2
<1>15. CASE MakeTransports
  <2>1. Writes(ConstructorDefs, ConstructorUses)
    BY <1>15, PrintedOn DEF MakeTransports, ConstructorDefs, ConstructorUses
  <2> QED
    BY <1>15, <2>1 DEF Writes
<1>16. CASE TransportMethod
  <2>0. /\ pc = "transport" /\ pc' = pc /\ files' = files
        /\ buffer' = Printed(buffer, {LaneDef(Head(todo))}, LaneUses(Head(todo)))
    BY <1>16 DEF TransportMethod, LaneDef, LaneUses
  <2>1. Writes({LaneDef(Head(todo))}, LaneUses(Head(todo)))
    BY <2>0, PrintedOn
  <2> QED
    BY <1>16, <2>1 DEF Writes
<1>17. CASE GenOperationBuilders
  <2>1. /\ pc = "transport" /\ pc' = "example"
        /\ buffer' = Printed(buffer, BuilderDefs(Service), {})
        /\ files' = files \cup {File(<<"client", Service.name>>, buffer')}
    BY <1>17 DEF GenOperationBuilders
  <2>2. buffer'.refs = buffer.refs
    BY <2>1 DEF Printed
  <2>3. AllRefs' = AllRefs \cup buffer'.refs
    BY <2>1, Committed
  <2> QED
    BY <2>1, <2>2, <2>3 DEF WrittenRefs
<1>18. CASE CustomOperationType
  <2>1. pc \notin InClient /\ pc' \notin InClient
    BY <1>18 DEF CustomOperationType
  <2>2. CASE ~request.customOp
    <3>1. files' = files
      BY <1>18, <2>2 DEF CustomOperationType
    <3> QED
      BY <1>0, <2>1, <3>1, NothingWritten
  <2>3. CASE request.customOp
    <3>1. /\ buffer' = Printed(Reset(buffer), OperationDefs, {})
          /\ files' = files \cup {File(<<"operations">>, buffer')}
      BY <1>18, <2>3 DEF CustomOperationType, OperationDefs
    <3>2. buffer'.refs = {}
      BY <3>1, FreshlyPrinted
    <3> QED
      BY <2>1, <3>1, <3>2, FileWritten DEF Writes
  <2> QED
    BY <2>2, <2>3
<1>19. CASE GenAuxFile
  <2>1. /\ pc \notin InClient /\ pc' \notin InClient
        /\ files' = files \cup {File(<<"auxiliary">>, buffer')}
    BY <1>19 DEF GenAuxFile
  <2>2. buffer'.refs = {}
    BY <1>19, FreshlyPrinted DEF GenAuxFile
  <2> QED
    BY <2>1, <2>2, FileWritten DEF Writes
<1> HIDE DEF Nothing
<1>20. CASE QuietStep
  BY <1>20, <1>1, <1>2, <1>3, <1>4, <1>5, <1>6, <1>7, <1>8, <1>9, <1>10 DEF QuietStep, Nothing
<1> QED
  BY <1>11, <1>12, <1>13, <1>14, <1>15, <1>16, <1>17, <1>18, <1>19, <1>20, StepsOfNext DEF Nothing

(* Constructors that example code calls. *)
LEMMA FirstTransport ==
  ASSUME EntriesInv, OptionsInv, Linkable(request), pc \in Inside \cup {"snippets"}
  PROVE  transports[1] \in OwnTransports(request, Service)
<1>1. /\ IsRequest(request) /\ Service \in Range1(request.services)
  BY PresentService
<1>2. request.transports \in {<<"grpc">>, <<"rest">>, <<"grpc", "rest">>}
  BY <1>1 DEF IsRequest
<1>3. CASE pc \in Inside
  <2>1. transports = IF HasRESTMethod(Service) THEN request.transports ELSE <<"grpc">>
    BY <1>3 DEF OptionsInv
  <2> QED
    BY <1>2, <2>1 DEF OwnTransports, Range1
<1>4. CASE pc = "snippets"
  <2>1. transports = request.transports
    BY <1>4 DEF OptionsInv, OptionsKept, Inside
  <2>2. request.transports = <<"rest">> => HasRESTMethod(Service)
    BY <1>1 DEF Linkable
  <2> QED
    BY <1>2, <2>1, <2>2 DEF OwnTransports, Range1
<1> QED
  BY <1>3, <1>4

LEMMA FiveKinds ==
  ASSUME NEW o, NEW m, DOMAIN o = 1 .. 5, Is(o[5], m)
  PROVE  Kind(o, m) = IF Is(o[1], m) THEN o[1] ELSE IF Is(o[2], m) THEN o[2]
                      ELSE IF Is(o[3], m) THEN o[3] ELSE IF Is(o[4], m) THEN o[4]
                      ELSE o[5]
<1> DEFINE First(k) == Is(o[k], m) /\ \A j \in 1 .. k - 1 : ~Is(o[j], m)
<1>1. ASSUME NEW i \in 1 .. 5, First(i) PROVE Kind(o, m) = o[i]
  <2>1. 1 .. i - 1 \subseteq DOMAIN o /\ DOMAIN o \subseteq Nat /\ 0 \notin DOMAIN o
    OBVIOUS
  <2> QED
    BY <1>1, <2>1, FirstKind
<1>2. CASE Is(o[1], m)
  BY <1>1, <1>2
<1>3. CASE ~Is(o[1], m) /\ Is(o[2], m)
  BY <1>1, <1>3
<1>4. CASE ~Is(o[1], m) /\ ~Is(o[2], m) /\ Is(o[3], m)
  BY <1>1, <1>4
<1>5. CASE ~Is(o[1], m) /\ ~Is(o[2], m) /\ ~Is(o[3], m) /\ Is(o[4], m)
  BY <1>1, <1>5
<1>6. CASE ~Is(o[1], m) /\ ~Is(o[2], m) /\ ~Is(o[3], m) /\ ~Is(o[4], m)
  BY <1>1, <1>6
<1> QED
  BY <1>2, <1>3, <1>4, <1>5, <1>6

(* How an example uses a method is how the client's method returns. *)
Shape(kind) ==
  [paging |-> "iterator", operation |-> "operation", empty |-> "error",
   bidi |-> "stream", unary |-> "message"][kind]
LEMMA ExampleShape ==
  ASSUME NEW m, IsMethod(m), HasExample(m), NEW s,
         IsPaged(m) => m.out # "Empty", IsCustomOp(m) => ~Streaming(m)
  PROVE  /\ Shape(Kind(ExampleOrder, m)) = Call(request, s, m)[1]
         /\ Kind(ExampleOrder, m) = "operation" <=> ~IsPaged(m) /\ (IsLRO(m) \/ IsCustomOp(m))
<1> DEFINE o == ExampleOrder
<1>1. /\ DOMAIN o = 1 .. 5
      /\ o[1] = "paging" /\ o[2] = "operation" /\ o[3] = "empty"
      /\ o[4] = "bidi" /\ o[5] = "unary"
  BY DEF ExampleOrder
<1>2. /\ Is("paging", m) = IsPaged(m)
      /\ Is("operation", m) = (IsLRO(m) \/ IsCustomOp(m))
      /\ Is("empty", m) = (m.out = "Empty")
      /\ Is("bidi", m) = (m.cs /\ m.ss)
      /\ Is("unary", m)
  BY DEF Is, IsMethod
<1>3. Kind(o, m) = IF IsPaged(m) THEN "paging" ELSE IF IsLRO(m) \/ IsCustomOp(m) THEN "operation"
                   ELSE IF m.out = "Empty" THEN "empty" ELSE IF m.cs /\ m.ss THEN "bidi"
                   ELSE "unary"
  <2> HIDE DEF o
  <2> QED
    BY <1>1, <1>2, FiveKinds
<1>4. IsCustomOp(m) = CustomOpIn(request, m)
  BY DEF IsCustomOp, CustomOpIn
<1>5. IsLRO(m) => m.out # "Empty"
  BY DEF IsLRO
<1>6. IsCustomOp(m) => m.out # "Empty"
  BY DEF IsCustomOp
<1>7. /\ m.cs \in BOOLEAN /\ m.ss \in BOOLEAN /\ m.cs = m.ss
      /\ Streaming(m) <=> m.cs \/ m.ss
  BY DEF IsMethod, HasExample, Streaming
<1> HIDE DEF o
<1>8. CASE IsPaged(m)
  BY <1>3, <1>8 DEF Shape, Call, o
<1>9. CASE ~IsPaged(m) /\ IsLRO(m)
  BY <1>3, <1>5, <1>9 DEF Shape, Call, o
<1>10. CASE ~IsPaged(m) /\ ~IsLRO(m) /\ IsCustomOp(m)
  BY <1>3, <1>4, <1>6, <1>7, <1>10 DEF Shape, Call, o
<1>11. CASE ~IsPaged(m) /\ ~IsLRO(m) /\ ~IsCustomOp(m)
  <2>1. CASE m.out = "Empty"
    BY <1>3, <1>11, <2>1 DEF Shape, Call, o
  <2>2. CASE m.out # "Empty" /\ m.cs
    BY <1>3, <1>7, <1>11, <2>2 DEF Shape, Call, o
  <2>3. CASE m.out # "Empty" /\ ~m.cs
    BY <1>3, <1>4, <1>7, <1>11, <2>3 DEF Shape, Call, o
  <2> QED
    BY <2>1, <2>2, <2>3
<1> QED
  BY <1>8, <1>9, <1>10, <1>11

LEMMA TwoParts ==
  ASSUME NEW a, NEW b
  PROVE  <<a>> \o <<b>> = <<a, b>>
<1> DEFINE S == {a, b}
           p == <<a>>
           q == <<b>>
           t == <<a, b>>
<1>1. /\ p \in Seq(S) /\ Len(p) = 1 /\ p[1] = a
      /\ q \in Seq(S) /\ Len(q) = 1 /\ q[1] = b
      /\ t \in Seq(S) /\ Len(t) = 2 /\ t[1] = a /\ t[2] = b
  OBVIOUS
<1> HIDE DEF S, p, q, t
<1>2. (\A i \in 1 .. Len(p) : t[i] = p[i]) /\ (\A i \in 1 .. Len(q) : t[Len(p) + i] = q[i])
  BY <1>1
<1>3. Len(t) = Len(p) + Len(q)
  BY <1>1
<1>4. p \o q = t
  BY <1>1, <1>2, <1>3, Joined
<1> QED
  BY <1>4 DEF p, q, t

LEMMA MethodsOf ==
  ASSUME NEW r, NEW s \in Range1(r.services), NEW m \in MethodsIn(r, s)
  PROVE  m \in AllMethodsIn(r)
BY DEF AllMethodsIn

LEMMA ExamplePromised ==
  ASSUME EntriesInv, OptionsInv, Linkable(request), pc \in Inside \cup {"snippets"},
         NEW m \in MethodSet(Service), HasExample(m), NEW ref \in ExampleRefs(Service, m)
  PROVE  Promised(request, ref)
<1> DEFINE s == Service
           kind == Kind(ExampleOrder, m)
           news == Ref(New(s, transports[1]), <<"func">>)
           calls == Ref(ClientMethod(s, m), <<Shape(kind)>>)
           waits == Ref(OpType(m), <<"type", WaitShape(m)>>)
<1>1. /\ s \in Range1(request.services) /\ m \in MethodsIn(request, s) /\ IsMethod(m)
  BY PresentService
<1>2. m \in AllMethodsIn(request)
  BY <1>1, MethodsOf
<1>3. /\ IsPaged(m) => m.out # "Empty"
      /\ IsCustomOp(m) => CustomOpIn(request, m) /\ ~Streaming(m) /\ m.info.response \in {"none", "Empty"}
  BY <1>2 DEF Linkable, IsCustomOp, CustomOpIn
<1>4. /\ Shape(kind) = Call(request, s, m)[1]
      /\ kind = "operation" <=> ~IsPaged(m) /\ (IsLRO(m) \/ IsCustomOp(m))
  BY <1>1, <1>3, ExampleShape
<1>5. \/ ref = news \/ ref = calls
      \/ kind = "operation" /\ ref = waits
  BY DEF ExampleRefs, Shape
<1>6. CASE ref = news
  BY <1>1, <1>6, FirstTransport DEF Promised, ConstructorRef
<1>7. CASE ref = calls
  BY <1>1, <1>4, <1>7 DEF Promised, MethodRef
<1>8. CASE kind = "operation" /\ ref = waits /\ IsLRO(m)
  BY <1>1, <1>8 DEF Promised, WaitRef, OpType
<1>9. CASE kind = "operation" /\ ref = waits /\ ~IsLRO(m)
  <2>1. IsCustomOp(m)
    BY <1>4, <1>9
  <2>2. WaitShape(m) = "error" /\ request.customOp
    BY <1>3, <2>1 DEF WaitShape, IsCustomOp
  <2>3. OpType(m) = <<"type", "Operation">>
    BY <1>9, TwoParts DEF OpType
  <2> QED
    BY <1>9, <2>2, <2>3 DEF Promised, CustomOpRef
<1> QED
  BY <1>5, <1>6, <1>7, <1>8, <1>9

(* The helpers that constructors use, and the operations client of a service
   with custom operations. *)
LEMMA OpServiceIs == \A s : OpService(s) = OpServiceIn(request, s)
BY DEF OpService, OpServiceIn

LEMMA HandlesAre == Handles = HandlesIn(request)
BY OpServiceIs DEF Handles, HandlesIn, Services

LEMMA OpServiceNamed ==
  ASSUME NEW r, IsRequest(r), Linkable(r), NEW s \in Range1(r.services),
         OpServiceIn(r, s) # "none"
  PROVE  /\ r.customOp
         /\ \E u \in Range1(r.services) : u.name = OpServiceIn(r, s)
<1> DEFINE ms == {i \in DOMAIN s.methods : s.methods[i].opServ # "none"}
<1>1. r.customOp /\ ms # {}
  BY DEF OpServiceIn
<1>2. PICK i \in DOMAIN s.methods : s.methods[i].opServ # "none"
  BY <1>1
<1> DEFINE m == s.methods[i]
<1>3. m \in Range1(s.methods)
  BY DEF Range1
<1>4. m.opServ # "none"
  BY <1>2
<1> HIDE DEF m
<1> QED
  BY <1>1, <1>3, <1>4 DEF Linkable

LEMMA ConstructorsPromised ==
  ASSUME EntriesInv, OptionsInv, Uniform(request), Linkable(request), pc \in Inside,
         NEW ref \in ConstructorUses
  PROVE  Promised(request, ref)
<1>1. /\ IsRequest(request) /\ Service \in Range1(request.services)
      /\ Range1(transports) = OwnTransports(request, Service)
  BY PresentService, PresentTransports
<1>2. PICK t \in Range1(transports) : ref \in ConstructorRefs(Service, t)
  BY DEF ConstructorUses
<1>3. \/ \E f \in {"getVersionClient", "DefaultAuthScopes", "clientHook"} :
            ref = Ref(Helper(f), <<"func">>)
      \/ /\ t = "rest" /\ OpService(Service) # "none"
         /\ ref = Ref(<<"New", OpService(Service), "rest">>, <<"func">>)
  BY <1>2 DEF ConstructorRefs
<1>4. CASE \E f \in {"getVersionClient", "DefaultAuthScopes", "clientHook"} :
             ref = Ref(Helper(f), <<"func">>)
  BY <1>4 DEF Promised, HelperRef, HelpersIn
<1>5. CASE /\ t = "rest" /\ OpService(Service) # "none"
           /\ ref = Ref(<<"New", OpService(Service), "rest">>, <<"func">>)
  <2>1. OpService(Service) = OpServiceIn(request, Service)
    BY OpServiceIs
  <2>2. /\ request.customOp
        /\ \E u \in Range1(request.services) : u.name = OpService(Service)
    BY <1>1, <1>5, <2>1, OpServiceNamed
  <2>3. PICK u \in Range1(request.services) : u.name = OpService(Service)
    BY <2>2
  <2>4. request.transports = <<"rest">>
    <3>1. "grpc" \notin Range1(request.transports)
      BY <2>2 DEF Uniform
    <3>2. request.transports \in {<<"grpc">>, <<"rest">>, <<"grpc", "rest">>}
      BY <1>1 DEF IsRequest
    <3>3. "grpc" \in Range1(<<"grpc">>) /\ "grpc" \in Range1(<<"grpc", "rest">>)
      BY DEF Range1
    <3> QED
      BY <3>1, <3>2, <3>3
  <2>5. HasRESTMethod(u)
    BY <2>4 DEF Linkable
  <2>6. "rest" \in OwnTransports(request, u)
    BY <2>4, <2>5 DEF OwnTransports, Range1
  <2>7. ref = Ref(New(u, "rest"), <<"func">>)
    BY <1>5, <2>3 DEF New
  <2> QED
    BY <2>6, <2>7 DEF Promised, ConstructorRef
<1> QED
  BY <1>3, <1>4, <1>5

(* What a transport's method uses: an executor, the iterator or the wrapper
   that the same step collects, or the custom operation and its handle. *)
LEMMA LanesTransport ==
  ASSUME EntriesInv, Linkable(request), pc \in Inside, TransportPhase, MetaInv, lanes # <<>>
  PROVE  /\ Head(lanes) \in OwnTransports(request, Service)
         /\ Head(lanes) \in {"grpc", "rest"}
         /\ Head(lanes) \in Range1(request.transports)
<1>1. Head(lanes) \in OwnTransports(request, Service) /\ Head(lanes) \in {"grpc", "rest"}
  <2>1. Head(lanes) \in Range1(lanes)
    BY LanesAre
  <2>2. Head(lanes) \in {"grpc", "rest"}
    BY HeadTailProperties DEF MetaInv
  <2> QED
    BY <2>1, <2>2 DEF TransportPhase
<1>2. /\ IsRequest(request) /\ Service \in Range1(request.services)
  BY PresentService
<1>3. request.transports \in {<<"grpc">>, <<"rest">>, <<"grpc", "rest">>}
  BY <1>2 DEF IsRequest
<1>4. request.transports = <<"rest">> => HasRESTMethod(Service)
  BY <1>2 DEF Linkable
<1> QED
  BY <1>1, <1>3, <1>4 DEF OwnTransports, Range1

LEMMA IterCollected ==
  ASSUME Linkable(request), ItersCollected(iters, request),
         NEW m \in AllMethodsIn(request), IsPaged(m)
  PROVE  /\ <<m.page.iter, m.page.elem>> \in AddIter(m.page)
         /\ iters \subseteq AddIter(m.page)
         /\ ItersCollected(AddIter(m.page), request)
<1> DEFINE new == <<m.page.iter, m.page.elem>>
<1>1. CASE m.page.iter \in IterNames
  <2>1. AddIter(m.page) = iters
    BY <1>1 DEF AddIter
  <2>2. PICK p \in iters : p[1] = m.page.iter
    BY <1>1 DEF IterNames
  <2>3. PICK n \in AllMethodsIn(request) : IsPaged(n) /\ p = <<n.page.iter, n.page.elem>>
    BY DEF ItersCollected
  <2>4. n.page.iter = m.page.iter
    BY <2>2, <2>3
  <2>5. n.page.elem = m.page.elem
    BY <2>3, <2>4 DEF Linkable
  <2> QED
    BY <2>1, <2>3, <2>4, <2>5
<1>2. CASE m.page.iter \notin IterNames
  <2>1. AddIter(m.page) = iters \cup {new}
    BY <1>2 DEF AddIter
  <2>2. \E n \in AllMethodsIn(request) : IsPaged(n) /\ new = <<n.page.iter, n.page.elem>>
    OBVIOUS
  <2> HIDE DEF new
  <2>3. ItersCollected(AddIter(m.page), request)
    BY <2>1, <2>2 DEF ItersCollected
  <2> QED
    BY <2>1, <2>3 DEF new
<1> QED
  BY <1>1, <1>2

LEMMA LaneServed ==
  ASSUME EntriesInv, MetaInv, Uniform(request), Linkable(request), TransportPhase,
         ItersCollected(iters, request), TransportMethod,
         NEW ref \in LaneUses(Head(todo)), NEW D
  PROVE  Served(D, iters', wrappers', request, ref)
<1> DEFINE m == Head(todo)
           t == Head(lanes)
           s == Service
           kind == Kind(TransportOrder, m)
<1>1. /\ pc \in Inside /\ todo # <<>> /\ lanes # <<>>
      /\ iters' = IF kind = "paging" THEN AddIter(m.page) ELSE iters
      /\ wrappers' = IF kind = "lro" THEN wrappers \cup {<<OpName(m), m.info>>} ELSE wrappers
  BY DEF TransportMethod, Inside
<1>2. /\ m \in MethodsIn(request, s) /\ IsMethod(m) /\ s \in Range1(request.services)
      /\ IsRequest(request)
  BY <1>1, NextLaneMethod, PresentService
<1>3. t \in {"grpc", "rest"} /\ t \in Range1(request.transports)
  BY <1>1, LanesTransport
<1>4. IsA(kind, m)
  BY <1>2, OrdersAgree
<1>5. m \in AllMethodsIn(request)
  BY <1>2, MethodsOf
<1> HIDE DEF m, t, s, kind
<1>6. \/ \E f \in Executor(t, kind) : ref = Ref(Helper(f), <<"func">>)
      \/ kind = "paging" /\ ref = Ref(<<"type", m.page.iter>>, <<"iterator", m.page.elem>>)
      \/ kind = "lro" /\ ref = Ref(OpType(m), <<"type">>)
      \/ /\ t = "rest" /\ kind = "unary" /\ IsCustomOp(m)
         /\ ref \in {Ref(OpType(m), <<"type">>), Ref(<<"handle", m.opServ>>, <<"type">>)}
  BY DEF LaneUses, TransportRefs, m, t, s, kind
<1>7. CASE \E f \in Executor(t, kind) : ref = Ref(Helper(f), <<"func">>)
  <2>1. Executor(t, kind) \subseteq HelpersIn(request)
    BY <1>3 DEF Executor, HelpersIn, RESTHelpers
  <2> QED
    BY <1>7, <2>1 DEF Served, Promised, HelperRef
<1>8. CASE kind = "paging" /\ ref = Ref(<<"type", m.page.iter>>, <<"iterator", m.page.elem>>)
  <2> DEFINE p == <<m.page.iter, m.page.elem>>
  <2>1. IsPaged(m)
    BY <1>4, <1>8 DEF IsA
  <2>2. p \in iters'
    BY <1>1, <1>5, <1>8, <2>1, IterCollected
  <2>3. ref = IterRef(p)
    BY <1>8 DEF IterRef
  <2> HIDE DEF p
  <2> QED
    BY <2>2, <2>3 DEF Served
<1>9. CASE kind = "lro" /\ ref = Ref(OpType(m), <<"type">>)
  <2> DEFINE w == <<OpName(m), m.info>>
  <2>1. IsLRO(m)
    BY <1>4, <1>9 DEF IsA
  <2>2. w \in wrappers'
    BY <1>1, <1>9
  <2>3. ref = WrapperRef(w)
    BY <1>9, <2>1 DEF WrapperRef, OpType
  <2> HIDE DEF w
  <2> QED
    BY <2>2, <2>3 DEF Served
<1>10. CASE /\ t = "rest" /\ kind = "unary" /\ IsCustomOp(m)
            /\ ref \in {Ref(OpType(m), <<"type">>), Ref(<<"handle", m.opServ>>, <<"type">>)}
  <2>1. CustomOpIn(request, m) /\ request.customOp /\ m.out = "Operation"
    BY <1>10 DEF IsCustomOp, CustomOpIn
  <2>2. m \in Range1(s.methods)
    BY <1>2, <2>1, MethodsInAre
  <2>3. m.opServ # "none" /\ m.opServ = OpServiceIn(request, s)
    BY <1>2, <2>1, <2>2 DEF Linkable
  <2>4. m.opServ \in HandlesIn(request)
    BY <1>2, <2>3 DEF HandlesIn
  <2>5. OpType(m) = <<"type", "Operation">>
    BY <2>1, TwoParts DEF OpType, IsLRO
  <2> QED
    BY <1>10, <2>1, <2>4, <2>5 DEF Served, Promised, CustomOpRef
<1> QED
  BY <1>6, <1>7, <1>8, <1>9, <1>10

(* A use of a definition's identifier with the first parts of its signature. *)
LEMMA FitsItself ==
  ASSUME NEW d
  PROVE  /\ Fits(Ref(d.id, <<>>), d)
         /\ Fits(Ref(d.id, <<d.sig[1]>>), d)
         /\ Fits(Ref(d.id, <<d.sig[1], d.sig[2]>>), d)
<1> DEFINE g == d.sig
           S == {g[1], g[2]}
           one == <<g[1]>>
           two == <<g[1], g[2]>>
<1>1. SubSeq(g, 1, Len(<<>>)) = <<>>
  OBVIOUS
<1>2. /\ one \in Seq(S) /\ Len(one) = 1 /\ one[1] = g[1]
      /\ two \in Seq(S) /\ Len(two) = 2 /\ two[1] = g[1] /\ two[2] = g[2]
  OBVIOUS
<1>3. \A i \in 1 .. 2 : g[i] \in S
  OBVIOUS
<1> HIDE DEF g, S, one, two
<1>4. SubSeq(g, 1, 1) = one
  <2>1. /\ SubSeq(g, 1, 1) \in Seq(S) /\ Len(SubSeq(g, 1, 1)) = 1
        /\ \A i \in 1 .. 1 : SubSeq(g, 1, 1)[i] = g[1 + i - 1]
    BY <1>3, SubSeqProperties
  <2> QED
    BY <1>2, <2>1, SeqEqual
<1>5. SubSeq(g, 1, 2) = two
  <2>1. /\ SubSeq(g, 1, 2) \in Seq(S) /\ Len(SubSeq(g, 1, 2)) = 2
        /\ \A i \in 1 .. 2 : SubSeq(g, 1, 2)[i] = g[1 + i - 1]
    BY <1>3, SubSeqProperties
  <2> QED
    BY <1>2, <2>1, SeqEqual
<1>6. SubSeq(g, 1, Len(one)) = one /\ SubSeq(g, 1, Len(two)) = two
  BY <1>2, <1>4, <1>5
<1> QED
  BY <1>1, <1>6 DEF Fits, Ref, g, one, two

(* gapic_metadata.json names what has been written. *)
LEMMA MetadataServed ==
  ASSUME MetaInv, pc \notin Stopped, Spelled(Written), NEW ref \in MetadataUses,
         NEW its, NEW ws, NEW r
  PROVE  Served(Written, its, ws, r, ref)
<1>1. PICK e \in Named(Written) : ref = Ref(<<e[2], e[1], e[3]>>, <<>>)
  BY DEF MetadataUses, MetaInv
<1>2. PICK d \in Written : Recording(d) /\ e = <<d.id[2], d.id[1], d.id[3]>>
  BY DEF Named
<1>3. <<e[2], e[1], e[3]>> = d.id
  <2> DEFINE id == d.id
             three == <<id[1], id[2], id[3]>>
             four == <<id[1], id[2], id[3], id[4]>>
  <2>1. id = three \/ id = four
    BY <1>2 DEF Spelled, Spelling, Recording, Receivers
  <2>2. Len(four) = 4 /\ Len(id) = 3
    BY <1>2 DEF Recording
  <2> HIDE DEF id, three, four
  <2>3. id = three
    BY <2>1, <2>2
  <2>4. <<e[2], e[1], e[3]>> = three
    BY <1>2 DEF id, three
  <2> QED
    BY <2>3, <2>4 DEF id
<1>4. ref = Ref(d.id, <<>>)
  BY <1>1, <1>3
<1>5. Fits(ref, d)
  BY <1>4, FitsItself
<1> QED
  BY <1>5 DEF Served

-------------------------------------------------------------------------------
(* What has been promised or collected stays so. *)
LEMMA ServedGrows ==
  ASSUME NEW D, NEW E, D \subseteq E, NEW its, NEW jts, its \subseteq jts,
         NEW ws, NEW vs, ws \subseteq vs, NEW r, NEW ref, Served(D, its, ws, r, ref)
  PROVE  Served(E, jts, vs, r, ref)
BY DEF Served

LEMMA CollectingSteps ==
  ASSUME Next, pc' \notin Stopped
  PROVE  /\ \/ iters' = iters
            \/ InterfaceMethod /\ Kind(InterfaceOrder, Head(todo)) = "paging"
            \/ WrapperMethod /\ Kind(ClientOrder, Head(todo)) = "paging"
            \/ TransportMethod /\ Kind(TransportOrder, Head(todo)) = "paging"
         /\ iters' # iters => iters' = AddIter(Head(todo).page)
         /\ \/ wrappers' = wrappers /\ wrapped' = wrapped
            \/ TransportMethod /\ Kind(TransportOrder, Head(todo)) = "lro"
<1>1. CASE InterfaceMethod
  BY <1>1 DEF InterfaceMethod
<1>2. CASE WrapperMethod
  <2>1. /\ iters' # iters => iters' = AddIter(Head(todo).page) /\ Kind(ClientOrder, Head(todo)) = "paging"
        /\ wrappers' = wrappers /\ wrapped' = wrapped
    BY <1>2 DEF WrapperMethod
  <2> QED
    BY <1>2, <2>1
<1>3. CASE TransportMethod
  BY <1>3 DEF TransportMethod
<1>4. CASE ~InterfaceMethod /\ ~WrapperMethod /\ ~TransportMethod
  BY <1>4 DEF Next, GenService, GenPackage, NextService, GenSnippet, SnippetFails,
     SnippetsDone, StartClient, InterfaceFails, InterfaceDone, MakeTransports, TransportFails,
     TransportDone, GenOperationBuilders, GenExampleFile, ExampleFails, GenExampleIteratorFile,
     GenAndCommitHelpers, GenSnippetMetadata, GenDocFile, GenGapicMetadataFile,
     CustomOperationType, GenAuxFile, Fail, auxVars
<1> QED
  BY <1>1, <1>2, <1>3, <1>4

LEMMA ItersStep ==
  ASSUME EntriesInv, SurfaceInv, Linkable(request), ItersCollected(iters, request),
         Next, pc' \notin Stopped
  PROVE  iters \subseteq iters' /\ ItersCollected(iters', request)
<1> DEFINE m == Head(todo)
<1>1. CASE iters' = iters
  BY <1>1
<1>2. CASE iters' # iters
  <2>1. /\ iters' = AddIter(m.page) /\ todo # <<>>
        /\ \/ pc = "interface" /\ Kind(InterfaceOrder, m) = "paging"
           \/ pc = "wrappers" /\ Kind(ClientOrder, m) = "paging"
           \/ pc = "transport" /\ Kind(TransportOrder, m) = "paging"
    BY <1>2, CollectingSteps DEF InterfaceMethod, WrapperMethod, TransportMethod
  <2>2. m \in MethodSet(Service)
    <3>1. CASE pc = "transport"
      BY <2>1, <3>1, NextLaneMethod DEF SurfaceInv, ProgressInv, Stopped
    <3>2. CASE pc \in {"interface", "wrappers"}
      BY <2>1, <3>2, RestOfLoop DEF EntriesInv
    <3> QED
      BY <2>1, <3>1, <3>2
  <2>3. /\ m \in MethodsIn(request, Service) /\ IsMethod(m) /\ Service \in Range1(request.services)
    BY <2>1, <2>2, PresentService DEF Inside
  <2>4. m \in AllMethodsIn(request)
    BY <2>3, MethodsOf
  <2>5. IsPaged(m)
    BY <2>1, <2>3, OrdersAgree DEF IsA
  <2> QED
    BY <2>1, <2>4, <2>5, IterCollected
<1> QED
  BY <1>1, <1>2

LEMMA WrappersStep ==
  ASSUME EntriesInv, SurfaceInv, CollectedInv, Next, pc' \notin Stopped
  PROVE  /\ wrappers \subseteq wrappers'
         /\ \A w \in wrappers' : w[2].response # "none"
         /\ WrappersCollected(wrappers', wrapped', request)
<1>0. /\ \A w \in wrappers : w[2].response # "none"
      /\ WrappersCollected(wrappers, wrapped, request)
  BY DEF CollectedInv
<1>1. CASE wrappers' = wrappers /\ wrapped' = wrapped
  BY <1>0, <1>1
<1>2. CASE TransportMethod /\ Kind(TransportOrder, Head(todo)) = "lro"
  <2> DEFINE m == Head(todo)
             w == <<OpName(m), m.info>>
             p == <<Service.name, m.name>>
  <2>1. /\ pc = "transport" /\ todo # <<>>
        /\ wrappers' = wrappers \cup {w} /\ wrapped' = wrapped \cup {p}
        /\ ~WrapperError(m)
    BY <1>2 DEF TransportMethod, TransportError
  <2>2. /\ m \in MethodsIn(request, Service) /\ IsMethod(m) /\ Service \in Range1(request.services)
    <3>1. m \in MethodSet(Service)
      BY <2>1, NextLaneMethod DEF SurfaceInv, ProgressInv, Stopped
    <3> QED
      BY <2>1, <3>1, PresentService DEF Inside
  <2>3. IsLRO(m)
    BY <1>2, <2>2, OrdersAgree DEF IsA
  <2>4. w[2].response # "none"
    BY <2>1 DEF WrapperError
  <2>5. \E s \in Range1(request.services) : \E n \in MethodsIn(request, s) :
           IsLRO(n) /\ p = <<s.name, n.name>> /\ <<OpName(n), n.info>> \in wrappers'
    BY <2>1, <2>2, <2>3
  <2> HIDE DEF w, p, m
  <2>6. \A q \in wrapped : \E s \in Range1(request.services) : \E n \in MethodsIn(request, s) :
           IsLRO(n) /\ q = <<s.name, n.name>> /\ <<OpName(n), n.info>> \in wrappers'
    BY <1>0, <2>1 DEF WrappersCollected
  <2> QED
    BY <1>0, <2>1, <2>4, <2>5, <2>6 DEF WrappersCollected
<1> QED
  BY <1>1, <1>2, CollectingSteps

LEMMA SpelledStep ==
  ASSUME MetaInv, Spelled(Written), Next, pc' \notin Stopped
  PROVE  Spelled(Written')
<1>1. ASSUME NEW S, Spelled(S), Written' = Written \cup S
      PROVE  Spelled(Written')
  BY <1>1 DEF Spelled
<1>2. \A a, b, c : Spelling(<<a, b, c>>)
  BY DEF Spelling
<1>3. \A a, b, c, d : Spelling(<<a, b, c, d>>)
  BY DEF Spelling
<1>4. Spelled(HelperDefs) /\ Spelled(ConstructorDefs) /\ Spelled(OperationDefs)
  BY DEF Spelled, HelperDefs, ConstructorDefs, OperationDefs, Def, Helper, New, Receivers
<1>5. Spelled(AuxDefs)
  <2>1. ASSUME NEW w \in wrappers PROVE WrapperDef(w).id[1] = "type"
    <3>1. PICK m : w[1] = OpName(m)
      BY DEF MetaInv
    <3>2. WrapperDef(w).id = <<"type", m.name, "Operation">>
      BY <3>1, ByNameIds DEF WrapperDef, Def
    <3> QED
      BY <3>2
  <2>2. \A p \in iters : IterDef(p).id[1] = "type"
    BY DEF IterDef, Def
  <2> QED
    BY <2>1, <2>2 DEF Spelled, AuxDefs, Receivers
<1>6. \A receiver, s, m, sig : Spelled(MethodDefs(receiver, s, m, sig))
  <2> SUFFICES ASSUME NEW receiver, NEW s, NEW m, NEW sig,
                      NEW d \in MethodDefs(receiver, s, m, sig)
               PROVE  Spelling(d.id)
    BY DEF Spelled
  <2> DEFINE name == s.name
             long == <<receiver, name>> \o OpName(m)
  <2>1. d.id = <<receiver, name, m.name>> \/ d.id = long
    BY DEF MethodDefs, Def
  <2>2. long = <<receiver, name, m.name, "Operation">>
    BY ByNameIds
  <2> HIDE DEF name, long
  <2> QED
    BY <1>2, <1>3, <2>1, <2>2
<1>7. Spelled(BuilderDefs(Service))
  <2> DEFINE s == Service
             name == s.name
             lros == {i \in DOMAIN s.methods : <<s.name, s.methods[i].name>> \in wrapped}
  <2>1. BuilderDefs(s) = {Def(<<t, name>> \o OpName(s.methods[i]), <<"byName">>, i) :
                            i \in lros, t \in Range1(transports)}
    BY DEF BuilderDefs
  <2> HIDE DEF lros, name, s
  <2>2. SUFFICES ASSUME NEW d \in BuilderDefs(s) PROVE Spelling(d.id)
    BY DEF Spelled, s
  <2>3. PICK i \in lros, t \in Range1(transports) :
           d = Def(<<t, name>> \o OpName(s.methods[i]), <<"byName">>, i)
    BY <2>1, <2>2
  <2> DEFINE m == s.methods[i]
             long == <<t, name>> \o OpName(m)
  <2>4. d.id = long
    BY <2>3 DEF Def
  <2>5. long = <<t, name, m.name, "Operation">>
    BY ByNameIds
  <2> HIDE DEF m, long
  <2> QED
    BY <1>3, <2>4, <2>5
<1>8. Spelled({LaneDef(Head(todo))})
  BY <1>2 DEF Spelled, LaneDef, Def
<1>9. CASE SnippetFails \/ InterfaceFails \/ TransportFails \/ ExampleFails
  BY <1>9 DEF SnippetFails, InterfaceFails, TransportFails, ExampleFails, Fail, Stopped
<1>10. CASE QuietStep
  BY <1>10, QuietWrites
<1>11. CASE WrapperMethod
  BY <1>1, <1>6, <1>11, WrapperWritten
<1>12. CASE CustomOperationType
  BY <1>1, <1>4, <1>12, OperationsWritten
<1> QED
  BY <1>1, <1>4, <1>5, <1>6, <1>7, <1>8, <1>9, <1>10, <1>11, <1>12, StepsOfNext,
     HelpersWritten, InterfaceWritten, ConstructorsWritten, TransportWritten,
     BuildersWritten, AuxWritten

LEMMA CollectedStep ==
  ASSUME EntriesInv, SurfaceInv, MetaInv, Linkable(request), CollectedInv, Next, pc' \notin Stopped
  PROVE  CollectedInv'
<1>1. request' = request
  BY RequestKept
<1>2. ItersCollected(iters', request') /\ WrappersCollected(wrappers', wrapped', request')
  BY <1>1, ItersStep, WrappersStep DEF CollectedInv
<1>3. Spelled(Written') /\ \A w \in wrappers' : w[2].response # "none"
  BY SpelledStep, WrappersStep DEF CollectedInv
<1> QED
  BY <1>2, <1>3 DEF CollectedInv

(* Nothing is used that is not defined, collected or promised. *)
AllServed == \A ref \in WrittenRefs : Served(Written, iters, wrappers, request, ref)

LEMMA ServedStep ==
  ASSUME EntriesInv, OptionsInv, MetaInv, SurfaceInv, Uniform(request), Linkable(request),
         AllServed, CollectedInv, Next, pc' \notin Stopped
  PROVE  AllServed'
<1> DEFINE S(ref) == Served(Written', iters', wrappers', request, ref)
<1>0. /\ request' = request /\ pc \notin Stopped /\ Written \subseteq Written'
      /\ iters \subseteq iters' /\ wrappers \subseteq wrappers'
      /\ ItersCollected(iters, request) /\ Spelled(Written)
  BY RequestKept, StoppedForGood, WrittenGrows, ItersStep, WrappersStep DEF CollectedInv
<1>1. \A ref \in WrittenRefs : S(ref)
  BY <1>0, ServedGrows DEF AllServed
<1>p. \A ref : Promised(request, ref) => S(ref)
  BY DEF Served
<1> HIDE DEF S
<1>2. SUFFICES ASSUME NEW ref \in WrittenRefs', ref \notin WrittenRefs PROVE S(ref)
  BY <1>0, <1>1 DEF AllServed, S
<1>3. CASE /\ GenSnippet /\ HasExample(Head(todo))
           /\ WrittenRefs' = WrittenRefs \cup SnippetUses(Head(todo))
  <2>1. /\ pc = "snippets" /\ todo # <<>>
    BY <1>3 DEF GenSnippet
  <2>2. Head(todo) \in MethodSet(Service)
    BY <2>1, RestOfLoop DEF EntriesInv
  <2> QED
    BY <1>2, <1>3, <1>p, <2>1, <2>2, ExamplePromised DEF SnippetUses
<1>4. CASE MakeTransports /\ WrittenRefs' = WrittenRefs \cup ConstructorUses
  <2>1. pc \in Inside
    BY <1>4 DEF MakeTransports, Inside
  <2> QED
    BY <1>2, <1>4, <1>p, <2>1, ConstructorsPromised
<1>5. CASE TransportMethod /\ WrittenRefs' = WrittenRefs \cup LaneUses(Head(todo))
  <2>1. TransportPhase
    BY <1>0, <1>5 DEF TransportMethod, SurfaceInv, ProgressInv
  <2> QED
    BY <1>0, <1>2, <1>5, <2>1, LaneServed DEF S
<1>6. CASE GenExampleFile /\ WrittenRefs' = WrittenRefs \cup ExampleUses
  <2>1. pc \in Inside
    BY <1>6 DEF GenExampleFile, Inside
  <2>2. \/ \E t \in Range1(transports) : ref = Ref(New(Service, t), <<"func">>)
        \/ \E m \in MethodSet(Service) : HasExample(m) /\ ref \in ExampleRefs(Service, m)
    BY <1>2, <1>6 DEF ExampleUses
  <2>3. CASE \E t \in Range1(transports) : ref = Ref(New(Service, t), <<"func">>)
    BY <1>p, <2>1, <2>3, PresentTransports, PresentService DEF Promised, ConstructorRef
  <2>4. CASE \E m \in MethodSet(Service) : HasExample(m) /\ ref \in ExampleRefs(Service, m)
    BY <1>p, <2>1, <2>4, ExamplePromised
  <2> QED
    BY <2>2, <2>3, <2>4
<1>7. CASE GenExampleIteratorFile /\ WrittenRefs' = WrittenRefs \cup IterExampleUses
  <2>1. pc \in Inside
    BY <1>7 DEF GenExampleIteratorFile, Inside
  <2>2. PICK m \in MethodSet(Service) : /\ IsPaged(m)
            /\ \/ ref = Ref(New(Service, transports[1]), <<"func">>)
               \/ ref = Ref(ClientMethod(Service, m), <<"iterator">>)
    BY <1>2, <1>7 DEF IterExampleUses
  <2>3. m \in MethodsIn(request, Service) /\ Service \in Range1(request.services)
    BY <2>1, PresentService
  <2>4. m.out # "Empty"
    BY <2>2, <2>3, MethodsOf DEF Linkable
  <2>5. Call(request, Service, m)[1] = "iterator"
    BY <2>2, <2>4 DEF Call
  <2>6. CASE ref = Ref(New(Service, transports[1]), <<"func">>)
    BY <1>p, <2>1, <2>3, <2>6, FirstTransport DEF Promised, ConstructorRef
  <2>7. CASE ref = Ref(ClientMethod(Service, m), <<"iterator">>)
    BY <1>p, <2>3, <2>5, <2>7 DEF Promised, MethodRef
  <2> QED
    BY <2>2, <2>6, <2>7
<1>8. CASE GenGapicMetadataFile /\ WrittenRefs' = WrittenRefs \cup MetadataUses
  <2>1. Served(Written, iters', wrappers', request, ref)
    BY <1>0, <1>2, <1>8, MetadataServed
  <2> QED
    BY <1>0, <2>1, ServedGrows DEF S
<1> QED
  BY <1>2, <1>3, <1>4, <1>5, <1>6, <1>7, <1>8, RefsWritten

-------------------------------------------------------------------------------
(* What has been promised is kept, step by step. *)
LEMMA PhaseSteps ==
  ASSUME Next, pc' \notin Stopped
  PROVE  /\ pc = "helpers" => GenAndCommitHelpers
         /\ pc' \in {"aux", "done"} => CustomOperationType \/ GenAuxFile
         /\ pc' = "done" => GenAuxFile
         /\ pc' \in AfterWrappers => pc \in AfterWrappers \/ MakeTransports
         /\ pc' \in AfterClient => pc \in AfterClient \/ GenOperationBuilders
         /\ current' = current \/ GenExampleIteratorFile
         /\ wrapped \subseteq wrapped'
<1> USE DEF AfterWrappers, AfterClient, loopVars, auxVars
<1>1. CASE NextService \/ GenSnippet \/ SnippetsDone \/ StartClient
  BY <1>1 DEF NextService, GenSnippet, SnippetsDone, StartClient
<1>2. CASE SnippetFails \/ InterfaceFails \/ TransportFails \/ ExampleFails
  BY <1>2 DEF SnippetFails, InterfaceFails, TransportFails, ExampleFails, Fail, Stopped
<1>3. CASE InterfaceMethod \/ InterfaceDone \/ MakeTransports
  BY <1>3 DEF InterfaceMethod, InterfaceDone, MakeTransports
<1>4. CASE WrapperMethod
  BY <1>4 DEF WrapperMethod, Stopped
<1>5. CASE TransportMethod
  BY <1>5 DEF TransportMethod
<1>6. CASE TransportDone \/ GenOperationBuilders
  BY <1>6 DEF TransportDone, GenOperationBuilders
<1>7. CASE GenExampleFile \/ GenExampleIteratorFile
  BY <1>7 DEF GenExampleFile, GenExampleIteratorFile
<1>8. CASE GenPackage
  BY <1>8 DEF GenPackage, GenAndCommitHelpers, GenSnippetMetadata, GenDocFile,
     GenGapicMetadataFile, CustomOperationType, GenAuxFile
<1> QED
  BY <1>1, <1>2, <1>3, <1>4, <1>5, <1>6, <1>7, <1>8 DEF Next, GenService

(* The files of the package. *)
LEMMA PackageFilesStep ==
  ASSUME EntriesInv, OptionsInv, PackageInv, Next, pc' \notin Stopped
  PROVE  /\ pc' # "helpers" => HelperDefsIn(request) \subseteq Written'
         /\ pc' \in {"aux", "done"} /\ request.customOp => OperationDefs \subseteq Written'
         /\ pc' = "done" => AuxDefs \subseteq Written'
<1>0. Written \subseteq Written'
  BY WrittenGrows
<1>1. pc' # "helpers" => HelperDefsIn(request) \subseteq Written'
  <2>1. CASE pc = "helpers"
    <3>1. transports = request.transports
      BY <2>1 DEF OptionsInv, OptionsKept, Inside
    <3>2. HelperFuncs = HelpersIn(request)
      BY <3>1 DEF HelperFuncs, HelpersIn
    <3>3. HelperDefs = HelperDefsIn(request)
      BY <3>2 DEF HelperDefs, HelperDefsIn
    <3> QED
      BY <2>1, <3>3, PhaseSteps, HelpersWritten
  <2>2. CASE pc # "helpers"
    BY <1>0, <2>2 DEF PackageInv
  <2> QED
    BY <2>1, <2>2
<1>2. ASSUME pc' \in {"aux", "done"}, request.customOp PROVE OperationDefs \subseteq Written'
  <2>1. CASE CustomOperationType
    <3>1. /\ pc \notin InClient /\ pc' \notin InClient
          /\ files' = files \cup {File(<<"operations">>, buffer')}
          /\ buffer' = Printed(Reset(buffer), OperationDefs, {})
      BY <1>2, <2>1 DEF CustomOperationType, OperationDefs, InClient
    <3>2. buffer'.defs = OperationDefs
      BY <3>1, FreshlyPrinted
    <3> QED
      BY <3>1, <3>2, FileWritten DEF Writes
  <2>2. CASE GenAuxFile
    <3>1. pc = "aux"
      BY <2>2 DEF GenAuxFile
    <3> QED
      BY <1>0, <1>2, <3>1 DEF PackageInv
  <2> QED
    BY <1>2, <2>1, <2>2, PhaseSteps
<1>3. pc' = "done" => AuxDefs \subseteq Written'
  BY PhaseSteps, AuxWritten
<1> QED
  BY <1>1, <1>2, <1>3

LEMMA ConstructedGrows ==
  ASSUME NEW D, NEW E, D \subseteq E, NEW r, NEW s, Constructed(D, r, s)
  PROVE  Constructed(E, r, s)
BY DEF Constructed

LEMMA WrappedGrows ==
  ASSUME NEW ps, NEW qs, ps \subseteq qs, NEW r, NEW s, AllWrapped(ps, r, s)
  PROVE  AllWrapped(qs, r, s)
BY DEF AllWrapped

LEMMA PresentConstructed ==
  ASSUME EntriesInv, OptionsInv, MakeTransports
  PROVE  Constructed(Written', request, Service)
<1>1. pc \in Inside
  BY DEF MakeTransports, Inside
<1>2. Range1(transports) = OwnTransports(request, Service)
  BY <1>1, PresentTransports
<1>3. Written' = Written \cup ConstructorDefs
  BY ConstructorsWritten
<1>4. ASSUME NEW t \in OwnTransports(request, Service)
      PROVE  \E d \in ConstructorDefs : d.id = New(Service, t) /\ d.sig = <<"func">>
  <2>1. PICK i \in DOMAIN transports : transports[i] = t
    BY <1>2 DEF Range1
  <2>2. Def(New(Service, transports[i]), <<"func">>, i) \in ConstructorDefs
    BY DEF ConstructorDefs
  <2> QED
    BY <2>1, <2>2 DEF Def
<1> QED
  BY <1>3, <1>4 DEF Constructed

LEMMA PresentWrapped ==
  ASSUME EntriesInv, OptionsInv, SurfaceInv, GenOperationBuilders
  PROVE  AllWrapped(wrapped, request, Service)
<1>1. pc = "transport" /\ pc \in Inside /\ lanes = <<>>
  BY DEF GenOperationBuilders, Inside
<1>2. TransportPhase
  BY <1>1 DEF SurfaceInv, ProgressInv, Stopped
<1>3. transports # <<>> /\ MethodSet(Service) = MethodsIn(request, Service)
  BY <1>1, PresentTransports, PresentService
<1> QED
  BY <1>1, <1>2, <1>3 DEF TransportPhase, AllWrapped

(* Each service that is behind, and the present one. *)
LEMMA EachServiceStep ==
  ASSUME EntriesInv, OptionsInv, SurfaceInv, PackageInv, Next, pc' \notin Stopped,
         NEW i \in DOMAIN Services
  PROVE  /\ i < current' \/ (i = current' /\ pc' \in AfterWrappers) =>
              Constructed(Written', request, Services[i])
         /\ i < current' \/ (i = current' /\ pc' \in AfterClient) =>
              AllWrapped(wrapped', request, Services[i])
<1> DEFINE s == Services[i]
<1>0. Written \subseteq Written' /\ wrapped \subseteq wrapped'
  BY WrittenGrows, PhaseSteps
<1>1. /\ i < current \/ (i = current /\ pc \in AfterWrappers) => Constructed(Written, request, s)
      /\ i < current \/ (i = current /\ pc \in AfterClient) => AllWrapped(wrapped, request, s)
  BY DEF PackageInv
<1>2. i = current => s = Service
  BY DEF Service
<1>3. \/ current' = current
      \/ pc = "iterExample" /\ current' = current + 1 /\ pc' = "service"
  BY PhaseSteps DEF GenExampleIteratorFile
<1>n. i \in Nat /\ current \in Nat
  BY ServicesAreListed
<1> HIDE DEF s
<1>c. Constructed(Written, request, s) => Constructed(Written', request, s)
  BY <1>0, ConstructedGrows
<1>w. AllWrapped(wrapped, request, s) => AllWrapped(wrapped', request, s)
  BY <1>0, WrappedGrows
<1>4. ASSUME i < current' \/ (i = current' /\ pc' \in AfterWrappers)
      PROVE  Constructed(Written', request, s)
  <2>1. CASE i < current \/ (i = current /\ pc \in AfterWrappers)
    BY <1>1, <1>c, <2>1
  <2>2. CASE ~(i < current \/ (i = current /\ pc \in AfterWrappers))
    <3>1. current' = current
      BY <1>3, <1>4, <1>n, <2>2 DEF AfterWrappers
    <3>2. i = current /\ pc' \in AfterWrappers /\ pc \notin AfterWrappers
      BY <1>4, <2>2, <3>1
    <3> QED
      BY <1>2, <3>2, PhaseSteps, PresentConstructed
  <2> QED
    BY <2>1, <2>2
<1>5. ASSUME i < current' \/ (i = current' /\ pc' \in AfterClient)
      PROVE  AllWrapped(wrapped', request, s)
  <2>1. CASE i < current \/ (i = current /\ pc \in AfterClient)
    BY <1>1, <1>w, <2>1
  <2>2. CASE ~(i < current \/ (i = current /\ pc \in AfterClient))
    <3>1. current' = current
      BY <1>3, <1>5, <1>n, <2>2 DEF AfterClient
    <3>2. i = current /\ pc' \in AfterClient /\ pc \notin AfterClient
      BY <1>5, <2>2, <3>1
    <3>3. AllWrapped(wrapped, request, s)
      BY <1>2, <3>2, PhaseSteps, PresentWrapped
    <3> QED
      BY <1>w, <3>3
  <2> QED
    BY <2>1, <2>2
<1> QED
  BY <1>4, <1>5 DEF s

LEMMA PackageStep ==
  ASSUME EntriesInv, OptionsInv, SurfaceInv, PackageInv, Next, pc' \notin Stopped
  PROVE  PackageInv'
<1>1. request' = request /\ Services' = Services
  BY RequestKept DEF Services
<1>2. Handles' = Handles
  BY <1>1 DEF Handles, OpService
<1>3. OperationDefs' = OperationDefs
  BY <1>2 DEF OperationDefs
<1>4. pc' = "done" => AuxDefs' = AuxDefs
  <2> SUFFICES ASSUME pc' = "done" PROVE AuxDefs' = AuxDefs
    OBVIOUS
  <2>1. wrappers' = wrappers /\ iters' = iters
    BY PhaseSteps DEF GenAuxFile, auxVars
  <2> QED
    BY <2>1 DEF AuxDefs
<1>5. \A i \in DOMAIN Services :
        /\ i < current' \/ (i = current' /\ pc' \in AfterWrappers) =>
              Constructed(Written', request, Services[i])
        /\ i < current' \/ (i = current' /\ pc' \in AfterClient) =>
              AllWrapped(wrapped', request, Services[i])
  BY EachServiceStep
<1>6. \A i \in DOMAIN Services' :
        /\ i < current' \/ (i = current' /\ pc' \in AfterWrappers) =>
              Constructed(Written', request', Services'[i])
        /\ i < current' \/ (i = current' /\ pc' \in AfterClient) =>
              AllWrapped(wrapped', request', Services'[i])
  BY <1>1, <1>5
<1> QED
  BY <1>1, <1>3, <1>4, <1>6, PackageFilesStep DEF PackageInv

-------------------------------------------------------------------------------
LEMMA LinkInvInit == Init /\ EntriesInv => LinkInv
<1> SUFFICES ASSUME Init, EntriesInv PROVE LinkInv
  OBVIOUS
<1>1. /\ Written = {} /\ WrittenRefs = {} /\ iters = {} /\ wrappers = {} /\ wrapped = {}
      /\ current = 1 /\ pc = "helpers"
  BY DEF Init, Written, WrittenRefs, AllDefs, AllRefs, InClient
<1>2. \A i \in DOMAIN Services : ~(i < current)
  BY <1>1, ServicesAreListed
<1>3. CollectedInv
  BY <1>1 DEF CollectedInv, ItersCollected, WrappersCollected, Spelled
<1>4. PackageInv
  BY <1>1, <1>2 DEF PackageInv, AfterWrappers, AfterClient
<1> QED
  BY <1>1, <1>3, <1>4 DEF LinkInv

LEMMA LinkInvStays ==
  ASSUME LinkInv, UNCHANGED vars
  PROVE  LinkInv'
<1>1. /\ Written' = Written /\ WrittenRefs' = WrittenRefs /\ Services' = Services
      /\ request' = request /\ pc' = pc /\ current' = current
      /\ iters' = iters /\ wrappers' = wrappers /\ wrapped' = wrapped
  BY DEF Written, WrittenRefs, AllDefs, AllRefs, vars, cfgVars, loopVars, auxVars, Services
<1>2. Handles' = Handles
  BY <1>1 DEF Handles, OpService
<1>3. OperationDefs' = OperationDefs /\ AuxDefs' = AuxDefs
  BY <1>1, <1>2 DEF OperationDefs, AuxDefs
<1>4. PackageInv' = PackageInv
  BY <1>1, <1>3 DEF PackageInv
<1>5. CollectedInv' = CollectedInv
  BY <1>1 DEF CollectedInv
<1>6. (\A ref \in WrittenRefs : Served(Written, iters, wrappers, request, ref))'
        = (\A ref \in WrittenRefs : Served(Written, iters, wrappers, request, ref))
  BY <1>1
<1> QED
  BY <1>1, <1>4, <1>5, <1>6 DEF LinkInv

LEMMA LinkInvStep ==
  ASSUME LinkInv, SurfaceInv, EntriesInv, OptionsInv, MetaInv,
         Uniform(request), Linkable(request), [Next]_vars
  PROVE  LinkInv'
<1>1. CASE UNCHANGED vars
  BY <1>1, LinkInvStays
<1>2. CASE Next
  <2> SUFFICES ASSUME pc' \notin Stopped PROVE AllServed' /\ CollectedInv' /\ PackageInv'
    BY DEF LinkInv, AllServed
  <2>1. AllServed /\ CollectedInv /\ PackageInv
    BY <1>2, StoppedForGood DEF LinkInv, AllServed
  <2> QED
    BY <1>2, <2>1, ServedStep, CollectedStep, PackageStep
<1> QED
  BY <1>1, <1>2

-------------------------------------------------------------------------------
(* What has been promised is defined when the run is done. *)
LEMMA HelpersDefined ==
  ASSUME LinkInv, pc = "done", NEW ref, HelperRef(request, ref)
  PROVE  \E d \in AllDefs : Fits(ref, d)
<1>1. PICK f \in HelpersIn(request) : ref = Ref(Helper(f), <<"func">>)
  BY DEF HelperRef
<1> DEFINE d == Def(Helper(f), <<"func">>, 0)
<1>2. d \in AllDefs
  BY DEF LinkInv, PackageInv, HelperDefsIn, Written, InClient, Stopped
<1>3. ref = Ref(d.id, <<d.sig[1]>>)
  BY <1>1 DEF Def
<1> HIDE DEF d
<1> QED
  BY <1>2, <1>3, FitsItself

LEMMA EachBehind ==
  ASSUME LinkInv, SurfaceInv, EntriesInv, pc = "done", NEW s \in Range1(request.services)
  PROVE  Constructed(AllDefs, request, s) /\ AllWrapped(wrapped, request, s)
<1>1. PICK i \in DOMAIN Services : Services[i] = s
  BY DEF Range1, Services
<1>2. current > Len(Services)
  BY DEF SurfaceInv, AfterServices, Stopped
<1>3. i < current
  BY <1>2, ServicesAreListed
<1> QED
  BY <1>1, <1>3 DEF LinkInv, PackageInv, Written, InClient, Stopped

LEMMA ConstructorsDefined ==
  ASSUME LinkInv, SurfaceInv, EntriesInv, pc = "done", NEW ref, ConstructorRef(request, ref)
  PROVE  \E d \in AllDefs : Fits(ref, d)
<1>1. PICK s \in Range1(request.services) :
         \E t \in OwnTransports(request, s) : ref = Ref(New(s, t), <<"func">>)
  BY DEF ConstructorRef
<1>2. PICK t \in OwnTransports(request, s) : ref = Ref(New(s, t), <<"func">>)
  BY <1>1
<1>3. PICK d \in AllDefs : d.id = New(s, t) /\ d.sig = <<"func">>
  BY EachBehind DEF Constructed
<1>4. ref = Ref(d.id, <<d.sig[1]>>)
  BY <1>2, <1>3
<1> QED
  BY <1>4, FitsItself

LEMMA CallsDefined ==
  ASSUME LinkInv, SurfaceInv, EntriesInv, Uniform(request), pc = "done",
         NEW ref, MethodRef(request, ref)
  PROVE  \E d \in AllDefs : Fits(ref, d)
<1>1. PICK s \in Range1(request.services) :
         \E m \in MethodsIn(request, s) : ref = Ref(ClientMethod(s, m), <<Call(request, s, m)[1]>>)
  BY DEF MethodRef
<1>2. PICK m \in MethodsIn(request, s) :
         ref = Ref(ClientMethod(s, m), <<Call(request, s, m)[1]>>)
  BY <1>1
<1>3. Callable(request, s, m) \in Surface("client", s)
  <2>1. Surface("client", s) = Offers(request, s)
    BY WholeSurface DEF Services
  <2> QED
    BY <2>1 DEF Offers, Offered, Callables
<1> DEFINE name == s.name
           call == Call(request, s, m)
<1>4. PICK d \in AllDefs : /\ d.id[1] = "client" /\ d.id[2] = name
                           /\ << <<m.name>>, call>> = <<SubSeq(d.id, 3, Len(d.id)), d.sig>>
  BY <1>3 DEF Surface, Callable
<1>5. SubSeq(d.id, 3, Len(d.id)) = <<m.name>> /\ d.sig = call
  BY <1>4
<1>6. Spelling(d.id)
  BY <1>4 DEF LinkInv, CollectedInv, Spelled, Written, InClient, Stopped, Receivers
<1>7. d.id = <<"client", name, m.name>>
  <2> DEFINE a == d.id[1]
             b == d.id[2]
             c == d.id[3]
             e == d.id[4]
  <2>1. d.id = <<a, b, c>> \/ d.id = <<a, b, c, e>>
    BY <1>6 DEF Spelling
  <2> HIDE DEF a, b, c, e
  <2>2. CASE d.id = <<a, b, c, e>>
    <3>1. <<c, e>> = <<m.name>>
      BY <1>5, <2>2, RestOfId
    <3>2. Len(<<c, e>>) = 2 /\ Len(<<m.name>>) = 1
      OBVIOUS
    <3> QED
      BY <3>1, <3>2
  <2>3. CASE d.id = <<a, b, c>>
    <3>1. <<c>> = <<m.name>>
      BY <1>5, <2>3, RestOfId
    <3>2. c = m.name
      BY <3>1
    <3>3. a = "client" /\ b = name
      BY <1>4 DEF a, b
    <3> QED
      BY <2>3, <3>2, <3>3
  <2> QED
    BY <2>1, <2>2, <2>3
<1>8. ref = Ref(d.id, <<d.sig[1]>>)
  BY <1>2, <1>5, <1>7 DEF ClientMethod
<1> QED
  BY <1>8, FitsItself

LEMMA OneOfAName ==
  ASSUME NEW r, IsRequest(r), NamedApart(r), NEW s \in Range1(r.services),
         NEW m \in MethodsIn(r, s), NEW n \in MethodsIn(r, s), m.name = n.name
  PROVE  m = n
<1> DEFINE q == s.methods \o MixinsIn(r)
<1>1. Apart(q)
  BY MethodsApart
<1>2. m \in Range1(q) /\ n \in Range1(q)
  BY DEF MethodsIn
<1> HIDE DEF q
<1> QED
  BY <1>1, <1>2 DEF Apart, Range1

LEMMA WaitsDefined ==
  ASSUME LinkInv, SurfaceInv, EntriesInv, Uniform(request), NamedApart(request), pc = "done",
         NEW ref, WaitRef(request, ref)
  PROVE  \E d \in AllDefs : Fits(ref, d)
<1>0. IsRequest(request)
  BY ServicesAreListed
<1>1. PICK s \in Range1(request.services) : \E m \in MethodsIn(request, s) :
         IsLRO(m) /\ ref = Ref(<<"type">> \o OpName(m), <<"type", WaitShape(m)>>)
  BY DEF WaitRef
<1>2. PICK m \in MethodsIn(request, s) :
         IsLRO(m) /\ ref = Ref(<<"type">> \o OpName(m), <<"type", WaitShape(m)>>)
  BY <1>1
<1>3. <<s.name, m.name>> \in wrapped
  BY <1>2, EachBehind DEF AllWrapped
<1>4. PICK u \in Range1(request.services) : \E n \in MethodsIn(request, u) :
         /\ IsLRO(n) /\ <<s.name, m.name>> = <<u.name, n.name>>
         /\ <<OpName(n), n.info>> \in wrappers
  BY <1>3 DEF LinkInv, CollectedInv, WrappersCollected, Stopped
<1>5. PICK n \in MethodsIn(request, u) :
         /\ <<s.name, m.name>> = <<u.name, n.name>>
         /\ <<OpName(n), n.info>> \in wrappers
  BY <1>4
<1>6. u = s
  <2>1. s.name = u.name
    BY <1>5
  <2> QED
    BY <2>1, DistinctServices
<1>7. n = m
  <2>1. m.name = n.name
    BY <1>5
  <2> QED
    BY <1>0, <1>6, <2>1, OneOfAName
<1> DEFINE w == <<OpName(m), m.info>>
           d == WrapperDef(w)
<1>8. w \in wrappers
  BY <1>5, <1>7
<1>9. m.info.response # "none"
  <2>1. w[2].response # "none"
    BY <1>8 DEF LinkInv, CollectedInv, Stopped
  <2> QED
    BY <2>1
<1>10. d.id = <<"type">> \o OpName(m) /\ d.sig[1] = "type" /\ d.sig[2] = WaitShape(m)
  BY <1>9 DEF WrapperDef, Def, WaitShape
<1>11. d \in AllDefs
  BY <1>8 DEF LinkInv, PackageInv, AuxDefs, Written, InClient, Stopped
<1> HIDE DEF d
<1>12. ref = Ref(d.id, <<d.sig[1], d.sig[2]>>)
  BY <1>2, <1>10
<1> QED
  BY <1>11, <1>12, FitsItself

LEMMA OperationsDefined ==
  ASSUME LinkInv, pc = "done", NEW ref, CustomOpRef(request, ref)
  PROVE  \E d \in AllDefs : Fits(ref, d)
<1>1. OperationDefs \subseteq AllDefs
  BY DEF LinkInv, PackageInv, CustomOpRef, Written, InClient, Stopped
<1>2. CASE ref \in {Ref(<<"type", "Operation">>, <<"type">>),
                    Ref(<<"type", "Operation">>, <<"type", "error">>)}
  <2> DEFINE d == Def(<<"type", "Operation">>, <<"type", "error">>, 0)
  <2>1. d \in AllDefs
    BY <1>1 DEF OperationDefs
  <2>2. \/ ref = Ref(d.id, <<d.sig[1]>>)
        \/ ref = Ref(d.id, <<d.sig[1], d.sig[2]>>)
    BY <1>2 DEF Def
  <2> HIDE DEF d
  <2> QED
    BY <2>1, <2>2, FitsItself
<1>3. CASE \E h \in HandlesIn(request) : ref = Ref(<<"handle", h>>, <<"type">>)
  <2>1. PICK h \in Handles : ref = Ref(<<"handle", h>>, <<"type">>)
    BY <1>3, HandlesAre
  <2> DEFINE d == Def(<<"handle", h>>, <<"type">>, 0)
  <2>2. d \in AllDefs
    BY <1>1 DEF OperationDefs
  <2>3. ref = Ref(d.id, <<d.sig[1]>>)
    BY <2>1 DEF Def
  <2> HIDE DEF d
  <2> QED
    BY <2>2, <2>3, FitsItself
<1> QED
  BY <1>2, <1>3 DEF CustomOpRef

LEMMA TypesDefined ==
  ASSUME LinkInv, pc = "done"
  PROVE  /\ \A p \in iters : \E d \in AllDefs : Fits(IterRef(p), d)
         /\ \A w \in wrappers : \E d \in AllDefs : Fits(WrapperRef(w), d)
<1>1. AuxDefs \subseteq AllDefs
  BY DEF LinkInv, PackageInv, Written, InClient, Stopped
<1>2. ASSUME NEW p \in iters PROVE \E d \in AllDefs : Fits(IterRef(p), d)
  <2> DEFINE d == IterDef(p)
  <2>1. d \in AllDefs
    BY <1>1 DEF AuxDefs
  <2>2. IterRef(p) = Ref(d.id, <<d.sig[1], d.sig[2]>>)
    BY DEF IterRef, IterDef, Def
  <2> HIDE DEF d
  <2> QED
    BY <2>1, <2>2, FitsItself
<1>3. ASSUME NEW w \in wrappers PROVE \E d \in AllDefs : Fits(WrapperRef(w), d)
  <2> DEFINE d == WrapperDef(w)
  <2>1. d \in AllDefs
    BY <1>1 DEF AuxDefs
  <2>2. WrapperRef(w) = Ref(d.id, <<d.sig[1]>>)
    BY DEF WrapperRef, WrapperDef, Def
  <2> HIDE DEF d
  <2> QED
    BY <2>1, <2>2, FitsItself
<1> QED
  BY <1>2, <1>3

LEMMA LinkInvImplies ==
  ASSUME LinkInv, SurfaceInv, EntriesInv, Uniform(request), NamedApart(request)
  PROVE  Linked
<1> SUFFICES ASSUME pc = "done", NEW ref \in AllRefs
             PROVE  \E d \in AllDefs : Fits(ref, d)
  BY DEF Linked
<1>1. Served(AllDefs, iters, wrappers, request, ref)
  BY DEF LinkInv, Written, WrittenRefs, InClient, Stopped
<1>2. CASE Promised(request, ref)
  BY <1>2, HelpersDefined, ConstructorsDefined, CallsDefined, WaitsDefined, OperationsDefined
     DEF Promised
<1> QED
  BY <1>1, <1>2, TypesDefined DEF Served

(* A package that is answered without an error links: every constructor,
   method, helper, iterator, operation type and handle that gen() writes a use
   of - in examples and snippets before the client exists, in one transport's
   methods, in the metadata - is defined by the end of the run, in the way it
   is used.  The request must be Linkable; the run generator_rest_only shows
   what happens when REST alone is asked for of a service without bindings. *)
THEOREM PackageAlwaysLinks ==
  ASSUME \A r \in Requests : Uniform(r) /\ NamedApart(r) /\ Linkable(r)
  PROVE  Spec => []Linked
<1>1. EntriesInv => Uniform(request) /\ NamedApart(request) /\ Linkable(request)
  BY DEF EntriesInv
<1>2. LinkInv /\ SurfaceInv /\ EntriesInv /\ OptionsInv /\ MetaInv /\ [Next]_vars => LinkInv'
  BY <1>1, LinkInvStep
<1>3. SurfaceInv /\ EntriesInv /\ OptionsInv /\ MetaInv /\ [Next]_vars => SurfaceInv'
  BY <1>1, SurfaceInvStep
<1>4. MetaInv /\ [Next]_vars /\ EntriesInv /\ OptionsInv => MetaInv'
  BY MetaInvStep
<1>5. LinkInv /\ SurfaceInv /\ EntriesInv => Linked
  BY <1>1, LinkInvImplies
<1> QED
  BY <1>2, <1>3, <1>4, <1>5, LinkInvInit, SurfaceInvInit, EntriesInvInit, EntriesInvStep,
     OptionsInvInit, OptionsInvStep, MetaInvInit, PTL DEF Spec
=================================================================================
