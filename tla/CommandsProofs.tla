---------------------------- MODULE CommandsProofs ----------------------------
(***************************************************************************)
(* Proofs about Commands, for every set of methods, any input and any      *)
(* number of answers: a command that ends with success has done all of it. *)
(***************************************************************************)
EXTENDS Commands, SequenceTheorems, FiniteSetTheorems, TLAPS

(* Without a receiving goroutine err is what RunE stored there. *)
OneWriter == receiver = "none" /\ err = own

(* The kinds of commands, and what does not change while one runs. *)
Shape ==
  /\ polling \/ follow => cmd.IsLRO
  /\ lines \in Seq(Lines)
  /\ sent \in Nat
  /\ ~cmd.ClientStreaming => lines = <<>> /\ sent = messages
  /\ pc \in {"poll", "input", "call", "return", "exited", "paged", "wait", "recv", "scan",
             "decoded", "send", "sent", "scanned", "close"}

(* The input: each message is sent, about to be, or still to be scanned. *)
Sending ==
  /\ pc \in {"input", "call", "scan"} => sent + MessagesIn(lines) = messages
  /\ pc = "decoded" /\ own = "nil" => sent + 1 + MessagesIn(lines) = messages
  /\ pc = "send" => sent + 1 + MessagesIn(lines) = messages
  /\ pc = "sent" /\ own = "nil" => sent + MessagesIn(lines) = messages
  /\ pc = "scanned" /\ own = "nil" => lines = <<>> /\ sent = messages
  /\ pc = "close" => lines = <<>> /\ sent = messages

(* Where RunE is says what kind of command it is and what it has printed. *)
Printed ==
  /\ pc \in {"input", "call"} => /\ status = "none" /\ answers = <<>>
                                 /\ emitted = <<>> /\ read = 0
  /\ pc = "recv" => /\ cmd.ServerStreaming /\ ~cmd.ClientStreaming
                    /\ read \in 0 .. Len(answers)
                    /\ emitted = SubSeq(answers, 1, read)
  /\ pc = "paged" => status = "ok" /\ emitted = answers /\ ~cmd.ClientStreaming
  /\ pc \in {"scan", "decoded", "send", "sent", "scanned", "close"} => cmd.ClientStreaming
  /\ pc = "poll" => cmd.IsLRO
  /\ pc = "wait" => ~cmd.ClientStreaming
  /\ answers \in Seq(Nat)
  /\ said = "done" => status = "ok"

(* What success means, from the moment RunE is about to return it. *)
Complete ==
  /\ lines = <<>> /\ sent = messages
  /\ (cmd.IsLRO /\ ~follow) \/ (status = "ok" /\ emitted = answers)
Succeeding ==
  /\ pc = "return" /\ own = "nil" => Complete
  /\ result = "nil" => pc = "exited" /\ Complete


(* A bidirectional command promises nothing. *)
Promise == Shape /\ OneWriter /\ Sending /\ Printed /\ Succeeding
IInv == cmd \in {Command(m) : m \in Methods} /\ (~Bidi => Promise)

-------------------------------------------------------------------------------
(* Counting the messages of the input. *)
LEMMA NoMessages == MessagesIn(<<>>) = 0
BY FS_EmptySet DEF MessagesIn

LEMMA MessagesTyped ==
  ASSUME NEW s \in Seq(Lines)
  PROVE  MessagesIn(s) \in Nat
<1>1. {i \in DOMAIN s : s[i] = "message"} \subseteq 1 .. Len(s) /\ Len(s) \in Nat
  BY LenProperties
<1>2. \A n \in Nat : IsFiniteSet(1 .. n)
  BY FS_Interval
<1> QED
  BY <1>1, <1>2, FS_Subset, FS_CardinalityType DEF MessagesIn

LEMMA MessagesScanned ==
  ASSUME NEW s \in Seq(Lines), s # <<>>
  PROVE  /\ Tail(s) \in Seq(Lines)
         /\ MessagesIn(Tail(s)) \in Nat
         /\ MessagesIn(s) = MessagesIn(Tail(s)) + (IF Head(s) = "message" THEN 1 ELSE 0)
<1> DEFINE S == {i \in DOMAIN s : s[i] = "message"}
           T == {i \in DOMAIN Tail(s) : Tail(s)[i] = "message"}
           U == S \ {1}
           f == [i \in T |-> i + 1]
<1>1. /\ Len(s) \in Nat \ {0} /\ DOMAIN s = 1 .. Len(s)
      /\ Tail(s) \in Seq(Lines) /\ DOMAIN Tail(s) = 1 .. Len(s) - 1
      /\ \A i \in 1 .. Len(s) - 1 : Tail(s)[i] = s[i + 1]
      /\ Head(s) = s[1]
  BY HeadTailProperties, LenProperties, EmptySeq
<1>2. IsFiniteSet(S) /\ IsFiniteSet(T)
  <2>1. \A n \in Nat : IsFiniteSet(1 .. n)
    BY FS_Interval
  <2>2. S \subseteq 1 .. Len(s) /\ T \subseteq 1 .. Len(s)
    BY <1>1
  <2> QED
    BY <1>1, <2>1, <2>2, FS_Subset
<1>3. f \in Bijection(T, U)
  <2>1. \A i \in T : f[i] \in U
    BY <1>1
  <2>2. \A i, j \in T : f[i] = f[j] => i = j
    BY <1>1
  <2>3. \A k \in U : k - 1 \in T /\ f[k - 1] = k
    BY <1>1
  <2>4. f \in [T -> U]
    BY <2>1
  <2>5. f \in Injection(T, U)
    BY <2>2, <2>4 DEF Injection, IsInjective
  <2>6. f \in Surjection(T, U)
    BY <2>3, <2>4 DEF Surjection
  <2> QED
    BY <2>5, <2>6 DEF Bijection
<1>4. Cardinality(U) = Cardinality(T) /\ Cardinality(T) \in Nat
  BY <1>2, <1>3, FS_Bijection, FS_CardinalityType DEF ExistsBijection
<1>5. Cardinality(U) = IF 1 \in S THEN Cardinality(S) - 1 ELSE Cardinality(S)
  <2>1. 1 \in S => Cardinality(U) = Cardinality(S) - 1
    BY <1>2, FS_RemoveElement
  <2>2. 1 \notin S => U = S
    OBVIOUS
  <2> QED
    BY <2>1, <2>2
<1>6. 1 \in S <=> Head(s) = "message"
  BY <1>1
<1>7. Cardinality(S) \in Nat
  BY <1>2, FS_CardinalityType
<1> HIDE DEF S, T, U
<1>8. Cardinality(S) = Cardinality(T) + (IF Head(s) = "message" THEN 1 ELSE 0)
  BY <1>4, <1>5, <1>6, <1>7
<1> QED
  BY <1>1, <1>4, <1>8 DEF MessagesIn, S, T

(* What the template makes of a method excludes some combinations. *)
LEMMA CommandKinds ==
  ASSUME cmd \in {Command(m) : m \in Methods}
  PROVE  /\ cmd.ClientStreaming \in BOOLEAN /\ cmd.ServerStreaming \in BOOLEAN
         /\ cmd.IsLRO => ~cmd.ClientStreaming /\ ~cmd.ServerStreaming
         /\ cmd.Paged => ~cmd.ClientStreaming /\ ~cmd.ServerStreaming /\ ~cmd.IsLRO
<1>1. PICK m \in Methods : cmd = Command(m)
  OBVIOUS
<1>2. /\ cmd.ClientStreaming = m.clientStreaming /\ cmd.ServerStreaming = m.serverStreaming
      /\ cmd.IsLRO <=> m.out = "Operation"
      /\ cmd.Paged <=> {"page_size", "page_token"} \subseteq IF m.clientStreaming THEN {} ELSE m.fields
  BY <1>1 DEF Command
<1> QED
  BY <1>2, CommandsAssumption

-------------------------------------------------------------------------------
(* Every action keeps the invariant.  The step of a command that is not
   bidirectional starts from Promise and keeps its kind. *)
LEMMA CommandsInit == Init => IInv
<1> SUFFICES ASSUME Init PROVE IInv
  OBVIOUS
<1>1. /\ lines \in Seq(Lines)
      /\ ~cmd.ClientStreaming => lines = <<>>
  <2>1. \A n \in Nat : [1 .. n -> Lines] \subseteq Seq(Lines)
    BY SeqDef
  <2>2. SeqOf(Lines, MaxLines) \subseteq Seq(Lines)
    BY <2>1, CommandsAssumption DEF SeqOf
  <2>3. <<>> \in Seq(Lines)
    BY EmptySeq
  <2> QED
    BY <2>2, <2>3 DEF Init
<1>2. MessagesIn(lines) \in Nat
  BY <1>1, MessagesTyped
<1>3. Shape /\ OneWriter
  BY <1>1, <1>2, NoMessages DEF Init, Shape, OneWriter
<1>4. Sending
  <2>1. /\ pc \in {"poll", "input"} /\ sent = 0 /\ messages = MessagesIn(lines)
    BY DEF Init
  <2>2. sent + MessagesIn(lines) = messages
    BY <1>2, <2>1
  <2> QED
    BY <2>1, <2>2 DEF Sending
<1>5. Printed /\ Succeeding
  BY EmptySeq DEF Init, Printed, Succeeding
<1> QED
  BY <1>3, <1>4, <1>5 DEF Init, IInv, Promise

LEMMA InputKeeps ==
  ASSUME IInv, ~Bidi, ReadInput \/ CallFails \/ UnaryCall \/ PagedCall \/ PagedReturn \/ StartOperation
  PROVE  Promise'
<1>1. Promise /\ UNCHANGED <<cmd, polling, follow, messages>>
  BY DEF IInv, ReadInput, CallFails, UnaryCall, PagedCall, PagedReturn, StartOperation, setup
<1>2. /\ cmd.ClientStreaming \in BOOLEAN /\ cmd.ServerStreaming \in BOOLEAN
      /\ cmd.IsLRO => ~cmd.ClientStreaming /\ ~cmd.ServerStreaming
      /\ cmd.Paged => ~cmd.ClientStreaming /\ ~cmd.ServerStreaming /\ ~cmd.IsLRO
  BY CommandKinds DEF IInv
<1>3. <<>> \in Seq(Nat) /\ <<1>> \in Seq(Nat)
  OBVIOUS
<1> USE DEF Promise, Shape, OneWriter, Sending, Printed, Succeeding, Complete, Sets,
            setup, input, output
<1>4. CASE ReadInput
  BY <1>1, <1>2, <1>4 DEF ReadInput
<1>5. CASE CallFails
  BY <1>1, <1>2, <1>5 DEF CallFails
<1>6. CASE UnaryCall
  BY <1>1, <1>2, <1>3, <1>6 DEF UnaryCall
<1>7. CASE PagedCall
  BY <1>1, <1>2, <1>3, <1>7 DEF PagedCall
<1>8. CASE PagedReturn
  BY <1>1, <1>2, <1>8 DEF PagedReturn
<1>9. CASE StartOperation
  BY <1>1, <1>2, <1>9 DEF StartOperation
<1> QED
  BY <1>4, <1>5, <1>6, <1>7, <1>8, <1>9

LEMMA OperationKeeps ==
  ASSUME IInv, ~Bidi, Wait \/ PollFollows \/ Poll
  PROVE  Promise'
<1>1. Promise /\ UNCHANGED <<cmd, polling, follow, messages>>
  BY DEF IInv, Wait, PollFollows, Poll, setup
<1>2. /\ cmd.ClientStreaming \in BOOLEAN
      /\ cmd.IsLRO => ~cmd.ClientStreaming
  BY CommandKinds DEF IInv
<1> USE DEF Promise, Shape, OneWriter, Sending, Printed, Succeeding, Complete, Sets,
            setup, input, output
<1>3. CASE Wait
  BY <1>1, <1>2, <1>3 DEF Wait
<1>4. CASE PollFollows
  BY <1>1, <1>2, <1>4 DEF PollFollows
<1>5. CASE Poll
  <2>1. /\ pc = "poll" /\ pc' = "return" /\ ~follow /\ err' = own' /\ own' \in {"nil", "error"}
        /\ UNCHANGED <<lines, sent, status, answers, read, receiver, result>>
    BY <1>5 DEF Poll
  <2>2. said' = "done" => status = "ok"
    BY <1>1, <1>5 DEF Poll
  <2>3. cmd.IsLRO /\ ~cmd.ClientStreaming /\ result # "nil"
    BY <1>1, <1>2, <2>1
  <2> QED
    BY <1>1, <2>1, <2>2, <2>3
<1> QED
  BY <1>3, <1>4, <1>5

LEMMA ServerStreamKeeps ==
  ASSUME IInv, ~Bidi, OpenServerStream \/ Recv \/ StreamEnds
  PROVE  Promise'
<1>1. Promise /\ UNCHANGED <<cmd, polling, follow, messages>>
  BY DEF IInv, OpenServerStream, Recv, StreamEnds, setup
<1>2. cmd.ClientStreaming \in BOOLEAN
  BY CommandKinds DEF IInv
<1> USE DEF Promise, Shape, OneWriter, Sending, Printed, Succeeding, Complete, Sets,
            setup, input, output
<1>3. CASE OpenServerStream
  <2>1. Len(answers) = 0 /\ SubSeq(answers, 1, 0) = <<>>
    BY <1>1, <1>3 DEF OpenServerStream
  <2> QED
    BY <1>1, <1>2, <1>3, <2>1 DEF OpenServerStream
<1>4. CASE Recv
  <2>1. /\ read + 1 \in 0 .. Len(answers)
        /\ SubSeq(answers, 1, read + 1) = Append(SubSeq(answers, 1, read), answers[read + 1])
    <3>1. /\ answers \in Seq(Nat) /\ Len(answers) \in Nat /\ read \in Nat
          /\ read + 1 \in 1 .. Len(answers)
      BY <1>1, <1>4, LenProperties DEF Recv
    <3>2. SubSeq(answers, 1, read + 1) = SubSeq(answers, 1, read + 1 - 1) \o <<answers[read + 1]>>
      BY <3>1, SubSeqRecursiveSecond
    <3>3. SubSeq(answers, 1, read) \in Seq(Nat) /\ answers[read + 1] \in Nat
      BY <3>1, SubSeqProperties
    <3> QED
      BY <3>1, <3>2, <3>3, AppendIsConcat
  <2> QED
    <3>1. /\ pc = "recv" /\ pc' = pc /\ read' = read + 1 /\ err' = "nil" /\ own' = "nil"
          /\ emitted' = SubSeq(answers', 1, read')
          /\ UNCHANGED <<lines, sent, status, answers, receiver, said, result>>
      BY <1>1, <1>4, <2>1 DEF Recv
    <3>2. MessagesIn(lines)' = MessagesIn(lines)
      BY <3>1 DEF MessagesIn
    <3> QED
      BY <1>1, <2>1, <3>1, <3>2
<1>5. CASE StreamEnds
  <2>1. read = Len(answers) => emitted = answers
    BY <1>1, <1>5, SubSeqFull DEF StreamEnds
  <2> QED
    BY <1>1, <1>5, <2>1 DEF StreamEnds
<1> QED
  BY <1>3, <1>4, <1>5

LEMMA ScanKeeps ==
  ASSUME IInv, ~Bidi, Scan \/ ScanEnds
  PROVE  Promise'
<1>1. Promise /\ UNCHANGED <<cmd, polling, follow, messages>>
  BY DEF IInv, Scan, ScanEnds, setup
<1> USE DEF Promise, Shape, OneWriter, Sending, Printed, Succeeding, Complete, Sets,
            setup, input, output
<1>2. CASE Scan
  <2>1. /\ lines \in Seq(Lines) /\ lines # <<>> /\ lines' = Tail(lines)
        /\ sent + MessagesIn(lines) = messages /\ sent \in Nat
    BY <1>1, <1>2 DEF Scan
  <2>2. /\ lines' \in Seq(Lines) /\ MessagesIn(lines') \in Nat
        /\ MessagesIn(lines) = MessagesIn(lines') + (IF Head(lines) = "message" THEN 1 ELSE 0)
    BY <2>1, MessagesScanned
  <2>3. MessagesIn(lines)' = MessagesIn(lines')
    BY DEF MessagesIn
  <2>4. Head(lines) \in {"blank", "message", "bad"}
    BY <1>2, <2>1, HeadTailProperties DEF Scan, Lines
  <2>5. CASE Head(lines) = "blank"
    BY <1>1, <1>2, <2>1, <2>2, <2>3, <2>5 DEF Scan
  <2>6. CASE Head(lines) = "message"
    BY <1>1, <1>2, <2>1, <2>2, <2>3, <2>6 DEF Scan
  <2>7. CASE Head(lines) = "bad"
    BY <1>1, <1>2, <2>1, <2>2, <2>3, <2>7 DEF Scan
  <2> QED
    BY <2>4, <2>5, <2>6, <2>7
<1>3. CASE ScanEnds
  BY <1>1, <1>3, NoMessages DEF ScanEnds
<1> QED
  BY <1>2, <1>3

LEMMA ClientStreamKeeps ==
  ASSUME IInv, ~Bidi,
         OpenClientStream \/ OpenFile \/ Send \/ Check \/ CloseSend \/ CloseAndRecv
  PROVE  Promise'
<1>1. Promise /\ UNCHANGED <<cmd, polling, follow, messages>>
  BY DEF IInv, OpenClientStream, OpenFile, Send, Check, CloseSend, CloseAndRecv, setup
<1>2. /\ cmd.ClientStreaming \in BOOLEAN /\ cmd.ServerStreaming \in BOOLEAN
      /\ UNCHANGED lines => MessagesIn(lines)' = MessagesIn(lines)
  BY CommandKinds DEF IInv, MessagesIn
<1> USE DEF Promise, Shape, OneWriter, Sending, Printed, Succeeding, Complete, Sets,
            setup, input, output
<1>3. CASE OpenClientStream
  BY <1>1, <1>2, <1>3 DEF OpenClientStream, Bidi
<1>4. CASE OpenFile
  BY <1>1, <1>4 DEF OpenFile
<1>5. CASE Send
  <2>1. sent + 1 + MessagesIn(lines) = messages /\ sent \in Nat
    BY <1>1, <1>5 DEF Send
  <2> QED
    BY <1>1, <1>2, <1>5, <2>1 DEF Send
<1>6. CASE Check
  BY <1>1, <1>2, <1>6 DEF Check, Continue, Sees
<1>7. CASE CloseSend
  BY <1>1, <1>7 DEF CloseSend, Bidi
<1>8. CASE CloseAndRecv
  BY <1>1, <1>8 DEF CloseAndRecv
<1> QED
  BY <1>3, <1>4, <1>5, <1>6, <1>7, <1>8

LEMMA ServerKeeps ==
  ASSUME IInv, ~Bidi, Return \/ Receive \/ Fprintln \/ Answers \/ Ends \/ UNCHANGED vars
  PROVE  Promise'
<1>1. Promise /\ UNCHANGED <<cmd, polling, follow, messages>>
  BY DEF IInv, Return, Receive, Fprintln, Answers, Ends, vars, setup
<1>2. UNCHANGED lines => MessagesIn(lines)' = MessagesIn(lines)
  BY DEF MessagesIn
<1> USE DEF Promise, Shape, OneWriter, Sending, Printed, Succeeding, Complete, Sets,
            setup, input, output
<1>3. CASE Return
  BY <1>1, <1>2, <1>3 DEF Return, Sees
<1>4. CASE Receive \/ Fprintln
  BY <1>1, <1>4 DEF Receive, Fprintln
<1>5. CASE Answers
  <2>1. Len(answers) \in Nat /\ answers \in Seq(Nat) /\ answers' = Append(answers, Len(answers) + 1)
    BY <1>1, <1>5, LenProperties DEF Answers
  <2>2. answers' \in Seq(Nat) /\ Len(answers') = Len(answers) + 1
    BY <2>1, AppendProperties
  <2>3. ASSUME read \in 0 .. Len(answers)
        PROVE  SubSeq(answers', 1, read) = SubSeq(answers, 1, read)
    BY <2>1, <2>2, <2>3
  <2> QED
    <3>1. /\ status = "open" /\ cmd.ServerStreaming /\ ~cmd.IsLRO
          /\ UNCHANGED <<pc, err, own, lines, sent, status, read, emitted, receiver, said, result>>
      BY <1>5 DEF Answers
    <3>2. pc = "recv" => read \in 0 .. Len(answers') /\ emitted' = SubSeq(answers', 1, read')
      BY <1>1, <2>1, <2>2, <2>3, <3>1
    <3> QED
      BY <1>1, <1>2, <2>2, <3>1, <3>2
<1>6. CASE Ends
  <2>1. /\ status = "open" /\ answers' \in Seq(Nat)
        /\ cmd.ServerStreaming => answers' = answers
        /\ UNCHANGED <<pc, err, own, lines, sent, read, emitted, receiver, said, result>>
    <3>1. answers \in Seq(Nat) /\ <<1>> \in Seq(Nat)
      BY <1>1
    <3>2. answers' \in {answers, <<1>>}
      BY <1>6 DEF Ends
    <3> QED
      BY <1>6, <3>1, <3>2 DEF Ends
  <2> QED
    BY <1>1, <1>2, <2>1
<1>7. CASE UNCHANGED vars
  BY <1>1, <1>2, <1>7 DEF vars
<1> QED
  BY <1>3, <1>4, <1>5, <1>6, <1>7

(* SuccessIsComplete, from a command's exit back to its input: whichever way
   a command that is not bidirectional ends, success means that every line was
   accepted, its call succeeded and all answers were printed. *)
THEOREM SuccessAlwaysComplete == Spec => []SuccessIsComplete
<1>1. IInv /\ [Next]_vars => IInv'
  <2> SUFFICES ASSUME IInv, [Next]_vars PROVE IInv'
    OBVIOUS
  <2>1. UNCHANGED cmd
    BY DEF Next, RunE, ReadInput, CallFails, UnaryCall, PagedCall, PagedReturn, StartOperation,
           Wait, PollFollows, Poll, OpenServerStream, Recv, StreamEnds, OpenClientStream, OpenFile,
           Scan, Send, ScanEnds, Check, CloseSend, CloseAndRecv, Return, Receive, Fprintln,
           Answers, Ends, setup, vars
  <2>2. ASSUME ~Bidi PROVE Promise'
    BY <2>2, InputKeeps, OperationKeeps, ServerStreamKeeps, ScanKeeps, ClientStreamKeeps, ServerKeeps
       DEF Next, RunE
  <2> QED
    BY <2>1, <2>2 DEF IInv, Bidi
<1>2. IInv => SuccessIsComplete
  BY DEF IInv, Promise, Succeeding, Printed, Complete, SuccessIsComplete
<1> QED
  BY <1>1, <1>2, CommandsInit, PTL DEF Spec
=================================================================================
