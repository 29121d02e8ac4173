------------------------------- MODULE Commands -------------------------------
(***************************************************************************)
(* A command of the generated command line tool: the Command that          *)
(* genCommands of gencli/gencli.go makes of a method, and the process that *)
(* runs what cmdTemplate of gencli/cmd_file.go writes for it, RunE of the  *)
(* command or of its poll command.  The client it calls, the gRPC streams  *)
(* and the server behind them are modelled from their use.                 *)
(*                                                                         *)
(* RunE has a named result.  Its body's `resp, err :=` is in the scope of  *)
(* that result, so there is one variable err, and the goroutine of a       *)
(* bidirectional command assigns it too.  Nothing orders the two: where    *)
(* RunE reads err it may see what it stored there last or what is there.   *)
(*                                                                         *)
(* Operators named Bad... are not the code: each is the definition after   *)
(* it with a plausible defect, kept to show that a property notices it.    *)
(***************************************************************************)
EXTENDS Naturals, Sequences, SequencesExt, FiniteSetsExt

CONSTANTS
  Methods,       (* the methods commands are generated for                  *)
  MaxLines,      (* bound: lines of input of a client-streaming command     *)
  MaxItems       (* bound: messages the server answers on a stream          *)

ASSUME CommandsAssumption ==
  /\ MaxLines \in Nat
  /\ MaxItems \in Nat
  /\ \A m \in Methods :
       /\ m.clientStreaming \in BOOLEAN /\ m.serverStreaming \in BOOLEAN
       /\ m.fields \subseteq {"name", "page_size", "page_token"}
       /\ m.out \in {"Empty", "Operation", "Message"}
       /\ m.response \in {"none", "Empty", "Message"}
       /\ \/ ~m.clientStreaming /\ ~m.serverStreaming
          \/ m.out = "Message" /\ "page_token" \notin m.fields
       /\ "page_token" \in m.fields => m.out = "Message"

(* A line of input: empty, a message in JSON, none, or too long to scan. *)
Lines == {"blank", "message", "bad", "long"}

(* The fields of genCommands's Command that the template branches on.  A
   client-streaming command has no flags, so it is never seen to be paged. *)
Command(m) ==
  LET flags == IF m.clientStreaming THEN {} ELSE m.fields
      lro   == m.out = "Operation"
  IN  [ClientStreaming |-> m.clientStreaming, ServerStreaming |-> m.serverStreaming,
       Flags |-> flags, Paged |-> {"page_size", "page_token"} \subseteq flags,
       IsLRO |-> lro, IsLRORespEmpty |-> lro /\ m.response \in {"none", "Empty"},
       OutputEmpty |-> m.out = "Empty"]

VARIABLES
  cmd,        (* the command that runs                                      *)
  polling,    (* is it the poll command of a long-running one?              *)
  follow,     (* --follow                                                   *)
  pc,         (* of the goroutine of RunE                                   *)
  err,        (* the named result                                           *)
  own,        (* what RunE has last stored in err                           *)
  lines,      (* input not yet scanned                                      *)
  messages,   (* how many messages the whole input has                      *)
  sent,       (* messages the stream has accepted                           *)
  status,     (* of the call or the operation: "none", "open", "ok", "failed" *)
  answers,    (* what the server has answered                               *)
  read,       (* how many of them Recv has returned                         *)
  emitted,    (* what the command has printed or written to its file        *)
  said,       (* what a poll command has printed of Done: "", "done", "not done" *)
  receiver,   (* the receiving goroutine: "none", "recv", "print", "ended"  *)
  result      (* what RunE has returned                                     *)

vars == <<cmd, polling, follow, pc, err, own, lines, messages, sent, status, answers, read,
          emitted, said, receiver, result>>
setup == <<cmd, polling, follow, messages>>
input == <<lines, sent>>
output == <<answers, read, emitted, said, receiver>>

Bidi == cmd.ClientStreaming /\ cmd.ServerStreaming
MessagesIn(s) == Cardinality({i \in DOMAIN s : s[i] = "message"})

Init ==
  /\ cmd \in {Command(m) : m \in Methods}
  /\ polling \in BOOLEAN /\ follow \in BOOLEAN
  /\ polling \/ follow => cmd.IsLRO
  /\ lines \in IF cmd.ClientStreaming THEN SeqOf(Lines, MaxLines) ELSE {<<>>}
  /\ messages = MessagesIn(lines)
  /\ pc = IF polling THEN "poll" ELSE "input"
  /\ status = IF polling THEN "open" ELSE "none"
  /\ err = "nil" /\ own = "nil" /\ result = "none"
  /\ sent = 0 /\ answers = <<>> /\ read = 0 /\ emitted = <<>> /\ said = ""
  /\ receiver = "none"

-------------------------------------------------------------------------------
Sets(e) == err' = e /\ own' = e
Sees(e) == e \in {own, err}

(* RunE ends.  The process ends with it, the receiving goroutine included. *)
Return ==
  /\ pc = "return"
  /\ \E e \in {"nil", "EOF", "error"} : Sees(e) /\ result' = e
  /\ pc' = "exited"
  /\ UNCHANGED <<setup, err, own, input, status, output>>

(* The file of --from_file is opened and, but for a stream of messages, read;
   or the flags are made into a request. *)
ReadInput ==
  /\ pc = "input"
  /\ \/ Sets("nil") /\ pc' = "call"
     \/ /\ cmd.Flags # {} \/ cmd.ClientStreaming
        /\ Sets("error") /\ pc' = "return"
  /\ UNCHANGED <<setup, input, status, output, result>>

CallFails ==
  /\ pc = "call"
  /\ Sets("error")
  /\ status' = "failed"
  /\ pc' = "return"
  /\ UNCHANGED <<setup, input, output, result>>

(* A call with one answer, which is printed. *)
UnaryCall ==
  /\ pc = "call" /\ ~cmd.ClientStreaming /\ ~cmd.ServerStreaming /\ ~cmd.IsLRO /\ ~cmd.Paged
  /\ Sets("nil")
  /\ status' = "ok"
  /\ answers' = IF cmd.OutputEmpty THEN <<>> ELSE <<1>>
  /\ emitted' = answers'
  /\ pc' = "return"
  /\ UNCHANGED <<setup, input, read, said, receiver, result>>

(* Of a paged method, the page that Next has fetched last is printed, also
   when Next has found no item and returns iterator.Done. *)
PagedCall ==
  /\ pc = "call" /\ cmd.Paged
  /\ Sets("nil") \/ Sets("Done")
  /\ status' = "ok"
  /\ answers' = <<1>> /\ emitted' = <<1>>
  /\ pc' = "paged"
  /\ UNCHANGED <<setup, input, read, said, receiver, result>>

PagedReturn ==
  /\ pc = "paged"
  /\ IF err = "Done" THEN Sets("nil") ELSE UNCHANGED <<err, own>>
  /\ pc' = "return"
  /\ UNCHANGED <<setup, input, status, output, result>>

(* Without --follow the name of the operation is handed to printMessage,
   which prints messages only: nothing but an empty line comes out. *)
StartOperation ==
  /\ pc = "call" /\ cmd.IsLRO
  /\ Sets("nil")
  /\ status' = "open"
  /\ pc' = IF follow THEN "wait" ELSE "return"
  /\ UNCHANGED <<setup, input, output, result>>

Wait ==
  /\ pc = "wait"
  /\ \/ /\ status = "ok"
        /\ Sets("nil")
        /\ emitted' = answers
     \/ /\ status = "failed"
        /\ Sets("error")
        /\ UNCHANGED emitted
  /\ pc' = "return"
  /\ UNCHANGED <<setup, input, status, answers, read, receiver, said, result>>

PollFollows ==
  /\ pc = "poll" /\ follow
  /\ pc' = "wait"
  /\ UNCHANGED <<setup, err, own, input, status, output, result>>

(* Poll of the handle returns the response, if there is one and it is there. *)
Poll ==
  /\ pc = "poll" /\ ~follow
  /\ \/ status # "failed" /\ Sets("nil")
     \/ Sets("error")
  /\ IF err' = "nil" /\ status = "ok" /\ ~cmd.IsLRORespEmpty
     THEN emitted' = answers /\ UNCHANGED said
     ELSE /\ said' = IF err' = "error" THEN "" ELSE IF status = "ok" THEN "done" ELSE "not done"
          /\ UNCHANGED emitted
  /\ pc' = "return"
  /\ UNCHANGED <<setup, input, status, answers, read, receiver, result>>

-------------------------------------------------------------------------------
(* Server streaming: print what Recv returns until it returns an error. *)
OpenServerStream ==
  /\ pc = "call" /\ cmd.ServerStreaming /\ ~cmd.ClientStreaming
  /\ Sets("nil")
  /\ status' = "open"
  /\ pc' = "recv"
  /\ UNCHANGED <<setup, input, output, result>>

Recv ==
  /\ pc = "recv" /\ read < Len(answers)
  /\ Sets("nil")
  /\ read' = read + 1
  /\ emitted' = Append(emitted, answers[read + 1])
  /\ UNCHANGED <<setup, pc, input, status, answers, receiver, said, result>>

BadStreamEnds ==   (* whatever ends the loop is taken for its end *)
  /\ pc = "recv"
  /\ \/ status = "ok" /\ read = Len(answers)
     \/ status = "failed"
  /\ Sets("nil")
  /\ pc' = "return"
  /\ UNCHANGED <<setup, input, status, output, result>>
StreamEnds ==
  /\ pc = "recv"
  /\ \/ status = "ok" /\ read = Len(answers) /\ Sets("nil")
     \/ status = "failed" /\ Sets("error")
  /\ pc' = "return"
  /\ UNCHANGED <<setup, input, status, output, result>>

-------------------------------------------------------------------------------
(* Client streaming: scan the input and send one message for each line. *)
OpenClientStream ==
  /\ pc = "call" /\ cmd.ClientStreaming
  /\ Sets("nil")
  /\ status' = "open"
  /\ pc' = IF cmd.ServerStreaming THEN "output" ELSE "scan"
  /\ UNCHANGED <<setup, input, output, result>>

OpenFile ==
  /\ pc = "output"
  /\ \/ Sets("nil") /\ pc' = "scan" /\ receiver' = "recv"
     \/ Sets("error") /\ pc' = "return" /\ UNCHANGED receiver
  /\ UNCHANGED <<setup, input, status, answers, read, emitted, said, result>>

BadScan ==   (* skips the same empty line for ever *)
  /\ pc = "scan" /\ lines # <<>> /\ Head(lines) # "long"
  /\ IF Head(lines) = "blank"
     THEN UNCHANGED <<lines, pc, err, own>>
     ELSE /\ lines' = Tail(lines)
          /\ Sets(IF Head(lines) = "bad" THEN "error" ELSE "nil")
          /\ pc' = "decoded"
  /\ UNCHANGED <<setup, sent, status, output, result>>
Scan ==
  /\ pc = "scan" /\ lines # <<>> /\ Head(lines) # "long"
  /\ lines' = Tail(lines)
  /\ IF Head(lines) = "blank"
     THEN UNCHANGED <<pc, err, own>>
     ELSE /\ Sets(IF Head(lines) = "bad" THEN "error" ELSE "nil")
          /\ pc' = "decoded"
  /\ UNCHANGED <<setup, sent, status, output, result>>

(* Send returns EOF once the server has ended the call, unless that is not
   known yet. *)
Send ==
  /\ pc = "send"
  /\ \/ Sets("nil") /\ sent' = sent + 1
     \/ status # "open" /\ Sets("EOF") /\ UNCHANGED sent
  /\ pc' = "sent"
  /\ UNCHANGED <<setup, lines, status, output, result>>

(* The end of the input, or a line too long for the scanner. *)
ScanEnds ==
  /\ pc = "scan"
  /\ \/ lines = <<>> /\ Sets("nil")
     \/ lines # <<>> /\ Head(lines) = "long" /\ Sets("error")
  /\ pc' = "scanned"
  /\ UNCHANGED <<setup, input, status, output, result>>

(* if err != nil { return err } *)
Continue == [decoded |-> "send", sent |-> "scan", scanned |-> "close"]
Check ==
  /\ pc \in DOMAIN Continue
  /\ \/ Sees("nil") /\ pc' = Continue[pc]
     \/ (Sees("EOF") \/ Sees("error")) /\ pc' = "return"
  /\ UNCHANGED <<setup, err, own, input, status, output, result>>

CloseSend ==
  /\ pc = "close" /\ cmd.ServerStreaming
  /\ Sets("nil")
  /\ pc' = "return"
  /\ UNCHANGED <<setup, input, status, output, result>>

CloseAndRecv ==
  /\ pc = "close" /\ ~cmd.ServerStreaming
  /\ \/ /\ status = "ok"
        /\ Sets("nil")
        /\ emitted' = answers
     \/ /\ status = "failed"
        /\ Sets("error")
        /\ UNCHANGED emitted
  /\ pc' = "return"
  /\ UNCHANGED <<setup, input, status, answers, read, receiver, said, result>>

-------------------------------------------------------------------------------
(* The goroutine that receives, while the process lives. *)
Receive ==
  /\ receiver = "recv" /\ pc # "exited"
  /\ \/ /\ read < Len(answers)
        /\ err' = "nil"
        /\ read' = read + 1
        /\ receiver' = "print"
     \/ /\ \/ status = "ok" /\ read = Len(answers) /\ err' = "EOF"
           \/ status = "failed" /\ err' = "error"
        /\ receiver' = "ended"
        /\ UNCHANGED read
  /\ UNCHANGED <<setup, pc, own, input, status, answers, emitted, said, result>>

Fprintln ==
  /\ receiver = "print" /\ pc # "exited"
  /\ emitted' = Append(emitted, answers[read])
  /\ receiver' = "recv"
  /\ UNCHANGED <<setup, pc, err, own, input, status, answers, read, said, result>>

-------------------------------------------------------------------------------
(* The server: it answers a stream while it pleases, and ends it, or the
   operation.  One answer comes with the success of a call that streams in
   one direction only, or of an operation with a response. *)
Answers ==
  /\ status = "open" /\ cmd.ServerStreaming /\ ~cmd.IsLRO /\ Len(answers) < MaxItems
  /\ answers' = Append(answers, Len(answers) + 1)
  /\ UNCHANGED <<setup, pc, err, own, input, status, read, emitted, receiver, said, result>>
Ends ==
  /\ status = "open"
  /\ \/ /\ status' = "ok"
        /\ answers' = IF cmd.ServerStreaming \/ cmd.OutputEmpty \/ cmd.IsLRORespEmpty
                      THEN answers ELSE <<1>>
     \/ /\ status' = "failed"
        /\ UNCHANGED answers
  /\ UNCHANGED <<setup, pc, err, own, input, read, emitted, receiver, said, result>>

RunE ==
  \/ ReadInput \/ CallFails \/ UnaryCall \/ PagedCall \/ PagedReturn
  \/ StartOperation \/ Wait \/ PollFollows \/ Poll
  \/ OpenServerStream \/ Recv \/ StreamEnds
  \/ OpenClientStream \/ OpenFile \/ Scan \/ Send \/ ScanEnds \/ Check \/ CloseSend \/ CloseAndRecv
  \/ Return
Next == RunE \/ Receive \/ Fprintln \/ Answers \/ Ends

(* The scheduler runs the command, and the server ends what it was asked. *)
Spec == Init /\ [][Next]_vars /\ WF_vars(RunE) /\ WF_vars(Ends)

-------------------------------------------------------------------------------
(* What the exit status tells a script: a command that ends with success has
   had every line of its input accepted and its call, or the operation it
   waited for, has succeeded, and everything the server answered has been
   printed; a poll command says "done" of a finished operation only.
   Bidirectional commands, which the tool's README calls unsupported, promise
   none of it. *)
SuccessIsComplete ==
  result = "nil" /\ ~Bidi =>
    /\ lines = <<>> /\ sent = messages
    /\ (cmd.IsLRO /\ ~follow) \/ (status = "ok" /\ emitted = answers)
    /\ said = "done" => status = "ok"

(* A command always ends: with the server's answer, with its end of the
   stream, or with the end of the input. *)
EveryCommandEnds == <>(pc = "exited")
===============================================================================
