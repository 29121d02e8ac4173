------------------------------ MODULE ServerStreams ------------------------------
(***************************************************************************)
(* A server-streaming call of a generated client: the method that opens    *)
(* the stream (serverStreamRESTCall of gengapic/genrest.go, and for gRPC   *)
(* serverStreamCall of gengapic/stream.go), and Recv of the stream client  *)
(* that REST emits.  The receiver calls Recv until it has an error; it may *)
(* go on after one about a single message.  Meanwhile the server sends,    *)
(* the connection may break, and the context may be cancelled.             *)
(*                                                                         *)
(* gax.ProtoJSONStream is modelled from its use: a decoder over the body   *)
(* of the response that reads ahead.  Closing the body or ending its       *)
(* context does not empty the decoder.  The stream of gRPC is a library's. *)
(*                                                                         *)
(* Operators named Bad... are not the code: each is the definition after   *)
(* it with a plausible defect, kept to show that a property notices it.    *)
(***************************************************************************)
EXTENDS Naturals, Sequences

CONSTANTS
  Transports,    (* clients tried: "grpc", "rest"                           *)
  MaxItems,      (* bound: messages the server sends                        *)
  MaxAttempts    (* attempts the retry options of the caller allow          *)

ASSUME StreamAssumption ==
  /\ Transports \subseteq {"grpc", "rest"}
  /\ MaxItems \in Nat
  /\ MaxAttempts \in Nat \ {0}

Items == {"ok", "bad"}   (* "bad": well-formed JSON, but not the message *)

VARIABLES
  transport,      (* of the client                                          *)
  declared,       (* does the service config set a timeout on the method?   *)
  callerTimeout,  (* has the caller passed gax.WithTimeout?                 *)
  callerCtx,      (* the caller's context: "live" or "ended"                *)
  streamCtx,      (* c.ctx, the context of the attempt that was answered    *)
  pc,             (* of the receiver                                        *)
  tries,          (* attempts to open the stream                            *)
  sent,           (* the items the server has sent                          *)
  closed,         (* has the server ended the stream?                       *)
  wire,           (* what is on its way: items, and "end"                   *)
  broken,         (* has the connection been lost?                          *)
  buffer,         (* what the decoder has read ahead                        *)
  body,           (* the body of the response: "none", "open" or "closed"   *)
  pos,            (* items the receiver has been told of                    *)
  over,           (* what ended the stream for the receiver                 *)
  late            (* was the context over when the present Recv was called? *)

vars == <<transport, declared, callerTimeout, callerCtx, streamCtx, pc, tries, sent, closed,
          wire, broken, buffer, body, pos, over, late>>
configVars == <<transport, declared, callerTimeout>>
serverVars == <<sent, closed, wire, broken>>
clientVars == <<buffer, body, pos, over>>

Init ==
  /\ transport \in Transports
  /\ declared \in BOOLEAN
  /\ callerTimeout \in BOOLEAN
  /\ callerCtx = "live" /\ streamCtx = "live"
  /\ pc = "idle"
  /\ tries = 0
  /\ sent = <<>> /\ closed = FALSE
  /\ wire = <<>> /\ broken = FALSE
  /\ buffer = <<>> /\ body = "none"
  /\ pos = 0 /\ over = "no"
  /\ late = FALSE

-------------------------------------------------------------------------------
(* The default call options of the method: gRPC leaves the timeout of a
   streaming method out, REST does not. *)
DefaultTimeout == declared /\ transport = "rest"

(* The options of the call: gRPC appends the caller's to the defaults, the
   REST method of a stream takes no defaults at all. *)
BadAppliesDefaults == TRUE
AppliesDefaults == transport = "grpc"
HasTimeout == callerTimeout \/ (AppliesDefaults /\ DefaultTimeout)

(* gax.Invoke: with a timeout every attempt has a context derived from the
   caller's, which ends when the time is up or when Invoke returns. *)
Invoke ==
  /\ pc = "idle"
  /\ pc' = "opening"
  /\ UNCHANGED <<configVars, callerCtx, streamCtx, tries, serverVars, clientVars, late>>

BadAttemptFails ==   (* returns the stream that was never made, without the error *)
  /\ pc = "opening"
  /\ tries' = tries + 1
  /\ pc' = IF tries' < MaxAttempts /\ streamCtx = "live" THEN "opening" ELSE "open"
  /\ UNCHANGED <<configVars, callerCtx, streamCtx, serverVars, clientVars, late>>
AttemptFails ==
  /\ pc = "opening"
  /\ tries' = tries + 1
  /\ pc' = IF tries' < MaxAttempts /\ streamCtx = "live" THEN "opening" ELSE "failed"
  /\ UNCHANGED <<configVars, callerCtx, streamCtx, serverVars, clientVars, late>>

(* The attempt is answered: the stream client keeps the attempt's context. *)
AttemptSucceeds ==
  /\ pc = "opening" /\ streamCtx = "live"
  /\ tries' = tries + 1
  /\ pc' = "returning"
  /\ body' = "open"
  /\ UNCHANGED <<configVars, callerCtx, streamCtx, serverVars, buffer, pos, over, late>>

Expires ==
  /\ pc = "opening" /\ HasTimeout
  /\ streamCtx' = "ended"
  /\ UNCHANGED <<configVars, callerCtx, pc, tries, serverVars, clientVars, late>>

InvokeReturns ==
  /\ pc = "returning"
  /\ pc' = "open"
  /\ streamCtx' = IF HasTimeout THEN "ended" ELSE streamCtx
  /\ UNCHANGED <<configVars, callerCtx, tries, serverVars, clientVars, late>>

Cancel ==
  /\ callerCtx = "live"
  /\ callerCtx' = "ended" /\ streamCtx' = "ended"
  /\ UNCHANGED <<configVars, pc, tries, serverVars, clientVars, late>>

-------------------------------------------------------------------------------
(* The server and the connection. *)
ServerSends ==
  /\ body # "none" /\ ~closed /\ Len(sent) < MaxItems
  /\ \E item \in Items :
       /\ sent' = Append(sent, item)
       /\ wire' = IF broken THEN wire ELSE Append(wire, item)
  /\ UNCHANGED <<configVars, callerCtx, streamCtx, pc, tries, closed, broken, clientVars, late>>

ServerCloses ==
  /\ body # "none" /\ ~closed
  /\ closed' = TRUE
  /\ wire' = IF broken THEN wire ELSE Append(wire, "end")
  /\ UNCHANGED <<configVars, callerCtx, streamCtx, pc, tries, sent, broken, clientVars, late>>

(* What has not arrived is lost; the framing of HTTP shows that it is. *)
Breaks ==
  /\ body # "none" /\ ~broken
  /\ broken' = TRUE
  /\ \E n \in 0..Len(wire) : wire' = SubSeq(wire, 1, n)
  /\ UNCHANGED <<configVars, callerCtx, streamCtx, pc, tries, sent, closed, clientVars, late>>

-------------------------------------------------------------------------------
(* Recv. *)
Recv ==
  /\ pc = "open"
  /\ pc' = "recv"
  /\ late' = (streamCtx = "ended")
  /\ UNCHANGED <<configVars, callerCtx, streamCtx, tries, serverVars, clientVars>>

(* return nil, err; defer c.stream.Close(): the body is closed as Recv returns. *)
BadReturnError(what) ==   (* every error is taken for the end *)
  /\ pc' = "open"
  /\ over' = IF over = "no" THEN "end" ELSE over
  /\ body' = "closed"
  /\ UNCHANGED <<configVars, callerCtx, streamCtx, tries, serverVars, late>>
LostReturnError(what) ==   (* the error is not returned *)
  /\ pc' = "open"
  /\ body' = "closed"
  /\ UNCHANGED <<over, configVars, callerCtx, streamCtx, tries, serverVars, late>>
ReturnError(what) ==
  /\ pc' = "open"
  /\ over' = IF over = "no" THEN what ELSE over
  /\ body' = "closed"
  /\ UNCHANGED <<configVars, callerCtx, streamCtx, tries, serverVars, late>>

(* if err := c.ctx.Err(); err != nil *)
BadContextIsOver == FALSE   (* not asked; the decoder answers *)
ContextIsOver == streamCtx = "ended"

ContextError ==
  /\ pc = "recv" /\ ContextIsOver
  /\ ReturnError("failure")
  /\ UNCHANGED <<buffer, pos>>

ContextLives ==
  /\ pc = "recv" /\ ~ContextIsOver
  /\ pc' = "decoding"
  /\ UNCHANGED <<configVars, callerCtx, streamCtx, tries, serverVars, clientVars, late>>

(* c.stream.Recv(): the next value from the decoder ... *)
Delivers ==
  /\ pc = "decoding" /\ buffer # <<>> /\ Head(buffer) = "ok"
  /\ buffer' = Tail(buffer)
  /\ pos' = pos + 1
  /\ pc' = "open"
  /\ UNCHANGED <<configVars, callerCtx, streamCtx, tries, serverVars, body, over, late>>

(* ... which may not be the message: an error about it; gRPC ends the stream. *)
Rejects ==
  /\ pc = "decoding" /\ buffer # <<>> /\ Head(buffer) = "bad"
  /\ buffer' = IF transport = "grpc" THEN <<>> ELSE Tail(buffer)
  /\ pos' = pos + 1
  /\ ReturnError(IF transport = "grpc" THEN "failure" ELSE over)

(* ... or the end of the array: io.EOF. *)
EndOfStream ==
  /\ pc = "decoding" /\ buffer # <<>> /\ Head(buffer) = "end"
  /\ buffer' = Tail(buffer)
  /\ ReturnError("end")
  /\ UNCHANGED pos

(* With nothing read ahead the decoder reads some of what has arrived, or
   waits, or fails because nothing more can. *)
ReadsAhead ==
  /\ pc = "decoding" /\ buffer = <<>> /\ wire # <<>> /\ body = "open"
  /\ \E n \in 1..Len(wire) :
       /\ buffer' = SubSeq(wire, 1, n)
       /\ wire' = SubSeq(wire, n + 1, Len(wire))
  /\ UNCHANGED <<configVars, callerCtx, streamCtx, pc, tries, sent, closed, broken, body, pos,
                 over, late>>

ReadFails ==
  /\ pc = "decoding" /\ buffer = <<>>
  /\ \/ body = "closed"
     \/ streamCtx = "ended"
     \/ broken /\ wire = <<>>
  /\ ReturnError("failure")
  /\ UNCHANGED <<buffer, pos>>

ReceiverStep == \/ Recv \/ ContextError \/ ContextLives \/ Delivers \/ Rejects
                \/ EndOfStream \/ ReadsAhead \/ ReadFails

Next == \/ Invoke \/ AttemptFails \/ AttemptSucceeds \/ Expires \/ InvokeReturns \/ Cancel
        \/ ServerSends \/ ServerCloses \/ Breaks
        \/ ReceiverStep

(* The receiver ranges over the stream, and the server ends it some day.  The
   connection need not break and nobody has to cancel. *)
Fairness == WF_vars(ReceiverStep) /\ WF_vars(ServerCloses)

Spec == Init /\ [][Next]_vars /\ Fairness

-------------------------------------------------------------------------------
(* Types of the state; whoever receives has a stream to receive from. *)
TypeOK ==
  /\ transport \in Transports /\ declared \in BOOLEAN /\ callerTimeout \in BOOLEAN
  /\ callerCtx \in {"live", "ended"} /\ streamCtx \in {"live", "ended"}
  /\ pc \in {"idle", "opening", "returning", "open", "recv", "decoding", "failed"}
  /\ tries \in 0..MaxAttempts
  /\ sent \in Seq(Items) /\ Len(sent) <= MaxItems
  /\ closed \in BOOLEAN /\ broken \in BOOLEAN /\ late \in BOOLEAN
  /\ wire \in Seq(Items \cup {"end"}) /\ buffer \in Seq(Items \cup {"end"})
  /\ body \in {"none", "open", "closed"}
  /\ pos \in 0..MaxItems
  /\ over \in {"no", "end", "failure"}
  /\ pc \in {"open", "recv", "decoding"} => body # "none"

(* The context of an open stream ends only by the caller's doing, by cancelling
   or by passing a timeout: the timeout that the service config declares for
   the method, which would end the stream as soon as it is open, must reach
   neither transport (grpcCallOptions, serverStreamRESTCall). *)
OnlyTheCallerEndsIt == streamCtx = "ended" => callerCtx = "ended" \/ callerTimeout

(* A Recv that is called after the context has ended returns no message,
   although the decoder may still hold some (c.ctx.Err in Recv). *)
NothingAfterCancel == [][pos' # pos => ~late]_vars

(* A receiver that goes on calling Recv comes to the end or to a failure. *)
EveryStreamEnds == pc = "open" ~> over # "no"

(* Messages arrive in order, none twice and none left out, and io.EOF means
   that the server has sent no more. *)
Stream == INSTANCE MessageStream
ReceivesStream == Stream!Spec
==================================================================================
