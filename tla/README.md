# gapic-generator-go in TLA+

This directory models gapic-generator-go: the protoc plugins
`protoc-gen-go_gapic` (`internal/gengapic`) and `protoc-gen-go_cli`
(`internal/gencli`), and the Go clients the first one emits. The generator is a
sequential program whose difficulty is consistency: many passes over the same
descriptors, sharing one printer and one configuration, must agree with each
other. The emitted clients are where concurrency, retries and remote failures
are; their source is the `printf` templates of the generator, and the `.want`
files of `internal/gengapic/testdata` show the result.

## 1. Inventory

| component | code | state | operations | hard behaviour |
|---|---|---|---|---|
| generation pipeline | `gengapic.go`, `generator.go`, `client_init.go`, `example.go`, `snippets.go`, `metadata.go`, `auxiliary.go`, `lro.go`, `stream.go` | the printer, the import set, `cfg.transports`, `aux` (iterators, operation wrappers), snippet and gapic metadata, the response | `gen`, one pass per file | state shared by all passes; what one pass collects another defines; errors half way; dropped errors |
| gRPC emitter | `gengrpc.go` | none of its own | constructor, call options, one method per RPC kind | same surface as the interface |
| REST emitter | `genrest.go` | none of its own | the same, plus transcoding | same surface; methods without bindings |
| paging iterators (emitted) | `paging.go`, `pagingRESTCall` | captured request, buffer, `Response`, `PageInfo` | the paging method, `InternalFetch`, `Next`, `PageInfo`, `All` | buffering across pages, direct fetches, aliasing of the request, termination |
| unary calls (emitted) | `gengrpc.go`, `genrest.go`, `gengapic.go` | `CallOptions`, `xGoogHeaders`, the caller's message, per-call locals | options, headers, request ids, `gax.Invoke` | shared slices under concurrent calls, retries, late requests |
| long-running operations (emitted) | `lro.go`, `auxiliary.go` | wrapper, `pollPath` | `Wait`, `Poll`, by name | polling against completion, cancellation |
| custom operations (emitted) | `custom_operation.go` | handle with the last seen message | `Wait`, `Poll`, `Done` | the message changes although `Poll` fails; back-off |
| server streams (emitted) | `serverStreamRESTCall`, `stream.go` | context, decoder with what it has read ahead, body | opening with retries, `Recv` | cancellation racing data, the attempt's context, a lost connection |
| mixins | `mixins.go` | global descriptor table, `g.mixins` | collect, override check | a method defined twice |
| plugin options | `options.go`, `feature.go` | `generatorConfig` | parse, validate | order, repetition, partial matches |
| service config | `grpc_service_config/config.go` | policies, timeouts | lookup by method, then service | present-but-empty entries hide others |
| transcoding, routing headers | `genrest.go`, `gengapic.go`, `helpers.go` | none | path, query and body fields, header matches | every field once; later match wins |
| resource-name heuristics | `heuristics.go` | vocabulary | learn nouns, walk a pattern | unknown nouns, verbs and versions inside a pattern |
| CLI generator | `gencli` | commands | `genCommands`, one template per file | silently dropped commands, equal file names |
| commands (emitted) | `cmd_file.go`, `root_file.go` | the request, the named result `err`, the stream | `RunE`, the poll command | what the exit status promises; the bidirectional command receives in the background and shares `err` |
| snippets, descriptor index, printer | `internal/snippets`, `pbinfo`, `printer` | maps, a buffer | lookups | nil entries |
| docs, markdown, entry points | `doc_file.go`, `markdown.go`, `cmd` | none | formatting, I/O | none |

The pipeline calls everything else and owns all mutable state. The emitters
write into the pipeline's printer and register iterators, operation wrappers
and metadata, which `auxiliary.go`, `operations.go` and `gapic_metadata.json`
are printed from at the end. An emitted client delegates from an exported
`XClient` to an `internalXClient` interface with one implementation per
transport; these call gax, `iterator.PageInfo` and the longrunning library,
which are not part of the repository and are modelled from their use.

What makes each component correct: the files of a package fit together and the
transports have one surface (pipeline, emitters, mixins); a list is read exactly
once and in order (paging); calls are independent and performed at most once
(unary calls); an operation's outcome is reported once it is known
(operations); a stream delivers a prefix and ends (streams); the configuration
is what was asked for (options, service config); every field of a request is
sent once (transcoding); a command that succeeds has done all it was asked
(commands). The `hazards` of PROJECT.json list, line by line, where
this can go wrong.

## 2. Modules

| module | what it models |
|---|---|
| `PagedList` | abstract: reading a list exactly once, in order |
| `PagingIterator` | the emitted iterator, its `PageInfo`, callers and server |
| `MCPagingIterator` | instances for TLC |
| `PagingIteratorProofs` | theorems about `PagingIterator` |
| `Generator` | `gen()`, one step per method visited, one per committed file |
| `MCGenerator` | the requests TLC tries |
| `GeneratorProofs` | theorems about `Generator` and the package it answers with |
| `AtMostOnceCalls` | abstract: a call is performed at most once |
| `UnaryCalls` | concurrent unary calls on one client, retries, server |
| `MCUnaryCalls` | instances for TLC |
| `UnaryCallsProofs` | theorems about `UnaryCalls` |
| `ServiceConfig` | the gRPC service config and the call options derived from it |
| `PluginOptions` | `configFromRequest`: arguments, service configs, validation |
| `MCPluginOptions` | an instance for TLC |
| `PluginOptionsProofs` | theorems about `PluginOptions` |
| `AwaitedOperation` | abstract: an operation ends once, and waiting reports that end |
| `CustomOperations` | what the generator knows of operation services, as operators |
| `OperationPoll` | operation handles, their owners and the server |
| `MCOperationPoll` | an instance for TLC |
| `OperationPollProofs` | theorems about `OperationPoll` |
| `MessageStream` | abstract: a stream is read in order, to its end or to a failure |
| `ServerStreams` | opening a server stream, `Recv`, the connection and the server |
| `MCServerStreams` | an instance for TLC |
| `ServerStreamsProofs` | theorems about `ServerStreams` |
| `ResourceNames` | the resource a URL pattern names, as operators |
| `Transcoding` | path, query, body and routing headers of a REST request |
| `MCTranscoding` | an instance for TLC |
| `TranscodingProofs` | theorems about `Transcoding` |
| `Commands` | the process of a command of the generated tool |
| `MCCommands` | an instance for TLC |
| `CommandsProofs` | the theorem about `Commands` |

What composes with what: `OperationPoll` and `Generator` take custom operations
the same way, and `OperationPoll` extends `CustomOperations`; `PluginOptions`
extends `ServiceConfig`, and `Transcoding` extends `ResourceNames`; `PagingIterator`, `UnaryCalls`, `OperationPoll` and
`ServerStreams` each implement an abstract module, `PagedList`,
`AtMostOnceCalls`, `AwaitedOperation` and `MessageStream`.

Definitions named `Bad...` are variants with a defect, one before each
definition they imitate. They are not part of any specification; they document
which mistake in the code a property would notice.

### PagingIterator

State: `heap` holds the request messages, `req[it]` the message the
`InternalFetch` closure captured (its clone, `CapturedReq`), `items`,
`response`, `token`, `maxSize`, `atEnd`, `err` the fields of the iterator and of
`iterator.PageInfo`, `asked` and `wire` the locals of a fetch in flight.
`Call` is the paging method; `FetchNextPage`, `FetchSucceeds` and `FetchFails`
are `fetch` around `InternalFetch`; `Probe` is a direct call of the exported
`InternalFetch`; `CallNext`, `NextReturnsItem`, `NextReturnsDone` are `Next`;
`EditRequest` is a caller that changes its message at any time. gRPC marshals
the request in each attempt and REST before the first, which `Sent`
distinguishes. `ServerMayAnswer` lets the server choose pages, empty ones
included. Page tokens are offsets. A fetch of `Next` starts only on an empty
buffer, as in `PageInfo`, so that appending a page and overwriting the buffer with
it come to the same. `MaxInt32` is scaled down so that sizes
beyond it, and the wrap of the conversion, occur. One goroutine owns an
iterator, as Go slices require.

### Generator

State: the printer (`buffer`, reset where the code calls `reset`), the response
(`files`), `transports` and the local that saves them, the collected iterators
and wrappers, both passes of snippet metadata, gapic metadata, and the program
counter with its loops. Text is abstracted to the identifiers a file defines,
each with a signature, and those it uses, each with the part of the signature
the use depends on. Methods are classified by `Kind` in the order each pass
tests them: `InterfaceOrder`, `ClientOrder`, `TransportOrder`, `ExampleOrder`.
A method has a name, types, paging fields, `operation_info` and two facts about its
annotations that the code keeps apart: `opts`, whether it has options at all, and
`http`, the verb of its rule. `getHTTPInfo` returns nil only without options, so
REST refuses such a method (`TransportError`), while one with other options and no
rule passes. `request.mixins` holds the methods of the three mixins as collected and
`apis` how many APIs the service config lists: with one there are no mixins, and a
service that declares a configured method of IAMPolicy keeps that mixin out of all
clients (`Mixins`).
Each error return is an action (`SnippetFails`, `InterfaceFails`,
`TransportFails`, `ExampleFails`); the error that `clientInit` drops is not, and
leaves the wrapper out. A nil dereference in the snippet metadata is the state
`panicked`.

Left out of the text: import sets, comments, doc strings, options and method
bodies. The requests of the passing run leave out what is known to go wrong: REST only
with a service without bindings, which has a run of its own; a request message
of a streaming method in another Go package than its service
(`client_init.go:134` qualifies the stream type with the package of the request,
every transport with that of the service, so that no client implements its
interface: `SameSurface` fails); and two paged element types of one name in two
packages (`paging.go:139` hands the second the iterator of the first, although
the comment at `auxiliary.go:38` takes the name to determine the type: `Linked`
fails); and a service that declares a method of a configured Locations or Operations
mixin. `hasLocationMixin` and `hasLROMixin` (`mixins.go:206`, `194`) do not look at
the services as `hasIAMPolicyMixin` does, so the client has that method twice and
`DefinedOnce` fails; no comment promises otherwise. They leave out also what protoc or the authors exclude: two services of
one name, a repeated transport, two operation services named by one client, a
streaming RPC returning `Empty`, and custom operations with a transport other
than REST, for which the interface returns the wrapper while gRPC would return
the message.

### UnaryCalls

State: backing arrays (`memory`) and slices into them, the options structs and
the two pointers to them (the client's `field`, the internal client's
`CallOptions`), messages with their request id, and for each goroutine the
locals of the emitted method. A call passes the steps of `Order`, gRPC and REST
each in the order of its template: routing headers (`AppendHeaders`), their
copy into the context (`InsertMetadata`), the request id (`FillId`, after which
REST marshals), the options (`AppendCallOpts`), `Invoke`, and then attempts.
Other goroutines run between any two steps. An attempt puts a request on the
network; the server may take it at any later time, also after the caller has
retried or given up, and performs it unless it knows the id. Only requests with
an auto-populated id are modelled, since only those are deduplicated; paging,
long-running and REST methods without options differ in what they skip.
Go's rules are the callers': a message is not touched while a call uses it, and
the fields of the client only change while no call runs, as the comment on
every client says. `Close` is left out: it may not run beside a call, and a call
after it is the user's error. Timeouts appear as attempts that fail at any time.

### ServiceConfig and PluginOptions

`ServiceConfig` has no state: its operators are one turn of the loop of `New`
(`Record`), the four accessors (`Lookup`) and the default call options of both
emitters. `PluginOptions` is `configFromRequest`. State: `cfg`, the local maps
of `New` while it reads a file, and what is returned; `args` and `entries` record
what was read, so that properties can say what was asked for. Every option is
an action, which changes the configuration or ends the parsing with an error;
`ReadName` is one turn of the loop of `New`; `Validate` ends the parsing.
An argument is modelled as the tables see it (a bare word, key and value, or
one of the two prefixes), so what falls through all of them is visible
(`IgnoredArg`). Two kinds of argument are invalid by the documentation and accepted
by the code (`Overlooked`): a deprecated argument with a value, as it used to be
given, although the comment on `DeprecatedArgs` (`options.go:43-44`) wants it to
fail; and a release level other than `alpha` and `beta`, the ones the repository's
README calls acceptable (lines 91-93), which `withReleaseLevel` stores unseen.
`Invalid` counts both. `AcceptedIffValid` makes no claim about requests that contain
one; without that exception TLC finds a configuration returned for either.
Paths are sequences of characters, because
the module is compared as a string: module `a` accepts package `ab`, whose
directory then keeps the prefix, as does any package if the module ends in a
slash. `FilesWithinModule` states what holds. Transports are appended in any
order and sorted, `grpc` before `rest`; `Sorted` is some ascending arrangement,
as `sort.Slice` does not keep the order of equal ones. `OptionsAssumption` says
what splitting a string gives: a `transport` argument has at least one part, and
a path is a sequence. Left out: splitting and trimming
the parameter, decoding the files, durations below a millisecond, the mapping
of codes to HTTP.

### CustomOperations and OperationPoll

`CustomOperations` is what `custom_operation.go` decides while it generates:
which service manages a method's operations (`customOpServices`), which fields
polling needs (`pollingRequestParameters`, taken from the first method that
names the service, `pollingParams`), and what a handle is given
(`customOpInit`). `OperationPoll` is what happens then. State: the operations of
the server; for each handle the message it holds (`proto`), its polling
parameters and path, the method in progress, the polling call in flight and what
was last reported. `Poll` sends the request (`PollRequest`); `Answered` stores
the message and only then looks at the error code and at the status (`Stored`,
`After`), in the order of the template; `Wait` is `Poll` again after a pause,
which may be interrupted. Handles are created by a method (`CreateCustom`,
`lroCall`, `lroRESTCall`) or from a name (`FromName`); two may stand for one
operation, and each has one owner, as nothing in the emitted type locks. The
server gives operations names that repeat in other places, which is why the
polling parameters matter. The longrunning library is modelled from its use.
Pauses have no length, so back-off is not visible.

### ServerStreams

State: the caller's context and that of the attempt (`streamCtx`), what the
server has sent, what is on its way (`wire`), what the decoder has read ahead
(`buffer`), and how far the receiver is. `Invoke`, `AttemptFails`,
`AttemptSucceeds`, `Expires` and `InvokeReturns` are `gax.Invoke` around the
function that opens the stream: an attempt with a timeout has a context of its
own, which ends when `Invoke` returns. Recv's check of the context and the call
of the decoder are separate steps (`ContextIsOver`, `ContextLives`), because the
context may end between them, and then the decoder may still hand out messages (over gRPC the
check is the library's, and modelled after REST's):
`NothingAfterCancel` speaks of calls of `Recv` after the end only. Recv closes
the body when it returns an error (`ReturnError`), and a receiver may call it
again after a message it could not read. The framing of HTTP is assumed to tell a
body that was cut off from one that ended. REST applies no default options to
streams, or their timeout would end each stream as it opens.

### Transcoding

What the generator decides (`getLeafs`, `pathParams`, `queryParams`) are
operators over a tree of fields; what the emitted method does with a request is
four steps, `MarshalBody`, `BaseURL`, `QueryString`, `InsertHeaders`. A value is
absent, the default or another one; for routed strings the text counts, through
the value that each routing parameter captures. Escaping, formatting and the
matching of patterns are left out. `EachFieldOnce` says what the code does, with
its limits: a field inside a repeated message is never a query parameter
(`getLeafs` does not go into one), a recursive message is followed until a field
repeats, an explicit default in a oneof is not sent in the query although the
server cannot know it (`genrest.go:516`), and what the path binds is sent again
in the body when the whole request is the body. A request that can contain
another one of its type has a further limit: `getLeafs` leaves the body's field
out at any depth (`genrest.go:399`), so that of the inner request it is sent
nowhere. `OthersInQuery`, the part of `EachFieldOnce` that is the comment of
`queryParams` word for word ("If, and only if", `genrest.go:340`), holds for all
other requests only: with a field `parent` of the request's own type, TLC finds the
leaves below the body's field of `parent` in no path, body or query.
`TranscodingAssumption` says what a descriptor set is: fields belong to one message, a repeated field has
no presence, and a body is a field of the request or the whole of it. The loops of
the generator are recursive functions over the indices of what they go through,
which can be reasoned about.

`InsertHeaders` also names the resource that telemetry is told of
(`resourceNameField`): an annotated field, or what `identifyHeuristicTarget`
finds in the pattern. `ResourceNames` has both halves of the heuristics: the
vocabulary that methods with standard names teach, and the walk backwards from a
variable over literals and known pairs. A pattern is a sequence of segments, each
a version, a literal with or without a verb, or a variable; the splitting of the
string and the list of standard names are abstracted. `ResourceIsWhole` compares
the walk with a reference that looks at the pattern from the front. A literal
that starts with `v` and a digit counts as a version wherever it stands, so a
collection of such a name ends the resource before it; the name of a pattern
without a version begins with its leading slash.

### Commands

`Command` is the part of `genCommands` that the template branches on. The rest
is one run of the emitted process, from the input to the exit. `err` is the
named result of `RunE`; all `:=` in its body assign that one variable, and so
does the goroutine that receives for a bidirectional command. This is a data
race, so where `RunE` reads `err` it sees what it stored last (`own`) or what is
there (`Sees`); `Check` is the test after each assignment. That every line is decoded
into one message, where fields of an earlier line may remain, is not modelled. The process ends with
`RunE` (`Return`), and the receiver with it. The server may answer, end and fail
at any time, also before it has read everything.

`SuccessIsComplete` is what a script may conclude from exit status 0. It does not
hold for bidirectional commands, which the tool's README (line 111) calls
unsupported although they are generated: a received message can overwrite the
error of a bad line, the end of the stream can turn a good line into a failure,
and the process exits with answers unread. Two more limits show in the model: a
long-running command without `--follow` hands the operation's name to
`printMessage`, which prints protobuf messages only (`root_file.go:72-86`), so
the name that the poll command needs never appears (`StartOperation` emits
nothing); and a server that answers a client stream early makes `Send` return
EOF, which the command returns as its error. Streaming methods with an empty
response or page fields are left out of `Methods`: their commands do not
compile, for lack of an import or of a variable.

## 3. Runs

| run | instance | what it shows |
|---|---|---|
| `paging` | a gRPC and a REST iterator from one message, 2 items, uint32 page size | delivered and buffered items are one run of the list (`Contiguous`), `Done` means its end (`DoneMeansExhausted`), it starts where asked (`StartAsRequested`), `Response` is the page being delivered (`ResponseIsCurrent`), callers' messages are not written to (`CallerRequestsUntouched`), and the whole implements `PagedList` (`ReadsPagedList`) |
| `paging_ends` | one REST iterator, 3 items, int32 page size | every iteration ends (`EveryIterationEnds`), no page exceeds the size asked for (`PageWithinAsked`) |
| `generator` | 992 requests, with no, one or three mixins | `Linked`, `DefinedOnce`, `SameSurface`, `MetadataMatches`, `OptionsKept`, `EntriesExist`, `SnippetsExplained` |
| `generator_rest_only` | REST only, a service without bindings | violated: its snippet calls a REST constructor nobody generates |
| `unary` | two goroutines, two calls, two attempts each, both transports | options and headers stay apart (`OptionsAreOwn`, `HeadersAreOwn`), retries reuse the id (`RetriesReuseId`), each call is performed at most once and succeeds only if performed (`PerformsAtMostOnce`), slices stay within their arrays (`TypeOK`) |
| `unary_reused_message` | one goroutine, one message passed twice | violated: an id in a message need not come from its user |
| `unary_rest_options` | a REST client | violated: `CallOptions` does not point back to the client |
| `options` | up to three of 32 arguments, service configs of up to two entries | the result is what was asked for (`OptionsAsGiven`, `FilesWithinModule`), is returned exactly for valid arguments, overlooked ones apart (`AcceptedIffValid`), and call options are those declared last (`CallOptionsAsDeclared`) |
| `operations` | two handles, two operations, five APIs (complete, with an unneeded annotation, incomplete in one method or the other, long-running on both transports) | polls ask for the right operation if the API is annotated completely (`AsksForItsOperation`), `Done` is final and `Name` stays (`DoneIsFinal`), every `Wait` ends (`EveryWaitEnds`), and handles implement `AwaitedOperation` (`ReportsOutcome`) |
| `streams` | one stream of up to three messages on either transport, two attempts, with and without timeouts | only the caller ends a stream early (`OnlyTheCallerEndsIt`), no message after a cancellation (`NothingAfterCancel`), every stream ends (`EveryStreamEnds`), and receivers see a `MessageStream` (`ReceivesStream`) |
| `transcoding` | 21 methods with patterns of every shape, a request with every kind of field, nested, recursive and repeated | each value is sent once, and may be a query parameter only if neither path nor body has it (`EachFieldOnce`), routing headers carry the last capture (`RoutedOnce`), and the resource named is whole (`ResourceIsWhole`) |
| `commands` | methods of every kind, up to three lines of input and three answers | success means that all was sent, answered and printed (`SuccessIsComplete`), and every command ends (`EveryCommandEnds`) |

The three violated runs are findings: each property is a sentence of a comment
in the source, quoted in PROJECT.json with the line that contradicts it.
`unary_reused_message` has a consequence worth naming: with `ReuseMessages` TRUE
`PerformsAtMostOnce` fails as well, because the second call succeeds without
being performed.

Why the bounds are enough. Iterators share only the caller's message, so two
suffice; two items and pages of any size give an empty, a partial and a full
page, a page after it and the end; one direct fetch can fall between any two
steps; three items and two empty pages bound the liveness run. For the
generator, each defect the properties look for needs at most two methods or two
services, so all pairs of a pool with every method kind and every error are
tried, with all transports, with and without snippets and metadata, and with no
mixin, with IAMPolicy, or with all three; the pool has methods that IAMPolicy and
Locations have too.
Calls interfere pairwise through one backing array; two attempts give a late
request and a repetition; `MaxOptions` lets the options slice start full or
with spare capacity and grow in either way. Three arguments are a package and
any two others, or one option repeated around it; two entries are an entry and a
later one of the same name, or one of a service and one of its method.

Two operations can differ in place and share a name, or share a place and
differ in name, and two handles can stand for one of them or for both. A stream
of three messages can be read, read ahead and cut between any two of them; a
refused message can come first, between others and last. Two leaves of a request
(`MaxSet`) that are not left alone meet every pair of path, query and body. Three
lines are a good one between two others.

`MaxProbes`, `MaxEmpty`, `MaxCalls`, `MaxAttempts`, `MaxOptions`, `MaxArgs`,
`MaxEntries`, `MaxOps`, `MaxItems`, `MaxSet` and `MaxLines` are bounds of the
models, not of the code (what gax is given has no limit of attempts); `Places` and
`Apis` name the requests and annotations that are tried. Deadlock is not checked where the system stops: the generator
after its last file or an error, the options once they are returned, the callers
of `UnaryCalls` after `MaxCalls` calls, a request once it is sent, a stream that
could not be opened, a command that has exited, and handles whose operations
have all been created. It is checked for `PagingIterator`, whose callers can always
edit a request.

Fairness is assumed where something must happen. `paging_ends`: weak fairness
of the steps of an iterator whose owner keeps calling `Next`, which is what
ranging over it means, and of answers, because every attempt ends with an answer
or an error (a server that never answers is ended by the transport or the
context). Nothing is assumed about callers that edit requests or probe, and the
server may choose its pages freely, except that `MaxEmpty` bounds the pages
without items: a server that sends empty pages for ever keeps any client busy.
`operations`: a goroutine inside `Poll` or `Wait` goes on, polling calls are
answered or fail, and each operation ends some day; without the last, `Wait` may
wait for ever, and should. Nobody has to call, and polls may fail every time.
`streams`: the receiver goes on calling `Recv`, and the server closes the stream
some day. `commands`: the process runs and the server ends what it was asked;
input is finite.

## 4. Proofs

Everything below is checked by TLAPS and holds for all values of the constants
that satisfy the assumption of their module: `PagingAssumption`,
`RequestsAssumption`, `UnaryAssumption`, `OptionsAssumption`,
`CustomOperationsAssumption` with `OperationAssumption`, `StreamAssumption`,
`TranscodingAssumption`, `CommandsAssumption`. Some theorems have a hypothesis
more, which they state: `~ReuseMessages` (calls), `Uniform`, `NamedApart` and
`Linkable` (generated surfaces, definitions and uses), and `BodyNotNested`
(fields of a request). The instances of the passing runs satisfy all of them. What
fails without them is shown by `unary_reused_message` and `generator_rest_only`, and
told in section 2.

`PagingIteratorProofs`: `TypeCorrect`; `InvariantHolds` for `IInv`;
from it `PagesAreContiguous`, `DoneIsTheEnd`, `StartsWhereAsked`,
`CallersKeepTheirMessages`, and the refinement `ImplementsPagedList`.
`Contiguous` alone is not inductive: it says nothing about the page token or a
fetch in flight. `IInv` adds, for each iterator, that it works on its own
message; that before the first fetch nothing is buffered and the token agrees
with where the caller asked to start (`Untouched`); that while a fetch is in
flight both the message and what REST has on the wire stand at the next
position (`InFlight`); that otherwise the token continues the buffer, or the
buffer ends the list (`Synchronised`); and that `Done` was reached at the end
(`Ended`). There is one lemma per action. The refinement maps a position to
`start + Len(seen)`; fetching the first page is `Start`, delivering an item
`Deliver`, and all other steps stutter. `RawResponseIsCurrent` is inductive
relative to `IInv`, which supplies that a fetch starts only when the buffer is
empty. `PagesAreWithinAsked` needs `SizeInv`, that the size in the message of a
fetch in flight, gRPC or REST, is the one clamped and converted from what
`PageInfo` was asked for; `ToFieldKeeps` is the arithmetic of that conversion:
after the clamp to `MaxInt32`, wrapping at the field's width changes nothing.

`GeneratorProofs`: `OptionsAlwaysKept` from `OptionsInv`, which adds that inside
a service the saved transports are the original ones and the present ones were
derived from them; `EntriesAlwaysExist` from `EntriesInv`, which follows the
snippet loop: what has left its list is listed, so the wrapper pass, which
visits the same methods and skips the same ones, finds every entry;
`AuxiliaryTypesAreUnique`, which is inductive by itself. The properties of the
finished package need to know what has been printed: `Written` is what the
committed files define, with the client still in the printer, and one lemma per
printing step says what it adds (`HelpersWritten` to `AuxWritten`); all other
steps add nothing (`QuietWrites`), so that nothing is lost before the run fails
(`WrittenGrows`). `MetadataAlwaysMatches` then follows from `MetaInv`: the
metadata names exactly what is written, where it matters that the type of an
operation wrapper has an identifier no method can have.
`SnippetsAlwaysExplained` follows from `SnippetInv`: what the first pass listed
and the second has not explained is still to be visited, and no method that the
first pass let through is refused by the second.

`SurfacesAlwaysAgree` of the same module states that a finished package has
`SameSurface`, for requests that are `Uniform`. This is what section 2 says the
requests of the run leave out, as a formula: services have names of their own;
the request of a streaming method is in the service's package, which
`internalClientIntfInit` takes for granted; and custom operations have an HTTP rule
and go with REST only. All requests of the `generator` run satisfy it. Two halves
make it: `SignaturesAgree` shows that whichever order a pass tests a method in,
it arrives at one signature (`Call`), and `SurfaceInv` follows the printing from
both sides. From above, everything written was asked for (`Proper`). From below,
services that are behind are complete, and of the present one only what the
loops have still to visit is missing: first in the interface, then in the client, then in one
transport after the other, and last the constructors by name, for which every
operation must have been wrapped by then. That the client misses nothing although
`clientInit` drops errors is `Tolerated`: the interface would have failed
on the same method before.

`NothingDefinedTwice`, that a package has `DefinedOnce`, is for requests whose
names are `NamedApart`: services and the methods of one service have names of
their own, as protoc demands; so have mixin methods, which takes a service config
with one HTTP rule for each of them (`collectMixinMethods` lists a method once per
rule, one of the hazards); and no iterator is
called `Operation`, since its name ends in `Iterator`. If the service config lists
more than one API, no service declares a configured method of Locations or
Operations: the code would define it twice (section 2), so this has to be assumed.
A clash with IAMPolicy is not excluded; that one the code resolves, and `Mixins` with it
(`MethodsApart`). All requests of the two generator runs satisfy it. The property says nothing of what is
to come, so `OnceInv` looks ahead: `Coming` says which identifiers the rest of the
run may still define, from the place in `gen()`, the service, the names left in the
loop and the transports left. No identifier that is written is still to come;
every step defines what was to come (`HelpersOnce` to `AuxOnce`) and takes it off
(`AheadLater`). `LoopsInv` keeps the loops without repetitions, and
`AuxiliaryTypesAreUnique` makes the types of `auxiliary.go` unique. For the second half, that
two files share nothing, every identifier has one file it belongs to (`Owner`), and
`FilesInv` says that files define only their own, that files of one name do not both
define something, and that no file yet defines anything of the client in the printer.

`PackageAlwaysLinks`, that every use in a finished package meets its definition
(`Linked`), is for requests that are also `Linkable`: if REST alone is asked for,
every service has a binding (`generator_rest_only` shows why); iterators of one
name have one element type, and no method pages through `Empty`; custom operations
are unary, have no `operation_info`, and name a service of the package, the same
throughout a client. All 992 requests of the run are. Files are
printed before what they use: examples before clients, clients before
`auxiliary.go`. So `LinkInv` says of each use on paper that it is `Served`: defined
by now, or its iterator or wrapper is collected for `auxiliary.go`, or it is
`Promised`, one of the helpers, constructors, methods, waits and handles that a
request of this kind leads to. `PackageInv` says which promises have been kept at
each place, `CollectedInv` that what is collected comes from the request's methods,
with one element type for each iterator; and each of the steps that print
uses nothing else. At the end nothing is left to come: `SurfaceInv` supplies the
methods, `PackageInv` the rest.

`UnaryCallsProofs`: `OptionsNeverShared` and `HeadersNeverShared` from `MemInv`:
memory is typed, slices of different owners lie in different arrays
(`SlicesApart`) and within them (`SlicesWithin`), and a slice that was built but
not handed over yet has the content it should (`OptionsBuilt`, `HeadersBuilt`).
`TypeCorrect`, that no slice reaches beyond its array and that a call in progress was
issued, has no outcome yet and is one goroutine's alone, needs `CallsInv` besides,
which says which requests of a call exist at each step, and holds also when messages
are passed again. Nothing is claimed about the number of attempts: the settings that
the emitters write ignore `max_attempts` (`gengrpc.go:251`).
`IdsReusedByRetries` and the refinement `ImplementsAtMostOnce` assume
`~ReuseMessages`, as the run does; `unary_reused_message` shows why. Under it
a message belongs to one call (`SentWithMessage`), so that an id does.
`ServerInv` says that only what was sent is performed, once for each id, and only
what was performed is answered. In the refinement the start of a call is `Issue`,
the server's performing `Perform`, the return `Succeed` or `Fail`; building and
sending stutter.

`OperationPollProofs`: `InvariantHolds` for `IInv`, and from it `TypeCorrect`,
`AsksRightAlways`, `DoneStays` and the refinement `ImplementsAwaited`. The names
the server gives are in order within a place (`NamesInOrder`), hence unique there; a handle
holds what its creation gave it (`Created`), the message in it and an answer on
its way say nothing untrue of its operation (`Truthful`), and `Calling` ties the
polling call to the method in progress. `AllRequiredInit` says that in an API
annotated completely a handle has every field that polling requires, although
the generator takes them from the first method that names the service and the
handle was created by another. In the refinement polls and
pauses stutter.

`PluginOptionsProofs`: `OptionsAlwaysAsGiven`, `ValidIffAccepted`,
`FilesAlwaysWithinModule` and `CallOptionsAlwaysAsDeclared` from
`InvariantHolds`. While it parses, every field follows the arguments handled so
far (`Following`): the last one of a kind wins, flags and overrides accumulate, and
transports are counted. The maps hold what the entries of the service config say
(`ConfigHolds`), and a configuration that is returned is the one asked for
(`AsGiven`). Lemmas say what one
argument changes (`Effects`), that an ascending arrangement exists and keeps the
transports (`AscendingExists`, `SortedSorts`), and that validation accepts
exactly what the property calls valid (`AcceptsValid`). What the code fails on is
`Refused`; of arguments that are `Overlooked`, which the proofs of the other three
theorems allow, `ValidIffAccepted` says nothing.

`ServerStreamsProofs`: `TypeCorrect`, `ContextIsTheCallers`,
`CancelledReceivesNothing` and the refinement `ImplementsMessageStream`, all
from `InvariantHolds` for `IInv`. The properties are not inductive, because they
do not say what the decoder holds. `Aligned` says it: until the stream is over,
what was read ahead stands at the receiver's position in what the server sent,
and the wire after it (`Placed`), with the end after the last item and, while the
connection is whole, nothing missing between the two. `StaysOver` says that
afterwards the decoder is empty and its body closed, or the context has ended and
`Recv` does not ask it. `Control` ties both to the place of the receiver.
`PlacedTail` and `PlacedSplit` are the two facts about sequences this needs; there
is a lemma for each action that moves data and one for all the others. The
refinement is the identity on what the server sent, its end, the receiver's
position and what it was told; `Rejects` is a report over REST and a failure
over gRPC.

`CommandsProofs`: `SuccessAlwaysComplete`. For a command without a receiving
goroutine `err` has one writer, so each `Check` sees what was assigned last; the
invariant says, place by place, which lines were scanned, sent and answered and
what was printed. `MessagesScanned` counts: each line scanned leaves one message fewer to
send, if it was one.

`TranscodingProofs`: `EveryFieldSentOnce`, for methods that are `BodyNotNested`; `HeadersAlwaysRoutedOnce` and `ResourceAlwaysWhole`, for
all. The invariant is small: what the emitted method has built so far is what the
generator's functions define (`Computed`). The work is in those functions, most of
which are loops. For each loop a lemma shows that the recursive function exists, so
that its `CHOOSE` finds it (`DepthsExist` to `FormatsExist`); what it computes is
then proved turn by turn with `Induct`, induction over the naturals for a set, from
the well-foundedness of `<`. For the fields: every stack of `getLeafs` is a chain
of distinct fields from the request down (`StackShape`), and all of its beginnings
are stacks of one field less (`StackKept`), so a leaf outside the body is reached
without the body's field (`LeafKept`), unless a request nests. For the headers:
writing the captures one after the other leaves the last for each header
(`MapHoldsLast`), any order in which a Go map is ranged over contains each header
exactly once (`OrdersAreOrders`), and of a URL's variables each is taken at
its first appearance (`FirstsOnce`). For the resource: the chain of known nouns that the
heuristic walks back from a variable reaches the beginning of the name exactly if
everything before it is paired (`ChainsRooted`), which is what the reference
asks from the front (`HeuristicWhole`).

Only model-checked: the liveness properties `EveryIterationEnds`, `EveryWaitEnds`,
`EveryStreamEnds` and `EveryCommandEnds`. Temporal reasoning with fairness and
`ENABLED` is out of the prover's reach. Every other property of a passing run is
stated by a theorem.

## 5. Plan

The components above each have a module, and their safety properties and
refinements are proved. What is left, most important first.

1. The HTTP and documentation rules of the API service config, which
   `collectMixinMethods` applies to mixin methods: repeated selectors, the last
   rule against the first one `lookupHTTPOverride` takes.
2. Building the commands of the CLI: flags of nested and oneof fields, file and
   variable names, dropped methods.

Composition: `ServiceConfig` determines the default options that `UnaryCalls` and
`ServerStreams` take as given, and `PluginOptions` the requests `Generator`
starts from. They are not run together, because the parts that meet are values
and not steps.

### Not modelled

Markdown and documentation text, import sorting, the layout of flags and
commands, entry points, generated protobuf code, Bazel rules: they format or move
data and keep no state that could be wrong over time. The gRPC, gax and
longrunning libraries are not part of the repository and are modelled from their
use. Client and bidirectional streams of the gRPC client are handed to gRPC as
they are; what a command does with them is in `Commands`.
