---------------------------- MODULE PluginOptions ----------------------------
(***************************************************************************)
(* configFromRequest of gengapic/options.go: the arguments of the plugin   *)
(* are handled one at a time, in the order given, each by an option that   *)
(* changes the configuration or fails, and what results is validated and   *)
(* normalised at the end.  Reading a gRPC service config is a loop of its  *)
(* own (New of grpc_service_config/config.go), one step per name.          *)
(*                                                                         *)
(* An argument is what the code's tests see of it:                         *)
(*   [kind |-> "plain", key]          no equals sign                       *)
(*   [kind |-> "keyed", key, val]     key=val                              *)
(*   [kind |-> "M", key, val]         M<key>=<val>; val = NoValue without  *)
(*                                    the equals sign, "" when empty       *)
(*   [kind |-> "F_", key]             F_<key>                              *)
(* Paths are sequences of characters, so that prefixes are what they are   *)
(* for strings: <<"a", "/", "b">> and <<"a", "b">> both start with <<"a">>.*)
(*                                                                         *)
(* Operators named Bad... are not the code: each is the definition after   *)
(* it with a plausible defect, kept to show that a property notices it.    *)
(***************************************************************************)
EXTENDS ServiceConfig, FiniteSets, SequencesExt

CONSTANTS
  Arguments,      (* arguments the plugin may be given                      *)
  Features,       (* keys of featureRegistry                                *)
  Names,          (* service and method names in a gRPC service config      *)
  MethodConfigs,  (* MethodConfigs in it                                    *)
  RPCs,           (* methods to generate: [serv, name, streaming]           *)
  NoValue,        (* an M argument without an equals sign                   *)
  MaxArgs,        (* bound: arguments                                       *)
  MaxEntries      (* bound: names in all service configs together           *)

ASSUME OptionsAssumption ==
  /\ MaxArgs \in Nat
  /\ MaxEntries \in Nat
  /\ \A mc \in MethodConfigs :
       DOMAIN mc = {"retryPolicy", "timeout", "maxReq", "maxRes"}
  /\ \A a \in Arguments : a.kind = "keyed" =>
       /\ a.key = "transport" => a.val # {}       (* Split returns at least one part *)
       /\ a.key = "module" => a.val \in Seq(STRING)
       /\ a.key = "go-gapic-package" /\ a.val.semicolon => a.val.path \in Seq(STRING)

VARIABLES
  cfg,       (* the generatorConfig                                         *)
  result,    (* "parsing", then what is returned: "config" or "error"       *)
  local,     (* the Config New is filling in                                *)
  reading,   (* is New at work?                                             *)
  args,      (* history: the arguments handled so far                       *)
  entries    (* history: <<name, MethodConfig>> read since New last began   *)

vars == <<cfg, result, local, reading, args, entries>>

DeprecatedArgs       == {"gapic-service-config"}
SupportedBooleanArgs == {"metadata", "diregapic", "rest-numeric-enums", "omit-snippets"}
SupportedValueArgs   == {"go-gapic-package", "api-service-config", "grpc-service-config",
                         "module", "release-level", "transport"}

Init ==
  /\ cfg = [pkgPath |-> <<>>, pkgName |-> "", outDir |-> <<>>, flags |-> {},
            apiServiceConfig |-> {}, gRPCServiceConfig |-> NoConfig,
            modulePrefix |-> <<>>, relLvl |-> "", transports |-> <<>>,
            pkgOverrides |-> EmptyMap, features |-> {}]
  /\ result = "parsing"
  /\ local = NoConfig
  /\ reading = FALSE
  /\ args = <<>>
  /\ entries = <<>>

-----------------------------------------------------------------------------
(* Every option is one turn of the loop over the arguments: it changes the
   configuration to c, or fails and ends the parsing. *)
Turn(a) ==
  /\ result = "parsing" /\ ~reading
  /\ Len(args) < MaxArgs
  /\ args' = Append(args, a)
Apply(a, c) == Turn(a) /\ cfg' = c /\ UNCHANGED <<result, local, reading, entries>>
Fail(a)     == Turn(a) /\ result' = "error" /\ UNCHANGED <<cfg, local, reading, entries>>

(* A value argument. *)
Value(a, key) == a.kind = "keyed" /\ a.key = key

DeprecatedArg(a) ==
  /\ a.kind = "plain" /\ a.key \in DeprecatedArgs
  /\ Fail(a)

BooleanArg(a) ==
  /\ a.kind = "plain" /\ a.key \in SupportedBooleanArgs
  /\ Apply(a, [cfg EXCEPT !.flags = @ \cup {a.key}])

(* The value is text; val.semicolon tells whether it has one. *)
WithGoGAPICPackage(a) ==
  /\ Value(a, "go-gapic-package")
  /\ IF a.val.semicolon
     THEN Apply(a, [cfg EXCEPT !.pkgPath = a.val.path, !.pkgName = a.val.name,
                               !.outDir = a.val.path])
     ELSE Fail(a)

WithModulePrefix(a) ==
  /\ Value(a, "module")
  /\ Apply(a, [cfg EXCEPT !.modulePrefix = a.val])

WithReleaseLevel(a) ==
  /\ Value(a, "release-level")
  /\ Apply(a, [cfg EXCEPT !.relLvl = a.val])

(* The transports named by one argument are collected in a map, whose order is
   arbitrary, appended to those already there and sorted (sort.Slice need not
   keep the order of equal ones). *)
Rank(t) == IF t = "grpc" THEN 0 ELSE 1
BadSorted(ts) == ts
Ascending(ts) ==
  {p \in [DOMAIN ts -> DOMAIN ts] :
     /\ IsInjective(p)
     /\ \A i, j \in DOMAIN ts : i < j => Rank(ts[p[i]]) <= Rank(ts[p[j]])}
Sorted(ts) == LET p == CHOOSE q \in Ascending(ts) : TRUE IN [i \in DOMAIN ts |-> ts[p[i]]]
WithTransports(a) ==
  /\ Value(a, "transport")
  /\ IF a.val \subseteq {"grpc", "rest"}
     THEN \E order \in SetToSeqs(a.val) :
            Apply(a, [cfg EXCEPT !.transports = Sorted(@ \o order)])
     ELSE Fail(a)

(* A file that can be read, converted and parsed, and has a name. *)
WithAPIServiceConfigPath(a) ==
  /\ Value(a, "api-service-config")
  /\ IF a.val.valid THEN Apply(a, [cfg EXCEPT !.apiServiceConfig = {a.val.config}])
     ELSE Fail(a)

WithGRPCServiceConfigPath(a) ==
  /\ Value(a, "grpc-service-config")
  /\ IF a.val.valid
     THEN /\ Turn(a)
          /\ reading' = TRUE /\ local' = NoConfig /\ entries' = <<>>
          /\ UNCHANGED <<cfg, result>>
     ELSE Fail(a)

ReadName ==
  /\ reading
  /\ Len(entries) < MaxEntries
  /\ \E n \in Names, mc \in MethodConfigs :
       /\ local' = Record(local, n, mc)
       /\ entries' = Append(entries, <<n, mc>>)
  /\ UNCHANGED <<cfg, result, reading, args>>
NewReturns ==
  /\ reading /\ reading' = FALSE
  /\ cfg' = [cfg EXCEPT !.gRPCServiceConfig = local]
  /\ UNCHANGED <<result, local, args, entries>>

WithPackageOverride(a) ==
  /\ a.kind = "M"
  /\ IF a.val \in {NoValue, ""} THEN Fail(a)
     ELSE Apply(a, [cfg EXCEPT !.pkgOverrides = Put(@, a.key, a.val)])

WithFeature(a) ==
  /\ a.kind = "F_"
  /\ IF a.key \in Features THEN Apply(a, [cfg EXCEPT !.features = @ \cup {a.key}])
     ELSE Fail(a)

(* What no table knows falls through the loop: "transport" without a value, and
   "metadata" or a deprecated argument with one. *)
Unknown(a) ==
  \/ a.kind = "plain" /\ a.key \notin DeprecatedArgs \cup SupportedBooleanArgs
  \/ a.kind = "keyed" /\ a.key \notin SupportedValueArgs
IgnoredArg(a) == Unknown(a) /\ Apply(a, cfg)

-----------------------------------------------------------------------------
(* validateAndNormalizeOptions, once all arguments are handled.  On an error
   the configuration is dropped. *)
Incompatible == {"diregapic", "rest-numeric-enums"} \subseteq cfg.flags
NoPackage    == cfg.pkgPath = <<>> \/ cfg.pkgName = "" \/ cfg.outDir = <<>>
OutsideModule ==
  cfg.modulePrefix # <<>> /\ ~IsPrefix(cfg.modulePrefix, cfg.outDir)

TrimPrefix(s, p) == IF IsPrefix(p, s) THEN SubSeq(s, Len(p) + 1, Len(s)) ELSE s
BadNormalOutDir == TrimPrefix(cfg.outDir, cfg.modulePrefix)
NormalOutDir ==
  IF cfg.modulePrefix = <<>> THEN cfg.outDir
  ELSE TrimPrefix(cfg.outDir, cfg.modulePrefix \o <<"/">>)
NormalTransports == IF cfg.transports = <<>> THEN <<"grpc">> ELSE cfg.transports

BadAccepted == ~NoPackage /\ ~OutsideModule
Accepted == ~Incompatible /\ ~NoPackage /\ ~OutsideModule

Validate ==
  /\ result = "parsing" /\ ~reading
  /\ IF Accepted
     THEN /\ result' = "config"
          /\ cfg' = [cfg EXCEPT !.transports = NormalTransports, !.outDir = NormalOutDir]
     ELSE result' = "error" /\ UNCHANGED cfg
  /\ UNCHANGED <<local, reading, args, entries>>

Option(a) ==
  \/ DeprecatedArg(a) \/ BooleanArg(a) \/ IgnoredArg(a)
  \/ WithGoGAPICPackage(a) \/ WithModulePrefix(a) \/ WithReleaseLevel(a) \/ WithTransports(a)
  \/ WithAPIServiceConfigPath(a) \/ WithGRPCServiceConfigPath(a)
  \/ WithPackageOverride(a) \/ WithFeature(a)

Next ==
  \/ \E a \in Arguments : Option(a)
  \/ ReadName
  \/ NewReturns
  \/ Validate

Spec == Init /\ [][Next]_vars

-----------------------------------------------------------------------------
(* What the arguments ask for, stated without the loop. *)

Given(kind, key) == {i \in DOMAIN args : args[i].kind = kind /\ args[i].key = key}
Asked(key)       == Given("keyed", key)
LastValue(key)        == args[Max(Asked(key))].val

(* Refused: what an option fails on.  Overlooked: what the documentation does
   not allow either and the code lets pass.  An argument of DeprecatedArgs is
   one to "explicitly error on" (options.go:43-44), and it used to be given
   with a value, but only the bare word is recognised; the acceptable release
   levels are alpha and beta, empty being GA (README.md:91-93 of the
   repository), but withReleaseLevel takes any word. *)
Refused(a) ==
  \/ a.kind = "plain" /\ a.key \in DeprecatedArgs
  \/ Value(a, "go-gapic-package") /\ ~a.val.semicolon
  \/ Value(a, "transport") /\ ~ a.val \subseteq {"grpc", "rest"}
  \/ Value(a, "api-service-config") /\ ~a.val.valid
  \/ Value(a, "grpc-service-config") /\ ~a.val.valid
  \/ a.kind = "M" /\ a.val \in {NoValue, ""}
  \/ a.kind = "F_" /\ a.key \notin Features
Overlooked(a) ==
  \/ a.kind = "keyed" /\ a.key \in DeprecatedArgs
  \/ Value(a, "release-level") /\ a.val \notin {"", "alpha", "beta"}
Invalid(a) == Refused(a) \/ Overlooked(a)

ValidRequest ==
  /\ \A i \in DOMAIN args : ~Invalid(args[i])
  /\ Given("plain", "diregapic") = {} \/ Given("plain", "rest-numeric-enums") = {}
  /\ Asked("go-gapic-package") # {}
  /\ LET package == LastValue("go-gapic-package") IN
       /\ package.path # <<>> /\ package.name # ""
       /\ Asked("module") # {} => IsPrefix(LastValue("module"), package.path)

(* The configuration that is returned is what the arguments ask for, whatever
   their order and however often one is repeated: each value is the last one
   given, an override the last one for its file, flags and features those that
   occur, everything else untouched (options.go, configFromRequest).
   Transports accumulate, one entry for each argument that names one, gRPC
   before REST whatever the order in which the map of an argument is walked,
   and gRPC alone when none is given: examples use the first entry
   (example.go:78), clients are generated for each. *)
OptionsAsGiven ==
  result = "config" =>
    /\ cfg.pkgPath = LastValue("go-gapic-package").path
    /\ cfg.pkgName = LastValue("go-gapic-package").name
    /\ cfg.modulePrefix = IF Asked("module") = {} THEN <<>> ELSE LastValue("module")
    /\ cfg.relLvl = IF Asked("release-level") = {} THEN "" ELSE LastValue("release-level")
    /\ cfg.apiServiceConfig = IF Asked("api-service-config") = {} THEN {}
                              ELSE {LastValue("api-service-config").config}
    /\ cfg.flags = {f \in SupportedBooleanArgs : Given("plain", f) # {}}
    /\ cfg.features = {f \in Features : Given("F_", f) # {}}
    /\ cfg.pkgOverrides = [f \in {args[i].key : i \in {j \in DOMAIN args : args[j].kind = "M"}} |->
                             args[Max(Given("M", f))].val]
    /\ \A i, j \in DOMAIN cfg.transports : i < j => Rank(cfg.transports[i]) <= Rank(cfg.transports[j])
    /\ \A t \in {"grpc", "rest"} :
         Cardinality({i \in DOMAIN cfg.transports : cfg.transports[i] = t})
           = IF Asked("transport") = {} /\ t = "grpc" THEN 1
             ELSE Cardinality({i \in Asked("transport") : t \in args[i].val})

(* A configuration is returned exactly for the arguments that are valid one by
   one and together; in particular the module is checked against the package
   given last, before or after it (validateAndNormalizeOptions).  Nothing is
   said of requests with an overlooked argument: they are invalid, and the
   code may return a configuration for them. *)
AcceptedIffValid ==
  result # "parsing" /\ (\A i \in DOMAIN args : ~Overlooked(args[i])) =>
    (result = "config" <=> ValidRequest)

(* The directory of the generated files is the package path, without the module
   and one slash when the path continues with a slash after the module: no file
   is at the root of the file system and no directory name is cut in two. *)
FilesWithinModule ==
  result = "config" =>
    IF cfg.modulePrefix # <<>> /\ IsPrefix(cfg.modulePrefix \o <<"/">>, cfg.pkgPath)
    THEN cfg.modulePrefix \o <<"/">> \o cfg.outDir = cfg.pkgPath
    ELSE cfg.outDir = cfg.pkgPath

-----------------------------------------------------------------------------
(* What a service config declares: the value in the last entry for a name that
   counts for the field, none if there is no such entry. *)
Counting(field, n) ==
  {i \in DOMAIN entries : /\ entries[i][1] = n
                          /\ field = "retryPolicy" \/ entries[i][2][field] # {}}
Declared(field, m) ==
  LET ofMethod == Counting(field, Append(m.serv, m.name))
      chosen   == IF ofMethod # {} THEN ofMethod ELSE Counting(field, m.serv)
  IN  IF chosen = {} THEN {} ELSE entries[Max(chosen)][2][field]

(* The call options of every method follow from the service config read last
   and from no other: the last entry of the method decides, else the last of
   its service, and an entry of the method without a retry policy turns off the
   retries of the service.  The transports agree except where their emitters
   differ: streams, message limits, policies without codes. *)
CallOptionsAsDeclared ==
  result = "config" =>
    \A m \in RPCs :
      /\ GRPCCallOptions(cfg.gRPCServiceConfig, m) =
           [maxReq |-> Declared("maxReq", m), maxRes |-> Declared("maxRes", m),
            timeout |-> IF m.streaming THEN {} ELSE Declared("timeout", m),
            retry |-> Declared("retryPolicy", m)]
      /\ RESTCallOptions(cfg.gRPCServiceConfig, m) =
           [timeout |-> Declared("timeout", m), retry |-> Declared("retryPolicy", m) \ {{}}]
=============================================================================
