-------------------------- MODULE PluginOptionsProofs --------------------------
(***************************************************************************)
(* Proofs about PluginOptions, for every set of arguments, names and       *)
(* method configs that satisfies OptionsAssumption and for any number of   *)
(* arguments and entries: the loop over the arguments keeps every field of *)
(* the configuration equal to what the arguments handled so far ask for,   *)
(* the loop of New keeps the maps equal to what the entries declare, and   *)
(* the validation at the end accepts exactly what is valid.                *)
(***************************************************************************)
EXTENDS PluginOptions, SequenceTheorems, FiniteSetTheorems, WellFoundedInduction, TLAPS

-------------------------------------------------------------------------------
(* The invariant.  Fields are those of a generatorConfig; while the arguments
   are handled each field follows the arguments, and the maps follow the
   entries of the service config read last, or of the one being read. *)
Fields == {"pkgPath", "pkgName", "outDir", "flags", "apiServiceConfig", "gRPCServiceConfig",
           "modulePrefix", "relLvl", "transports", "pkgOverrides", "features"}
Typed ==
  /\ args \in Seq(Arguments)
  /\ entries \in Seq(Names \X MethodConfigs)
  /\ DOMAIN cfg = Fields
  /\ reading \in BOOLEAN
  /\ reading => result = "parsing"

GivenIn(s, kind, key) == {i \in DOMAIN s : s[i].kind = kind /\ s[i].key = key}
LastIn(s, kind, key)  == s[Max(GivenIn(s, kind, key))]
Latest(s, key, default) ==
  IF GivenIn(s, "keyed", key) = {} THEN default ELSE LastIn(s, "keyed", key).val

PackageFollows ==
  LET asked == GivenIn(args, "keyed", "go-gapic-package") IN
  /\ cfg.pkgPath = IF asked = {} THEN <<>> ELSE LastIn(args, "keyed", "go-gapic-package").val.path
  /\ cfg.pkgName = IF asked = {} THEN "" ELSE LastIn(args, "keyed", "go-gapic-package").val.name
  /\ cfg.outDir = cfg.pkgPath
  /\ cfg.pkgPath \in Seq(STRING)
ModuleFollows ==
  /\ cfg.modulePrefix = Latest(args, "module", <<>>)
  /\ cfg.modulePrefix \in Seq(STRING)
LevelFollows == cfg.relLvl = Latest(args, "release-level", "")
FileFollows ==
  cfg.apiServiceConfig = IF GivenIn(args, "keyed", "api-service-config") = {} THEN {}
                         ELSE {LastIn(args, "keyed", "api-service-config").val.config}
FlagsFollow ==
  /\ cfg.flags = {f \in SupportedBooleanArgs : GivenIn(args, "plain", f) # {}}
  /\ cfg.features = {f \in Features : GivenIn(args, "F_", f) # {}}
OverridesFollow ==
  cfg.pkgOverrides = [f \in {args[i].key : i \in {j \in DOMAIN args : args[j].kind = "M"}} |->
                        LastIn(args, "M", f).val]

Places(s, t) == {i \in DOMAIN s : s[i] = t}
Naming(s, t) == {i \in GivenIn(s, "keyed", "transport") : t \in s[i].val}
TransportsFollow ==
  /\ cfg.transports \in Seq({"grpc", "rest"})
  /\ \A i, j \in DOMAIN cfg.transports : i < j => Rank(cfg.transports[i]) <= Rank(cfg.transports[j])
  /\ \A t \in {"grpc", "rest"} : Cardinality(Places(cfg.transports, t)) = Cardinality(Naming(args, t))

Following ==
  /\ \A i \in DOMAIN args : ~Refused(args[i])
  /\ PackageFollows /\ ModuleFollows /\ LevelFollows /\ FileFollows
  /\ FlagsFollow /\ OverridesFollow /\ TransportsFollow

(* Map f holds what entries e say of a field: the last entry that counts. *)
CountingIn(e, field, n) ==
  {i \in DOMAIN e : e[i][1] = n /\ (field = "retryPolicy" \/ e[i][2][field] # {})}
Holds(f, e, field) ==
  /\ DOMAIN f = {e[i][1] : i \in {j \in DOMAIN e : field = "retryPolicy" \/ e[j][2][field] # {}}}
  /\ \A n \in DOMAIN f : f[n] = e[Max(CountingIn(e, field, n))][2][field]
ConfigHolds ==
  /\ Holds(local.policies, entries, "retryPolicy") /\ Holds(local.timeouts, entries, "timeout")
  /\ Holds(local.reqLimits, entries, "maxReq")     /\ Holds(local.resLimits, entries, "maxRes")
  /\ ~reading => cfg.gRPCServiceConfig = local

(* Configuration c is what arguments s ask for. *)
AsGiven(c, s) ==
  /\ c.pkgPath = LastIn(s, "keyed", "go-gapic-package").val.path
  /\ c.pkgName = LastIn(s, "keyed", "go-gapic-package").val.name
  /\ c.modulePrefix = Latest(s, "module", <<>>)
  /\ c.relLvl = Latest(s, "release-level", "")
  /\ c.apiServiceConfig = IF GivenIn(s, "keyed", "api-service-config") = {} THEN {}
                          ELSE {LastIn(s, "keyed", "api-service-config").val.config}
  /\ c.flags = {f \in SupportedBooleanArgs : GivenIn(s, "plain", f) # {}}
  /\ c.features = {f \in Features : GivenIn(s, "F_", f) # {}}
  /\ c.pkgOverrides = [f \in {s[i].key : i \in {j \in DOMAIN s : s[j].kind = "M"}} |->
                         LastIn(s, "M", f).val]
  /\ \A i, j \in DOMAIN c.transports : i < j => Rank(c.transports[i]) <= Rank(c.transports[j])
  /\ \A t \in {"grpc", "rest"} :
       Cardinality(Places(c.transports, t))
         = IF GivenIn(s, "keyed", "transport") = {} /\ t = "grpc" THEN 1
           ELSE Cardinality(Naming(s, t))

IInv ==
  /\ Typed
  /\ ConfigHolds
  /\ result = "parsing" => Following
  /\ result = "config" => AsGiven(cfg, args)
  /\ AcceptedIffValid /\ FilesWithinModule

-------------------------------------------------------------------------------
(* The greatest element of a set of positions. *)
LEMMA MaxOfPositions ==
  ASSUME NEW n \in Nat, NEW S \in SUBSET (1..n), S # {}
  PROVE  Max(S) \in S /\ \A y \in S : y <= Max(S)
<1> DEFINE T == {n - x : x \in S}
           R == OpToRel(<, Nat)
<1>1. T \in SUBSET Nat /\ T # {}
  OBVIOUS
<1>2. \E x \in T : \A y \in T : ~ (<<y, x>> \in R)
  <2> HIDE DEF T, R
  <2> QED BY <1>1, NatLessThanWellFounded, WFMin DEF R
<1>3. \A x, y \in T : y < x => <<y, x>> \in R
  BY <1>1 DEF OpToRel
<1>4. PICK x \in T : \A y \in T : ~ (y < x)
  <2> HIDE DEF T, R
  <2> QED BY <1>2, <1>3, Zenon
<1>5. PICK m \in S : x = n - m
  BY <1>4
<1>6. ASSUME NEW y \in S PROVE m >= y
  <2>1. n - y \in T
    OBVIOUS
  <2>2. ~ (n - y < x)
    BY <1>4, <2>1
  <2> HIDE DEF T
  <2> QED BY <1>5, <2>2
<1> HIDE DEF T, R
<1>7. \E z \in S : \A y \in S : z >= y
  BY <1>6
<1>8. Max(S) \in S /\ \A y \in S : Max(S) >= y
  BY <1>7 DEF Max
<1> QED
  BY <1>8

LEMMA MaxOfNext ==
  ASSUME NEW n \in Nat, NEW S \in SUBSET (1..n)
  PROVE  Max(S \cup {n + 1}) = n + 1
<1>1. S \cup {n + 1} \in SUBSET (1..(n + 1)) /\ S \cup {n + 1} # {}
  OBVIOUS
<1> DEFINE m == Max(S \cup {n + 1})
<1>2. m \in S \cup {n + 1} /\ \A y \in S \cup {n + 1} : y <= m
  BY <1>1, MaxOfPositions
<1> HIDE DEF m
<1>3. n + 1 <= m /\ (m \in 1..n \/ m = n + 1)
  BY <1>2
<1>4. m = n + 1
  BY <1>3
<1> QED
  BY <1>4 DEF m

-------------------------------------------------------------------------------
(* What one more argument changes. *)
LEMMA GivenOfAppend ==
  ASSUME NEW s \in Seq(Arguments), NEW a \in Arguments, NEW kind, NEW key
  PROVE  /\ GivenIn(s, kind, key) \in SUBSET (1..Len(s))
         /\ a.kind = kind /\ a.key = key =>
              /\ GivenIn(Append(s, a), kind, key) = GivenIn(s, kind, key) \cup {Len(s) + 1}
              /\ GivenIn(Append(s, a), kind, key) # {}
              /\ LastIn(Append(s, a), kind, key) = a
         /\ ~ (a.kind = kind /\ a.key = key) =>
              /\ GivenIn(Append(s, a), kind, key) = GivenIn(s, kind, key)
              /\ GivenIn(s, kind, key) # {} => LastIn(Append(s, a), kind, key) = LastIn(s, kind, key)
<1> DEFINE G == GivenIn(s, kind, key)
           H == GivenIn(Append(s, a), kind, key)
<1>1. G \in SUBSET (1..Len(s)) /\ Len(s) \in Nat
  BY DEF GivenIn
<1>2. Append(s, a)[Len(s) + 1] = a /\ \A i \in 1..Len(s) : Append(s, a)[i] = s[i]
  OBVIOUS
<1>3. DOMAIN Append(s, a) = 1..(Len(s) + 1) /\ DOMAIN s = 1..Len(s)
  OBVIOUS
<1>4. ASSUME a.kind = kind, a.key = key
      PROVE  H = G \cup {Len(s) + 1}
  BY <1>2, <1>3, <1>4 DEF GivenIn
<1>5. ASSUME ~ (a.kind = kind /\ a.key = key)
      PROVE  H = G
  BY <1>2, <1>3, <1>5 DEF GivenIn
<1> HIDE DEF G, H
<1>6. Max(G \cup {Len(s) + 1}) = Len(s) + 1 /\ G \cup {Len(s) + 1} # {}
  BY <1>1, MaxOfNext
<1>7. G # {} => Max(G) \in 1..Len(s)
  BY <1>1, MaxOfPositions
<1> QED
  BY <1>1, <1>2, <1>4, <1>5, <1>6, <1>7 DEF G, H, LastIn

-------------------------------------------------------------------------------
(* What an argument that does not end the parsing does to each field. *)
Effect(a) ==
  /\ DOMAIN cfg' = Fields
  /\ cfg'.gRPCServiceConfig = cfg.gRPCServiceConfig
  /\ IF Value(a, "go-gapic-package")
     THEN cfg'.pkgPath = a.val.path /\ cfg'.pkgName = a.val.name /\ cfg'.outDir = a.val.path
     ELSE cfg'.pkgPath = cfg.pkgPath /\ cfg'.pkgName = cfg.pkgName /\ cfg'.outDir = cfg.outDir
  /\ cfg'.modulePrefix = IF Value(a, "module") THEN a.val ELSE cfg.modulePrefix
  /\ cfg'.relLvl = IF Value(a, "release-level") THEN a.val ELSE cfg.relLvl
  /\ cfg'.apiServiceConfig = IF Value(a, "api-service-config") THEN {a.val.config}
                             ELSE cfg.apiServiceConfig
  /\ cfg'.flags = IF a.kind = "plain" /\ a.key \in SupportedBooleanArgs
                  THEN cfg.flags \cup {a.key} ELSE cfg.flags
  /\ cfg'.features = IF a.kind = "F_" THEN cfg.features \cup {a.key} ELSE cfg.features
  /\ cfg'.pkgOverrides = IF a.kind = "M" THEN Put(cfg.pkgOverrides, a.key, a.val)
                         ELSE cfg.pkgOverrides
  /\ IF Value(a, "transport")
     THEN \E order \in SetToSeqs(a.val) : cfg'.transports = Sorted(cfg.transports \o order)
     ELSE cfg'.transports = cfg.transports

(* An argument is refused exactly if it is invalid by itself, and else has its
   effect and no other (configFromRequest and the option each table names). *)
LEMMA Effects ==
  ASSUME Typed, NEW a \in Arguments, Option(a)
  PROVE  /\ result = "parsing" /\ ~reading /\ args' = Append(args, a)
         /\ \/ Refused(a) /\ result' = "error" /\ UNCHANGED <<cfg, local, reading, entries>>
            \/ /\ ~Refused(a) /\ result' = "parsing" /\ Effect(a)
               /\ \/ UNCHANGED <<local, reading, entries>>
                  \/ reading' = TRUE /\ local' = NoConfig /\ entries' = <<>>
<1> USE DEF Typed, Fields, Turn, Apply, Fail, Value, Refused, Effect,
            DeprecatedArgs, SupportedBooleanArgs, SupportedValueArgs
<1>1. CASE DeprecatedArg(a)
  BY <1>1 DEF DeprecatedArg
<1>2. CASE BooleanArg(a)
  BY <1>2 DEF BooleanArg
<1>3. CASE IgnoredArg(a)
  BY <1>3 DEF IgnoredArg, Unknown
<1>4. CASE WithGoGAPICPackage(a)
  <2> DEFINE c == [cfg EXCEPT !.pkgPath = a.val.path]
             d == [c EXCEPT !.pkgName = a.val.name]
             e == [d EXCEPT !.outDir = a.val.path]
  <2>1. e = [cfg EXCEPT !.pkgPath = a.val.path, !.pkgName = a.val.name, !.outDir = a.val.path]
    OBVIOUS
  <2>2. DOMAIN e = Fields /\ e.pkgPath = a.val.path /\ e.pkgName = a.val.name /\ e.outDir = a.val.path
    OBVIOUS
  <2>3. \A f \in Fields \ {"pkgPath", "pkgName", "outDir"} : e[f] = cfg[f]
    OBVIOUS
  <2> HIDE DEF e
  <2> QED
    BY <1>4, <2>1, <2>2, <2>3 DEF WithGoGAPICPackage
<1>5. CASE WithModulePrefix(a)
  BY <1>5 DEF WithModulePrefix
<1>6. CASE WithReleaseLevel(a)
  BY <1>6 DEF WithReleaseLevel
<1>7. CASE WithTransports(a)
  BY <1>7 DEF WithTransports
<1>8. CASE WithAPIServiceConfigPath(a)
  BY <1>8 DEF WithAPIServiceConfigPath
<1>9. CASE WithGRPCServiceConfigPath(a)
  BY <1>9 DEF WithGRPCServiceConfigPath
<1>10. CASE WithPackageOverride(a)
  BY <1>10 DEF WithPackageOverride
<1>11. CASE WithFeature(a)
  BY <1>11 DEF WithFeature
<1> QED
  BY <1>1, <1>2, <1>3, <1>4, <1>5, <1>6, <1>7, <1>8, <1>9, <1>10, <1>11 DEF Option

(* What was asked for last, after one more argument. *)
LEMMA AskedNext ==
  ASSUME NEW s \in Seq(Arguments), NEW a \in Arguments, NEW key
  PROVE  LET t == Append(s, a) IN
         /\ Value(a, key) =>
              /\ GivenIn(t, "keyed", key) = GivenIn(s, "keyed", key) \cup {Len(s) + 1}
              /\ GivenIn(t, "keyed", key) # {} /\ LastIn(t, "keyed", key) = a
         /\ ~Value(a, key) =>
              /\ GivenIn(t, "keyed", key) = GivenIn(s, "keyed", key)
              /\ GivenIn(s, "keyed", key) # {} => LastIn(t, "keyed", key) = LastIn(s, "keyed", key)
<1>1. ASSUME a.kind = "keyed", a.key = key
      PROVE  /\ GivenIn(Append(s, a), "keyed", key) = GivenIn(s, "keyed", key) \cup {Len(s) + 1}
             /\ GivenIn(Append(s, a), "keyed", key) # {}
             /\ LastIn(Append(s, a), "keyed", key) = a
  BY <1>1, GivenOfAppend
<1>2. ASSUME ~ (a.kind = "keyed" /\ a.key = key)
      PROVE  /\ GivenIn(Append(s, a), "keyed", key) = GivenIn(s, "keyed", key)
             /\ GivenIn(s, "keyed", key) # {} =>
                  LastIn(Append(s, a), "keyed", key) = LastIn(s, "keyed", key)
  BY <1>2, GivenOfAppend
<1> QED
  BY <1>1, <1>2, Zenon DEF Value

-------------------------------------------------------------------------------
(* Each field goes on following the arguments. *)
LEMMA SlotsNext ==
  ASSUME Typed, NEW a \in Arguments, args' = Append(args, a), Effect(a), ~Refused(a),
         PackageFollows, ModuleFollows, LevelFollows, FileFollows
  PROVE  PackageFollows' /\ ModuleFollows' /\ LevelFollows' /\ FileFollows'
<1>1. PackageFollows'
  <2>1. CASE Value(a, "go-gapic-package")
    <3>1. a.val.path \in Seq(STRING)
      BY <2>1, OptionsAssumption DEF Refused, Value
    <3> QED
      BY <2>1, <3>1, AskedNext DEF Typed, PackageFollows, Effect
  <2>2. CASE ~Value(a, "go-gapic-package")
    BY <2>2, AskedNext DEF Typed, PackageFollows, Effect
  <2> QED
    BY <2>1, <2>2
<1>2. ModuleFollows'
  <2>1. CASE Value(a, "module")
    <3>1. a.val \in Seq(STRING)
      BY <2>1, OptionsAssumption DEF Value
    <3> QED
      BY <2>1, <3>1, AskedNext DEF Typed, ModuleFollows, Effect, Latest
  <2>2. CASE ~Value(a, "module")
    BY <2>2, AskedNext DEF Typed, ModuleFollows, Effect, Latest
  <2> QED
    BY <2>1, <2>2
<1>3. LevelFollows'
  BY AskedNext DEF Typed, LevelFollows, Effect, Latest
<1>4. FileFollows'
  BY AskedNext DEF Typed, FileFollows, Effect
<1> QED
  BY <1>1, <1>2, <1>3, <1>4

LEMMA FlagsNext ==
  ASSUME Typed, NEW a \in Arguments, args' = Append(args, a), Effect(a), ~Refused(a), FlagsFollow
  PROVE  FlagsFollow'
<1> USE GivenOfAppend DEF Typed
<1>1. \A f \in SupportedBooleanArgs :
        GivenIn(args', "plain", f) # {}
          <=> GivenIn(args, "plain", f) # {} \/ (a.kind = "plain" /\ a.key = f)
  <2> TAKE f \in SupportedBooleanArgs
  <2> CASE a.kind = "plain" /\ a.key = f
    OBVIOUS
  <2> CASE ~ (a.kind = "plain" /\ a.key = f)
    OBVIOUS
  <2> QED
    OBVIOUS
<1>2. cfg'.flags = {f \in SupportedBooleanArgs : GivenIn(args', "plain", f) # {}}
  BY <1>1 DEF FlagsFollow, Effect
<1>3. \A f \in Features :
        GivenIn(args', "F_", f) # {} <=> GivenIn(args, "F_", f) # {} \/ (a.kind = "F_" /\ a.key = f)
  <2> TAKE f \in Features
  <2> CASE a.kind = "F_" /\ a.key = f
    OBVIOUS
  <2> CASE ~ (a.kind = "F_" /\ a.key = f)
    OBVIOUS
  <2> QED
    OBVIOUS
<1>4. a.kind = "F_" => a.key \in Features
  BY DEF Refused
<1>5. cfg'.features = {f \in Features : GivenIn(args', "F_", f) # {}}
  BY <1>3, <1>4 DEF FlagsFollow, Effect
<1> QED
  BY <1>2, <1>5 DEF FlagsFollow, SupportedBooleanArgs

LEMMA OverridesNext ==
  ASSUME Typed, NEW a \in Arguments, args' = Append(args, a), Effect(a), OverridesFollow
  PROVE  OverridesFollow'
<1> DEFINE keys == {args[i].key : i \in {j \in DOMAIN args : args[j].kind = "M"}}
           next == {args'[i].key : i \in {j \in DOMAIN args' : args'[j].kind = "M"}}
<1>1. /\ DOMAIN args = 1..Len(args) /\ DOMAIN args' = 1..(Len(args) + 1) /\ Len(args) \in Nat
      /\ args'[Len(args) + 1] = a /\ \A i \in 1..Len(args) : args'[i] = args[i]
  BY DEF Typed
<1>2. next = IF a.kind = "M" THEN keys \cup {a.key} ELSE keys
  BY <1>1
<1>3. \A f \in keys : GivenIn(args, "M", f) # {}
  BY DEF GivenIn
<1> HIDE DEF keys, next
<1>4. cfg.pkgOverrides = [f \in keys |-> LastIn(args, "M", f).val]
  BY DEF OverridesFollow, keys
<1>5. \A f \in keys : ~ (a.kind = "M" /\ a.key = f) =>
        LastIn(args', "M", f) = LastIn(args, "M", f)
  BY <1>3, GivenOfAppend DEF Typed
<1>6. a.kind = "M" => LastIn(args', "M", a.key) = a
  BY GivenOfAppend DEF Typed
<1>7. cfg'.pkgOverrides = [f \in next |-> LastIn(args', "M", f).val]
  <2>1. CASE a.kind = "M"
    BY <2>1, <1>2, <1>4, <1>5, <1>6 DEF Effect, Put
  <2>2. CASE a.kind # "M"
    BY <2>2, <1>2, <1>4, <1>5 DEF Effect
  <2> QED
    BY <2>1, <2>2
<1> QED
  BY <1>7 DEF OverridesFollow, next

-------------------------------------------------------------------------------
(* Sorting: two transports can always be put in ascending order, and whichever
   arrangement the sort chooses, it keeps what it sorts. *)
Transports == {"grpc", "rest"}

LEMMA FiniteTransports ==
  ASSUME NEW V \in SUBSET Transports
  PROVE  IsFiniteSet(V)
<1>1. IsFiniteSet({"grpc"})
  BY FS_Singleton
<1>2. IsFiniteSet({"grpc"} \cup {"rest"})
  BY <1>1, FS_AddElement
<1>3. Transports = {"grpc"} \cup {"rest"}
  BY DEF Transports
<1> QED
  BY <1>2, <1>3, FS_Subset

LEMMA FinitePlaces ==
  ASSUME NEW S, NEW s \in Seq(S), NEW t
  PROVE  IsFiniteSet(Places(s, t)) /\ Places(s, t) \in SUBSET (1..Len(s)) /\ Len(s) \in Nat
<1>1. Places(s, t) \in SUBSET (1..Len(s)) /\ Len(s) \in Nat
  BY DEF Places
<1>2. IsFiniteSet(1..Len(s))
  BY <1>1, FS_Interval
<1> QED
  BY <1>1, <1>2, FS_Subset

LEMMA AscendingExists ==
  ASSUME NEW s \in Seq(Transports)
  PROVE  Ascending(s) # {}
<1> DEFINE n == Len(s)
           A == Places(s, "grpc")
           B == Places(s, "rest")
           c == Cardinality(A)
           d == Cardinality(B)
<1>1. IsFiniteSet(A) /\ IsFiniteSet(B) /\ n \in Nat /\ DOMAIN s = 1..n
  BY FinitePlaces
<1>2. A \cup B = 1..n /\ A \cap B = {}
  BY DEF Places, Transports
<1>3. c \in Nat /\ d \in Nat /\ ExistsBijection(1..c, A) /\ ExistsBijection(1..d, B)
  BY <1>1, FS_CardinalityType
<1>4. c + d = n
  <2>1. Cardinality(A \cup B) = c + d - Cardinality(A \cap B)
    BY <1>1, FS_Union
  <2>2. Cardinality(A \cap B) = 0
    BY <1>2, FS_EmptySet
  <2>3. Cardinality(1..n) = n
    BY <1>1, FS_Interval
  <2>4. Cardinality(A \cup B) = n
    BY <2>3, <1>2, Zenon
  <2> HIDE DEF A, B, c, d, n
  <2> QED
    BY <2>1, <2>2, <2>4, <1>1, <1>3
<1>5. PICK f \in [1..c -> A] : \A i, j \in 1..c : f[i] = f[j] => i = j
  BY <1>3 DEF ExistsBijection, Bijection, Injection, IsInjective
<1>6. PICK g \in [1..d -> B] : \A i, j \in 1..d : g[i] = g[j] => i = j
  BY <1>3 DEF ExistsBijection, Bijection, Injection, IsInjective
<1>7. /\ \A i \in A : s[i] = "grpc"
      /\ \A i \in B : s[i] = "rest"
  BY DEF Places
<1> HIDE DEF A, B, c, d, n
<1> DEFINE p == [i \in 1..n |-> IF i <= c THEN f[i] ELSE g[i - c]]
<1>8. \A i \in 1..n : IF i <= c THEN i \in 1..c /\ p[i] = f[i] /\ p[i] \in A
                      ELSE i - c \in 1..d /\ p[i] = g[i - c] /\ p[i] \in B
  BY <1>1, <1>3, <1>4, <1>5, <1>6
<1>9. p \in [1..n -> 1..n]
  BY <1>2, <1>8
<1>10. \A i, j \in 1..n : p[i] = p[j] => i = j
  <2> SUFFICES ASSUME NEW i \in 1..n, NEW j \in 1..n, p[i] = p[j] PROVE i = j
    OBVIOUS
  <2> HIDE DEF p
  <2>1. CASE i <= c /\ j <= c
    BY <2>1, <1>8, <1>5
  <2>2. CASE ~ (i <= c) /\ ~ (j <= c)
    BY <2>2, <1>8, <1>6, <1>1, <1>3
  <2>3. CASE (i <= c) # (j <= c)
    BY <2>3, <1>8, <1>2
  <2> QED
    BY <2>1, <2>2, <2>3
<1>11. \A i, j \in 1..n : i < j => Rank(s[p[i]]) <= Rank(s[p[j]])
  <2> SUFFICES ASSUME NEW i \in 1..n, NEW j \in 1..n, i < j PROVE Rank(s[p[i]]) <= Rank(s[p[j]])
    OBVIOUS
  <2> HIDE DEF p
  <2>1. CASE j <= c
    BY <2>1, <1>1, <1>3, <1>7, <1>8 DEF Rank
  <2>2. CASE ~ (j <= c)
    BY <2>2, <1>7, <1>8 DEF Rank
  <2> QED
    BY <2>1, <2>2
<1> HIDE DEF p
<1>12. p \in Ascending(s)
  BY <1>1, <1>9, <1>10, <1>11 DEF Ascending, IsInjective
<1> QED
  BY <1>12

LEMMA SortedSorts ==
  ASSUME NEW s \in Seq(Transports)
  PROVE  /\ Sorted(s) \in Seq(Transports)
         /\ \A i, j \in DOMAIN Sorted(s) : i < j => Rank(Sorted(s)[i]) <= Rank(Sorted(s)[j])
         /\ \A t \in Transports :
              Cardinality(Places(Sorted(s), t)) = Cardinality(Places(s, t))
<1> DEFINE n == Len(s)
<1>1. PICK p \in Ascending(s) : Sorted(s) = [i \in DOMAIN s |-> s[p[i]]]
  <2>1. (CHOOSE q \in Ascending(s) : TRUE) \in Ascending(s)
    BY AscendingExists
  <2> QED
    BY <2>1 DEF Sorted
<1>2. n \in Nat /\ DOMAIN s = 1..n /\ IsFiniteSet(1..n)
  BY FS_Interval
<1>3. /\ p \in [1..n -> 1..n]
      /\ \A i, j \in 1..n : p[i] = p[j] => i = j
      /\ \A i, j \in 1..n : i < j => Rank(s[p[i]]) <= Rank(s[p[j]])
  BY <1>2 DEF Ascending, IsInjective
<1>4. \A k \in 1..n : \E i \in 1..n : p[i] = k
  <2>1. p \in Injection(1..n, 1..n)
    BY <1>3 DEF Injection, IsInjective
  <2>2. p \in Surjection(1..n, 1..n)
    BY <2>1, <1>2, FS_Injection
  <2> QED
    BY <2>2 DEF Surjection
<1> HIDE DEF n
<1>5. Sorted(s) = [i \in 1..n |-> s[p[i]]]
  BY <1>1, <1>2
<1>6. Sorted(s) \in Seq(Transports)
  <2>1. \A i \in 1..n : s[p[i]] \in Transports
    BY <1>2, <1>3, ElementOfSeq DEF n
  <2> QED
    BY <2>1, <1>2, <1>5
<1>7. ASSUME NEW t \in Transports
      PROVE  Cardinality(Places(Sorted(s), t)) = Cardinality(Places(s, t))
  <2> DEFINE P == Places(Sorted(s), t)
             Q == Places(s, t)
             f == [i \in P |-> p[i]]
  <2>1. P = {i \in 1..n : s[p[i]] = t} /\ Q = {i \in 1..n : s[i] = t}
    BY <1>2, <1>5 DEF Places
  <2>2. IsFiniteSet(P)
    BY <1>6, FinitePlaces
  <2> HIDE DEF P, Q
  <2>3. f \in [P -> Q] /\ \A i, j \in P : f[i] = f[j] => i = j
    BY <2>1, <1>3
  <2>4. \A k \in Q : \E i \in P : f[i] = k
    BY <2>1, <1>4
  <2> HIDE DEF f
  <2>5. f \in Bijection(P, Q)
    BY <2>3, <2>4 DEF Bijection, Injection, Surjection, IsInjective
  <2> QED
    BY <2>2, <2>5, FS_Bijection DEF ExistsBijection, P, Q
<1>8. \A i, j \in DOMAIN Sorted(s) : i < j => Rank(Sorted(s)[i]) <= Rank(Sorted(s)[j])
  BY <1>3, <1>5
<1> QED
  BY <1>6, <1>7, <1>8

(* The transports of one argument, in the order in which the map is walked, come
   once each after those already there. *)
LEMMA CountAppended ==
  ASSUME NEW s \in Seq(Transports), NEW V \in SUBSET Transports, NEW order \in SetToSeqs(V)
  PROVE  /\ s \o order \in Seq(Transports)
         /\ \A t \in Transports :
              Cardinality(Places(s \o order, t))
                = Cardinality(Places(s, t)) + (IF t \in V THEN 1 ELSE 0)
<1> DEFINE m == Cardinality(V)
           n == Len(s)
<1>1. IsFiniteSet(V) /\ m \in Nat
  BY FiniteTransports, FS_CardinalityType
<1>2. order \in [1..m -> V] /\ \A i, j \in 1..m : i # j => order[i] # order[j]
  BY DEF SetToSeqs
<1>3. Cardinality(1..m) = m
  BY <1>1, FS_Interval
<1>4. \A t \in V : \E k \in 1..m : order[k] = t
  <2>1. order \in Injection(1..m, V)
    BY <1>2 DEF Injection, IsInjective
  <2>2. order \in Surjection(1..m, V)
    BY <2>1, <1>1, <1>3, FS_Injection
  <2> QED
    BY <2>2 DEF Surjection
<1> HIDE DEF m
<1>5. order \in Seq(Transports) /\ Len(order) = m
  BY <1>1, <1>2
<1>6. /\ s \o order \in Seq(Transports) /\ Len(s \o order) = n + m /\ n \in Nat
      /\ \A i \in 1..(n + m) : (s \o order)[i] = IF i <= n THEN s[i] ELSE order[i - n]
  <2>1. s \o order \in Seq(Transports) /\ n \in Nat
    BY <1>5
  <2>2. Len(s \o order) = n + m
    BY <1>5
  <2>3. \A i \in 1..(Len(s) + Len(order)) :
          (s \o order)[i] = IF i <= Len(s) THEN s[i] ELSE order[i - Len(s)]
    BY <1>5, ConcatProperties
  <2> QED
    BY <2>1, <2>2, <2>3, <1>5
<1>7. DOMAIN (s \o order) = 1..(n + m) /\ DOMAIN s = 1..n
  BY <1>6
<1> HIDE DEF n
<1>8. ASSUME NEW t \in Transports
      PROVE  Cardinality(Places(s \o order, t))
               = Cardinality(Places(s, t)) + (IF t \in V THEN 1 ELSE 0)
  <2>1. IsFiniteSet(Places(s, t)) /\ Places(s, t) \in SUBSET (1..n)
    BY FinitePlaces DEF n
  <2>2. Cardinality(Places(s, t)) \in Nat
    BY <2>1, FS_CardinalityType
  <2>3. CASE t \in V
    <3>1. PICK k \in 1..m : order[k] = t
      BY <2>3, <1>4
    <3>2. \A i \in 1..(n + m) : (s \o order)[i] = t <=> (i \in 1..n /\ s[i] = t) \/ i = n + k
      <4> TAKE i \in 1..(n + m)
      <4>1. CASE i <= n
        BY <4>1, <1>6, <1>1
      <4>2. CASE ~ (i <= n)
        <5>1. i - n \in 1..m /\ (s \o order)[i] = order[i - n]
          BY <4>2, <1>6, <1>1
        <5>2. order[i - n] = t <=> i - n = k
          BY <5>1, <3>1, <1>2
        <5> QED
          BY <5>1, <5>2, <4>2, <1>6, <1>1
      <4> QED
        BY <4>1, <4>2
    <3>4. n + k \in 1..(n + m) /\ \A i \in 1..n : i \in 1..(n + m)
      BY <3>1, <1>1, <1>6
    <3>5. Places(s \o order, t) = Places(s, t) \cup {n + k}
      BY <3>2, <3>4, <1>7 DEF Places
    <3>3. n + k \notin Places(s, t)
      BY <2>1, <1>6, <1>1
    <3> QED
      BY <2>1, <2>3, <3>5, <3>3, FS_AddElement
  <2>4. CASE t \notin V
    <3>1. Places(s \o order, t) = Places(s, t)
      BY <2>4, <1>1, <1>2, <1>6, <1>7 DEF Places
    <3> QED
      BY <2>2, <2>4, <3>1
  <2> QED
    BY <2>3, <2>4
<1> QED
  BY <1>6, <1>8

LEMMA TransportsNext ==
  ASSUME Typed, NEW a \in Arguments, args' = Append(args, a), Effect(a), ~Refused(a),
         TransportsFollow
  PROVE  TransportsFollow'
<1> DEFINE N(t) == Naming(args, t)
           M(t) == Naming(Append(args, a), t)
<1>1. args \in Seq(Arguments) /\ Len(args) \in Nat /\ DOMAIN args = 1..Len(args)
  BY DEF Typed
<1>2. /\ Append(args, a)[Len(args) + 1] = a
      /\ \A i \in 1..Len(args) : Append(args, a)[i] = args[i]
  BY <1>1
<1>3. GivenIn(args, "keyed", "transport") \in SUBSET (1..Len(args))
  BY <1>1 DEF GivenIn
<1>4. ASSUME NEW t
      PROVE  IsFiniteSet(N(t)) /\ Len(args) + 1 \notin N(t)
  <2>1. N(t) \in SUBSET (1..Len(args))
    BY <1>3 DEF Naming
  <2>2. IsFiniteSet(1..Len(args))
    BY <1>1, FS_Interval
  <2>3. Len(args) + 1 \notin N(t)
    BY <2>1, <1>1
  <2> QED
    BY <2>1, <2>2, <2>3, FS_Subset
<1>5. CASE Value(a, "transport")
  <2>1. GivenIn(Append(args, a), "keyed", "transport")
          = GivenIn(args, "keyed", "transport") \cup {Len(args) + 1}
    BY <1>1, <1>5, AskedNext
  <2>2. ASSUME NEW t
        PROVE  M(t) = IF t \in a.val THEN N(t) \cup {Len(args) + 1} ELSE N(t)
    BY <2>1, <1>2, <1>3 DEF Naming
  <2>3. ASSUME NEW t
        PROVE  Cardinality(M(t)) = Cardinality(N(t)) + (IF t \in a.val THEN 1 ELSE 0)
    <3>1. Cardinality(N(t)) \in Nat
      BY <1>4, FS_CardinalityType
    <3>2. M(t) = IF t \in a.val THEN N(t) \cup {Len(args) + 1} ELSE N(t)
      BY <2>2
    <3>3. IsFiniteSet(N(t)) /\ Len(args) + 1 \notin N(t)
      BY <1>4
    <3> HIDE DEF M, N
    <3>4. CASE t \in a.val
      BY <3>2, <3>3, <3>4, FS_AddElement
    <3>5. CASE t \notin a.val
      BY <3>1, <3>2, <3>5
    <3> QED
      BY <3>4, <3>5
  <2>4. a.val \in SUBSET Transports
    BY <1>5 DEF Refused, Transports
  <2>5. PICK order \in SetToSeqs(a.val) : cfg'.transports = Sorted(cfg.transports \o order)
    BY <1>5 DEF Effect
  <2>6. cfg.transports \in Seq(Transports)
    BY DEF TransportsFollow, Transports
  <2> DEFINE u == cfg.transports \o order
  <2>7. u \in Seq(Transports)
    BY <2>4, <2>6, CountAppended
  <2>8. \A t \in Transports :
          Cardinality(Places(u, t)) = Cardinality(Places(cfg.transports, t))
                                        + (IF t \in a.val THEN 1 ELSE 0)
    BY <2>4, <2>6, CountAppended
  <2> HIDE DEF u, M, N
  <2>9. /\ cfg'.transports \in Seq(Transports)
        /\ \A i, j \in DOMAIN cfg'.transports :
             i < j => Rank(cfg'.transports[i]) <= Rank(cfg'.transports[j])
        /\ \A t \in Transports :
             Cardinality(Places(cfg'.transports, t)) = Cardinality(Places(u, t))
    BY <2>5, <2>7, SortedSorts DEF u
  <2>10. \A t \in Transports : Cardinality(Places(cfg.transports, t)) = Cardinality(N(t))
    BY DEF TransportsFollow, Transports, N
  <2>11. \A t \in Transports : Cardinality(Places(cfg'.transports, t)) = Cardinality(M(t))
    BY <2>3, <2>8, <2>9, <2>10
  <2> QED
    BY <2>9, <2>11 DEF TransportsFollow, Transports, M
<1>6. CASE ~Value(a, "transport")
  <2>1. GivenIn(Append(args, a), "keyed", "transport") = GivenIn(args, "keyed", "transport")
    BY <1>1, <1>6, GivenOfAppend DEF Value
  <2>2. ASSUME NEW t
        PROVE  M(t) = N(t)
    BY <2>1, <1>2, <1>3 DEF Naming
  <2>3. cfg'.transports = cfg.transports
    BY <1>6 DEF Effect
  <2>4. \A t \in Transports : Cardinality(Places(cfg'.transports, t)) = Cardinality(M(t))
    BY <2>2, <2>3 DEF TransportsFollow, Transports
  <2> QED
    BY <2>3, <2>4 DEF TransportsFollow, Transports
<1> QED
  BY <1>5, <1>6

-------------------------------------------------------------------------------
(* The configuration as a whole: an argument, an entry, the end of a file. *)
LEMMA FollowingNext ==
  ASSUME Typed, NEW a \in Arguments, args' = Append(args, a), Effect(a), ~Refused(a), Following
  PROVE  Following'
<1>1. \A i \in DOMAIN args' : ~Refused(args'[i])
  <2>1. DOMAIN args = 1..Len(args) /\ DOMAIN args' = 1..(Len(args) + 1) /\ Len(args) \in Nat
    BY DEF Typed
  <2>2. args'[Len(args) + 1] = a /\ \A i \in 1..Len(args) : args'[i] = args[i]
    BY DEF Typed
  <2>3. \A i \in DOMAIN args' : args'[i] = a \/ (i \in DOMAIN args /\ args'[i] = args[i])
    BY <2>1, <2>2
  <2> QED
    BY <2>3, Zenon DEF Following
<1> QED
  BY <1>1, SlotsNext, FlagsNext, OverridesNext, TransportsNext DEF Following

LEMMA FollowingKept ==
  ASSUME Following, args' = args, \A f \in Fields \ {"gRPCServiceConfig"} : cfg'[f] = cfg[f]
  PROVE  Following'
<1>1. /\ cfg'.pkgPath = cfg.pkgPath /\ cfg'.pkgName = cfg.pkgName /\ cfg'.outDir = cfg.outDir
      /\ cfg'.modulePrefix = cfg.modulePrefix /\ cfg'.relLvl = cfg.relLvl
      /\ cfg'.apiServiceConfig = cfg.apiServiceConfig /\ cfg'.flags = cfg.flags
      /\ cfg'.features = cfg.features /\ cfg'.pkgOverrides = cfg.pkgOverrides
      /\ cfg'.transports = cfg.transports
  BY DEF Fields
<1>2. PackageFollows' /\ ModuleFollows'
  BY <1>1 DEF Following, PackageFollows, ModuleFollows
<1>3. LevelFollows' /\ FileFollows' /\ FlagsFollow'
  BY <1>1 DEF Following, LevelFollows, FileFollows, FlagsFollow
<1>6. OverridesFollow'
  <2>1. OverridesFollow
    BY DEF Following
  <2> DEFINE keys(s) == {s[i].key : i \in {j \in DOMAIN s : s[j].kind = "M"}}
             last(s) == [f \in keys(s) |-> LastIn(s, "M", f).val]
  <2>2. cfg.pkgOverrides = last(args)
    BY <2>1 DEF OverridesFollow
  <2>3. last(args') = last(args)
    <3> HIDE DEF last
    <3> QED
      OBVIOUS
  <2>4. cfg'.pkgOverrides = last(args')
    BY <1>1, <2>2, <2>3
  <2> QED
    BY <2>4 DEF OverridesFollow
<1>4. TransportsFollow'
  BY <1>1 DEF Following, TransportsFollow
<1>5. \A i \in DOMAIN args' : ~Refused(args'[i])
  BY DEF Following
<1> QED
  BY <1>2, <1>3, <1>4, <1>5, <1>6 DEF Following

(* One name of a service config: the map follows the entry if it counts for the
   field and is left alone if it does not (New). *)
LEMMA EntryCounted ==
  ASSUME NEW e \in Seq(Names \X MethodConfigs), NEW n \in Names, NEW mc \in MethodConfigs,
         NEW f, NEW field, Holds(f, e, field)
  PROVE  LET d == Append(e, <<n, mc>>) IN
         IF field = "retryPolicy" \/ mc[field] # {} THEN Holds(Put(f, n, mc[field]), d, field)
         ELSE Holds(f, d, field)
<1> DEFINE d == Append(e, <<n, mc>>)
           Counts(c) == field = "retryPolicy" \/ c[2][field] # {}
           C(k) == CountingIn(e, field, k)
           D(k) == CountingIn(d, field, k)
           keys == {e[i][1] : i \in {j \in DOMAIN e : Counts(e[j])}}
           next == {d[i][1] : i \in {j \in DOMAIN d : Counts(d[j])}}
<1>1. /\ DOMAIN e = 1..Len(e) /\ DOMAIN d = 1..(Len(e) + 1) /\ Len(e) \in Nat
      /\ d[Len(e) + 1] = <<n, mc>> /\ \A i \in 1..Len(e) : d[i] = e[i]
  OBVIOUS
<1> HIDE DEF d
<1>2. Counts(<<n, mc>>) <=> (field = "retryPolicy" \/ mc[field] # {})
  OBVIOUS
<1>3. ASSUME NEW k
      PROVE  /\ C(k) \in SUBSET (1..Len(e))
             /\ D(k) = IF k = n /\ Counts(<<n, mc>>) THEN C(k) \cup {Len(e) + 1} ELSE C(k)
  BY <1>1 DEF CountingIn
<1>4. next = IF Counts(<<n, mc>>) THEN keys \cup {n} ELSE keys
  BY <1>1
<1>5. \A k \in keys : C(k) # {}
  BY DEF CountingIn
<1>6. DOMAIN f = keys /\ \A k \in keys : f[k] = e[Max(C(k))][2][field]
  BY DEF Holds
<1>7. ASSUME NEW k \in keys
      PROVE  Max(C(k)) \in 1..Len(e) /\ d[Max(C(k))] = e[Max(C(k))]
  <2>1. C(k) \in SUBSET (1..Len(e)) /\ C(k) # {}
    BY <1>3, <1>5
  <2>2. Max(C(k)) \in C(k)
    BY <1>1, <2>1, MaxOfPositions
  <2> HIDE DEF C
  <2> QED
    BY <1>1, <2>1, <2>2
<1>8. CASE field = "retryPolicy" \/ mc[field] # {}
  <2> DEFINE g == Put(f, n, mc[field])
  <2>1. DOMAIN g = next
    BY <1>2, <1>4, <1>6, <1>8 DEF Put
  <2>2. g[n] = d[Max(D(n))][2][field]
    <3>1. D(n) = C(n) \cup {Len(e) + 1} /\ C(n) \in SUBSET (1..Len(e))
      BY <1>2, <1>3, <1>8
    <3>2. Max(D(n)) = Len(e) + 1
      BY <3>1, <1>1, MaxOfNext
    <3> HIDE DEF D
    <3> QED
      BY <3>2, <1>1 DEF Put
  <2>3. ASSUME NEW k \in keys, k # n
        PROVE  g[k] = d[Max(D(k))][2][field]
    <3>1. D(k) = C(k)
      BY <1>3, <2>3
    <3>2. g[k] = f[k]
      BY <1>6, <2>3 DEF Put
    <3> HIDE DEF C, D, g
    <3> QED
      BY <3>1, <3>2, <1>6, <1>7
  <2> HIDE DEF g, keys, next
  <2>4. \A k \in DOMAIN g : g[k] = d[Max(D(k))][2][field]
    BY <2>1, <2>2, <2>3, <1>2, <1>4, <1>8
  <2> QED
    BY <1>8, <2>1, <2>4 DEF Holds, g, next, d
<1>9. CASE ~ (field = "retryPolicy" \/ mc[field] # {})
  <2>1. DOMAIN f = next
    BY <1>2, <1>4, <1>6, <1>9
  <2>2. ASSUME NEW k \in keys
        PROVE  f[k] = d[Max(D(k))][2][field]
    <3>1. D(k) = C(k)
      BY <1>2, <1>3, <1>9
    <3> HIDE DEF C, D
    <3> QED
      BY <3>1, <1>6, <1>7
  <2> HIDE DEF keys, next
  <2>3. \A k \in DOMAIN f : f[k] = d[Max(D(k))][2][field]
    BY <2>2, <1>6
  <2> QED
    BY <1>9, <2>1, <2>3 DEF Holds, next, d
<1> QED
  BY <1>8, <1>9

-------------------------------------------------------------------------------
(* The validation, once every field follows the arguments. *)

(* What an empty prefix and TrimPrefix mean for paths. *)
LEMMA Prefixed ==
  ASSUME NEW S, NEW p \in Seq(S), NEW s \in Seq(S)
  PROVE  /\ p = <<>> => IsPrefix(p, s)
         /\ IsPrefix(p, s) => p \o SubSeq(s, Len(p) + 1, Len(s)) = s
<1>1. p = <<>> => IsPrefix(p, s)
  BY DEF IsPrefix
<1>2. ASSUME IsPrefix(p, s)
      PROVE  p \o SubSeq(s, Len(p) + 1, Len(s)) = s
  <2> DEFINE m == Len(p)
             n == Len(s)
             u == SubSeq(s, m + 1, n)
  <2>1. m \in Nat /\ n \in Nat /\ m <= n /\ SubSeq(p, 1, m) = SubSeq(s, 1, m)
    BY <1>2 DEF IsPrefix
  <2>2. \A i \in 1..m : p[i] = s[i]
    <3>1. \A i \in 1..m : SubSeq(p, 1, m)[i] = p[i] /\ SubSeq(s, 1, m)[i] = s[i]
      BY <2>1
    <3> QED
      BY <2>1, <3>1
  <2>3. u \in Seq(S) /\ Len(u) = n - m /\ \A i \in 1..(n - m) : u[i] = s[m + i]
    BY <2>1
  <2> HIDE DEF u
  <2>4. p \o u \in Seq(S) /\ Len(p \o u) = n
    BY <2>1, <2>3
  <2>5. \A i \in 1..n : (p \o u)[i] = IF i <= m THEN p[i] ELSE u[i - m]
    BY <2>1, <2>3, ConcatProperties
  <2>6. \A i \in 1..n : (p \o u)[i] = s[i]
    BY <2>1, <2>2, <2>3, <2>5
  <2> QED
    BY <2>4, <2>6, SeqEqual DEF u
<1> QED
  BY <1>1, <1>2

LEMMA AcceptsValid ==
  ASSUME Following, \A i \in DOMAIN args : ~Overlooked(args[i])
  PROVE  Accepted <=> ValidRequest
<1> DEFINE package == GivenIn(args, "keyed", "go-gapic-package")
           module  == GivenIn(args, "keyed", "module")
<1>1. /\ Given("plain", "diregapic") = GivenIn(args, "plain", "diregapic")
      /\ Given("plain", "rest-numeric-enums") = GivenIn(args, "plain", "rest-numeric-enums")
      /\ Asked("go-gapic-package") = package /\ Asked("module") = module
      /\ LastValue("go-gapic-package") = LastIn(args, "keyed", "go-gapic-package").val
      /\ LastValue("module") = LastIn(args, "keyed", "module").val
  BY DEF Given, Asked, LastValue, GivenIn, LastIn
<1>2. Incompatible <=> ~ (Given("plain", "diregapic") = {} \/ Given("plain", "rest-numeric-enums") = {})
  BY <1>1 DEF Incompatible, Following, FlagsFollow, SupportedBooleanArgs
<1>3. NoPackage <=> ~ /\ Asked("go-gapic-package") # {}
                      /\ LastValue("go-gapic-package").path # <<>>
                      /\ LastValue("go-gapic-package").name # ""
  BY <1>1 DEF NoPackage, Following, PackageFollows
<1>4. Asked("go-gapic-package") # {} =>
        (OutsideModule <=>
           ~ (Asked("module") # {} => IsPrefix(LastValue("module"), LastValue("go-gapic-package").path)))
  <2>1. IsPrefix(<<>>, cfg.pkgPath) /\ cfg.outDir = cfg.pkgPath
    <3>1. cfg.pkgPath \in Seq(STRING) /\ cfg.outDir = cfg.pkgPath
      BY DEF Following, PackageFollows
    <3>2. <<>> \in Seq(STRING)
      OBVIOUS
    <3> QED
      BY <3>1, <3>2, Prefixed
  <2>2. Asked("module") # {} => LastValue("module") = cfg.modulePrefix
    BY <1>1 DEF Following, ModuleFollows, Latest
  <2>3. Asked("module") = {} => cfg.modulePrefix = <<>>
    BY <1>1 DEF Following, ModuleFollows, Latest
  <2>4. Asked("go-gapic-package") # {} => LastValue("go-gapic-package").path = cfg.pkgPath
    BY <1>1 DEF Following, PackageFollows
  <2> QED
    BY <2>1, <2>2, <2>3, <2>4 DEF OutsideModule
<1>5. \A i \in DOMAIN args : ~Invalid(args[i])
  BY DEF Following, Invalid
<1> HIDE DEF package, module
<1> QED
  BY <1>2, <1>3, <1>4, <1>5 DEF Accepted, ValidRequest

(* The transports that are returned: gRPC alone if no argument names any. *)
LEMMA TransportsNormal ==
  ASSUME Typed, Following
  PROVE  LET T == NormalTransports IN
         /\ \A i, j \in DOMAIN T : i < j => Rank(T[i]) <= Rank(T[j])
         /\ \A t \in {"grpc", "rest"} :
              Cardinality(Places(T, t))
                = IF GivenIn(args, "keyed", "transport") = {} /\ t = "grpc" THEN 1
                  ELSE Cardinality(Naming(args, t))
<1> DEFINE T == cfg.transports
           A == GivenIn(args, "keyed", "transport")
<1>1. /\ T \in Seq(Transports)
      /\ \A i, j \in DOMAIN T : i < j => Rank(T[i]) <= Rank(T[j])
      /\ \A t \in Transports : Cardinality(Places(T, t)) = Cardinality(Naming(args, t))
  BY DEF Following, TransportsFollow, Transports
<1>2. IsFiniteSet(A)
  <2>1. A \in SUBSET (1..Len(args)) /\ Len(args) \in Nat
    BY DEF Typed, GivenIn
  <2>2. IsFiniteSet(1..Len(args))
    BY <2>1, FS_Interval
  <2> QED
    BY <2>1, <2>2, FS_Subset
<1>3. \A t : IsFiniteSet(Places(T, t)) /\ IsFiniteSet(Naming(args, t))
  <2>1. \A t : Naming(args, t) \in SUBSET A
    BY DEF Naming
  <2> QED
    BY <1>1, <1>2, <2>1, FinitePlaces, FS_Subset
<1>4. \A t \in Transports : Places(T, t) = {} <=> Naming(args, t) = {}
  BY <1>1, <1>3, FS_EmptySet
<1>5. T = <<>> <=> \A t \in Transports : Places(T, t) = {}
  <2>1. T = <<>> <=> DOMAIN T = {}
    BY <1>1
  <2>2. \A i \in DOMAIN T : T[i] \in Transports
    BY <1>1
  <2> QED
    BY <2>1, <2>2 DEF Places
<1>6. A = {} <=> \A t \in Transports : Naming(args, t) = {}
  <2>1. ASSUME NEW i \in A
        PROVE  \E t \in Transports : i \in Naming(args, t)
    <3>1. args[i] \in Arguments /\ Value(args[i], "transport") /\ ~Refused(args[i])
      BY DEF Typed, Following, GivenIn, Value
    <3>2. args[i].val # {} /\ args[i].val \subseteq Transports
      BY <3>1, OptionsAssumption DEF Refused, Value, Transports
    <3> QED
      BY <3>2 DEF Naming
  <2> QED
    BY <2>1 DEF Naming
<1>7. CASE T # <<>>
  <2>1. A # {} /\ NormalTransports = T
    BY <1>4, <1>5, <1>6, <1>7 DEF NormalTransports
  <2> HIDE DEF A, T
  <2> QED
    BY <2>1, <1>1 DEF Transports, A
<1>8. CASE T = <<>>
  <2>1. A = {} /\ NormalTransports = <<"grpc">>
    BY <1>4, <1>5, <1>6, <1>8 DEF NormalTransports
  <2>2. Places(<<"grpc">>, "grpc") = {1} /\ Places(<<"grpc">>, "rest") = {}
    BY DEF Places
  <2>3. Cardinality(Places(<<"grpc">>, "grpc")) = 1 /\ Cardinality(Places(<<"grpc">>, "rest")) = 0
    BY <2>2, FS_Singleton, FS_EmptySet
  <2>4. Naming(args, "rest") = {} /\ Cardinality(Naming(args, "rest")) = 0
    BY <2>1, FS_EmptySet DEF Naming
  <2>5. \A i, j \in DOMAIN <<"grpc">> : i < j => Rank(<<"grpc">>[i]) <= Rank(<<"grpc">>[j])
    OBVIOUS
  <2> HIDE DEF T
  <2> QED
    BY <2>1, <2>3, <2>4, <2>5
<1> QED
  BY <1>7, <1>8

(* What Validate returns, or that it refuses, is as stated. *)
LEMMA Validated ==
  ASSUME Typed, Following, Validate
  PROVE  /\ result' = "config" => AsGiven(cfg', args')
         /\ AcceptedIffValid' /\ FilesWithinModule'
<1>1. args' = args /\ DOMAIN cfg = Fields
  BY DEF Validate, Typed
<1>2. AcceptedIffValid'
  <2>1. ValidRequest' <=> ValidRequest
    BY <1>1 DEF ValidRequest, Invalid, Refused, Overlooked, Value, Given, Asked, LastValue
  <2>2. result' = "config" <=> Accepted
    BY DEF Validate
  <2>3. (\A i \in DOMAIN args' : ~Overlooked(args'[i])) => \A i \in DOMAIN args : ~Overlooked(args[i])
    BY <1>1
  <2> QED
    BY <2>1, <2>2, <2>3, AcceptsValid DEF AcceptedIffValid
<1>3. CASE ~Accepted
  BY <1>2, <1>3 DEF Validate, FilesWithinModule
<1>4. CASE Accepted
  <2> DEFINE c == [cfg EXCEPT !.transports = NormalTransports]
             d == [c EXCEPT !.outDir = NormalOutDir]
  <2>1. cfg' = [cfg EXCEPT !.transports = NormalTransports, !.outDir = NormalOutDir]
    BY <1>4 DEF Validate
  <2>2. d = [cfg EXCEPT !.transports = NormalTransports, !.outDir = NormalOutDir]
    OBVIOUS
  <2>3. d.transports = NormalTransports /\ d.outDir = NormalOutDir
    BY <1>1 DEF Fields
  <2>4. \A f \in Fields \ {"transports", "outDir"} : d[f] = cfg[f]
    BY <1>1
  <2> HIDE DEF d
  <2>5. /\ cfg'.transports = NormalTransports /\ cfg'.outDir = NormalOutDir
        /\ cfg'.pkgPath = cfg.pkgPath /\ cfg'.pkgName = cfg.pkgName
        /\ cfg'.modulePrefix = cfg.modulePrefix /\ cfg'.relLvl = cfg.relLvl
        /\ cfg'.apiServiceConfig = cfg.apiServiceConfig /\ cfg'.flags = cfg.flags
        /\ cfg'.features = cfg.features /\ cfg'.pkgOverrides = cfg.pkgOverrides
    BY <2>1, <2>2, <2>3, <2>4 DEF Fields
  <2>6. FilesWithinModule'
    <3>1. /\ cfg.outDir = cfg.pkgPath /\ cfg.pkgPath \in Seq(STRING)
          /\ cfg.modulePrefix \in Seq(STRING)
      BY DEF Following, PackageFollows, ModuleFollows
    <3> DEFINE Chars == STRING \cup {"/"}
    <3>2. cfg.pkgPath \in Seq(Chars) /\ cfg.modulePrefix \in Seq(Chars) /\ <<"/">> \in Seq(Chars)
      BY <3>1
    <3>3. cfg.modulePrefix \o <<"/">> \in Seq(Chars)
      BY <3>2
    <3> DEFINE p == cfg.modulePrefix \o <<"/">>
    <3>4. IsPrefix(p, cfg.pkgPath) =>
            p \o SubSeq(cfg.pkgPath, Len(p) + 1, Len(cfg.pkgPath)) = cfg.pkgPath
      BY <3>2, <3>3, Prefixed
    <3> HIDE DEF p
    <3>5. NormalOutDir = IF cfg.modulePrefix = <<>> \/ ~IsPrefix(p, cfg.pkgPath) THEN cfg.pkgPath
                         ELSE SubSeq(cfg.pkgPath, Len(p) + 1, Len(cfg.pkgPath))
      BY <3>1 DEF NormalOutDir, TrimPrefix, p
    <3>6. IF cfg.modulePrefix # <<>> /\ IsPrefix(p, cfg.pkgPath)
          THEN p \o NormalOutDir = cfg.pkgPath
          ELSE NormalOutDir = cfg.pkgPath
      BY <3>4, <3>5
    <3> QED
      BY <2>5, <3>6 DEF FilesWithinModule, p
  <2>7. AsGiven(cfg', args')
    <3>1. cfg.pkgPath # <<>>
      BY <1>4 DEF Accepted, NoPackage
    <3>2. GivenIn(args, "keyed", "go-gapic-package") # {}
      BY <3>1 DEF Following, PackageFollows
    <3>3. /\ cfg'.pkgPath = LastIn(args, "keyed", "go-gapic-package").val.path
          /\ cfg'.pkgName = LastIn(args, "keyed", "go-gapic-package").val.name
      BY <2>5, <3>2 DEF Following, PackageFollows
    <3>4. /\ cfg'.modulePrefix = Latest(args, "module", <<>>)
          /\ cfg'.relLvl = Latest(args, "release-level", "")
          /\ cfg'.apiServiceConfig =
               IF GivenIn(args, "keyed", "api-service-config") = {} THEN {}
               ELSE {LastIn(args, "keyed", "api-service-config").val.config}
      BY <2>5 DEF Following, ModuleFollows, LevelFollows, FileFollows
    <3>5. /\ cfg'.flags = {f \in SupportedBooleanArgs : GivenIn(args, "plain", f) # {}}
          /\ cfg'.features = {f \in Features : GivenIn(args, "F_", f) # {}}
      BY <2>5 DEF Following, FlagsFollow
    <3>6. cfg'.pkgOverrides =
            [f \in {args[i].key : i \in {j \in DOMAIN args : args[j].kind = "M"}} |->
               LastIn(args, "M", f).val]
      BY <2>5 DEF Following, OverridesFollow
    <3>7. /\ \A i, j \in DOMAIN cfg'.transports :
               i < j => Rank(cfg'.transports[i]) <= Rank(cfg'.transports[j])
          /\ \A t \in {"grpc", "rest"} :
               Cardinality(Places(cfg'.transports, t))
                 = IF GivenIn(args, "keyed", "transport") = {} /\ t = "grpc" THEN 1
                   ELSE Cardinality(Naming(args, t))
      BY <2>5, TransportsNormal
    <3>8. AsGiven(cfg', args)
      BY <3>3, <3>4, <3>5, <3>6, <3>7, Zenon DEF AsGiven
    <3> QED
      BY <1>1, <3>8
  <2> QED
    BY <1>2, <2>6, <2>7
<1> QED
  BY <1>3, <1>4

-------------------------------------------------------------------------------
(* The invariant holds at first and is kept by every step. *)
LEMMA InitHolds ==
  ASSUME Init
  PROVE  IInv
<1>1. args = <<>> /\ entries = <<>> /\ result = "parsing" /\ reading = FALSE /\ local = NoConfig
  BY DEF Init
<1>2. \A S : <<>> \in Seq(S)
  OBVIOUS
<1>3. DOMAIN <<>> = {} /\ DOMAIN args = {}
  BY <1>1
<1>4. \A kind, key : GivenIn(args, kind, key) = {}
  BY <1>3 DEF GivenIn
<1>5. /\ cfg.pkgPath = <<>> /\ cfg.pkgName = "" /\ cfg.outDir = <<>> /\ cfg.flags = {}
      /\ cfg.apiServiceConfig = {} /\ cfg.gRPCServiceConfig = NoConfig
      /\ cfg.modulePrefix = <<>> /\ cfg.relLvl = "" /\ cfg.transports = <<>>
      /\ cfg.pkgOverrides = EmptyMap /\ cfg.features = {} /\ DOMAIN cfg = Fields
  BY DEF Init, Fields
<1>6. Typed
  BY <1>1, <1>2, <1>5 DEF Typed
<1>7. PackageFollows
  BY <1>2, <1>4, <1>5 DEF PackageFollows
<1>8. ModuleFollows
  BY <1>2, <1>4, <1>5 DEF ModuleFollows, Latest
<1>9. LevelFollows /\ FileFollows /\ FlagsFollow
  BY <1>4, <1>5 DEF LevelFollows, FileFollows, FlagsFollow, Latest
<1>10. OverridesFollow
  BY <1>3, <1>5 DEF OverridesFollow, EmptyMap
<1>11. TransportsFollow
  <2>1. \A t : Places(cfg.transports, t) = {}
    BY <1>3, <1>5 DEF Places
  <2>2. \A t : Naming(args, t) = {}
    BY <1>4 DEF Naming
  <2>3. \A t : Cardinality(Places(cfg.transports, t)) = Cardinality(Naming(args, t))
    BY <2>1, <2>2
  <2>4. cfg.transports \in Seq({"grpc", "rest"}) /\ DOMAIN cfg.transports = {}
    BY <1>2, <1>3, <1>5
  <2> QED
    BY <2>3, <2>4 DEF TransportsFollow
<1>12. Following
  BY <1>3, <1>7, <1>8, <1>9, <1>10, <1>11 DEF Following
<1>13. ConfigHolds
  <2>1. \A field : Holds(EmptyMap, <<>>, field)
    BY <1>3 DEF Holds, EmptyMap
  <2> QED
    BY <1>1, <1>5, <2>1 DEF ConfigHolds, NoConfig
<1> QED
  BY <1>1, <1>6, <1>12, <1>13 DEF IInv, AcceptedIffValid, FilesWithinModule

(* While the result is open these properties say nothing. *)
LEMMA NothingYet ==
  ASSUME result' = "parsing"
  PROVE  AcceptedIffValid' /\ FilesWithinModule'
BY DEF AcceptedIffValid, FilesWithinModule

LEMMA OptionKeeps ==
  ASSUME IInv, NEW a \in Arguments, Option(a)
  PROVE  IInv'
<1>1. /\ result = "parsing" /\ ~reading /\ args' = Append(args, a)
      /\ \/ Refused(a) /\ result' = "error" /\ UNCHANGED <<cfg, local, reading, entries>>
         \/ /\ ~Refused(a) /\ result' = "parsing" /\ Effect(a)
            /\ \/ UNCHANGED <<local, reading, entries>>
               \/ reading' = TRUE /\ local' = NoConfig /\ entries' = <<>>
  BY Effects DEF IInv
<1>2. args' \in Seq(Arguments) /\ args'[Len(args) + 1] = a /\ Len(args) + 1 \in DOMAIN args'
  BY <1>1 DEF IInv, Typed
<1>3. CASE Refused(a) /\ result' = "error" /\ UNCHANGED <<cfg, local, reading, entries>>
  <2>1. Typed'
    BY <1>1, <1>2, <1>3 DEF IInv, Typed
  <2>2. ConfigHolds'
    BY <1>3 DEF IInv, ConfigHolds
  <2>3. ~ValidRequest'
    BY <1>2, <1>3 DEF ValidRequest, Invalid, Refused, Value
  <2> QED
    BY <1>3, <2>1, <2>2, <2>3 DEF IInv, AcceptedIffValid, FilesWithinModule
<1>4. CASE /\ ~Refused(a) /\ result' = "parsing" /\ Effect(a)
           /\ \/ UNCHANGED <<local, reading, entries>>
              \/ reading' = TRUE /\ local' = NoConfig /\ entries' = <<>>
  <2>1. Typed'
    <3>1. <<>> \in Seq(Names \X MethodConfigs)
      OBVIOUS
    <3> QED
      BY <1>1, <1>2, <1>4, <3>1 DEF IInv, Typed, Effect
  <2>2. Following'
    BY <1>1, <1>4, FollowingNext DEF IInv
  <2>3. ConfigHolds'
    <3>1. \A field : Holds(EmptyMap, <<>>, field)
      BY DEF Holds, EmptyMap
    <3> QED
      BY <1>4, <3>1 DEF IInv, ConfigHolds, Effect, NoConfig
  <2> QED
    BY <1>4, <2>1, <2>2, <2>3, NothingYet DEF IInv
<1> QED
  BY <1>1, <1>3, <1>4

LEMMA ReadNameKeeps ==
  ASSUME IInv, ReadName
  PROVE  IInv'
<1>1. PICK n \in Names, mc \in MethodConfigs :
        local' = Record(local, n, mc) /\ entries' = Append(entries, <<n, mc>>)
  BY DEF ReadName
<1>2. reading /\ result = "parsing" /\ UNCHANGED <<cfg, result, reading, args>>
  BY DEF ReadName, IInv, Typed
<1>3. Typed'
  BY <1>1, <1>2 DEF IInv, Typed
<1>4. entries \in Seq(Names \X MethodConfigs)
  BY DEF IInv, Typed
<1>5. Holds(local'.policies, entries', "retryPolicy")
  BY <1>1, <1>4, EntryCounted DEF IInv, ConfigHolds, Record
<1>6. Holds(local'.timeouts, entries', "timeout")
  BY <1>1, <1>4, EntryCounted DEF IInv, ConfigHolds, Record, PutIfSet
<1>7. Holds(local'.reqLimits, entries', "maxReq")
  BY <1>1, <1>4, EntryCounted DEF IInv, ConfigHolds, Record, PutIfSet
<1>8. Holds(local'.resLimits, entries', "maxRes")
  BY <1>1, <1>4, EntryCounted DEF IInv, ConfigHolds, Record, PutIfSet
<1>9. ConfigHolds'
  BY <1>2, <1>5, <1>6, <1>7, <1>8 DEF ConfigHolds
<1>10. Following'
  BY <1>2, FollowingKept DEF IInv
<1> QED
  BY <1>2, <1>3, <1>9, <1>10, NothingYet DEF IInv

LEMMA NewReturnsKeeps ==
  ASSUME IInv, NewReturns
  PROVE  IInv'
<1>1. /\ reading /\ result = "parsing" /\ reading' = FALSE
      /\ UNCHANGED <<result, local, args, entries>> /\ DOMAIN cfg = Fields
  BY DEF NewReturns, IInv, Typed
<1>2. /\ DOMAIN cfg' = Fields /\ cfg'.gRPCServiceConfig = local
      /\ \A f \in Fields \ {"gRPCServiceConfig"} : cfg'[f] = cfg[f]
  BY <1>1 DEF NewReturns, Fields
<1>3. Typed'
  BY <1>1, <1>2 DEF IInv, Typed
<1>4. ConfigHolds'
  BY <1>1, <1>2 DEF IInv, ConfigHolds
<1>5. Following'
  BY <1>1, <1>2, FollowingKept DEF IInv
<1> QED
  BY <1>1, <1>3, <1>4, <1>5, NothingYet DEF IInv

LEMMA ValidateKeeps ==
  ASSUME IInv, Validate
  PROVE  IInv'
<1>1. /\ result = "parsing" /\ ~reading /\ UNCHANGED <<local, reading, args, entries>>
      /\ result' \in {"config", "error"} /\ Typed /\ Following /\ DOMAIN cfg = Fields
  BY DEF Validate, IInv, Typed
<1>2. DOMAIN cfg' = Fields /\ cfg'.gRPCServiceConfig = cfg.gRPCServiceConfig
  BY <1>1 DEF Validate, Fields
<1>3. Typed'
  BY <1>1, <1>2 DEF Typed
<1>4. ConfigHolds'
  BY <1>1, <1>2 DEF IInv, ConfigHolds
<1> QED
  BY <1>1, <1>3, <1>4, Validated DEF IInv

(* The invariant of PluginOptions (configFromRequest and New). *)
THEOREM InvariantHolds == Spec => []IInv
<1>1. IInv /\ [Next]_vars => IInv'
  <2> SUFFICES ASSUME IInv, [Next]_vars PROVE IInv'
    OBVIOUS
  <2>1. CASE UNCHANGED vars
    <3> USE <2>1 DEF vars
    <3>1. Typed' /\ ConfigHolds'
      BY DEF IInv, Typed, ConfigHolds
    <3>2. result' = "parsing" => Following'
      BY FollowingKept DEF IInv
    <3>3. result' = "config" => AsGiven(cfg', args')
      BY DEF IInv
    <3>4. AcceptedIffValid'
      BY DEF IInv, AcceptedIffValid, ValidRequest, Invalid, Refused, Overlooked, Value, Asked, Given, LastValue
    <3>5. FilesWithinModule'
      BY DEF IInv, FilesWithinModule
    <3> QED
      BY <3>1, <3>2, <3>3, <3>4, <3>5 DEF IInv
  <2>2. CASE \E a \in Arguments : Option(a)
    BY <2>2, OptionKeeps
  <2> QED
    BY <2>1, <2>2, ReadNameKeeps, NewReturnsKeeps, ValidateKeeps DEF Next
<1> QED
  BY <1>1, InitHolds, PTL DEF Spec

-------------------------------------------------------------------------------
(* The configuration that is returned is what the arguments ask for, whatever
   their order, number and repetition (options.go, configFromRequest). *)
THEOREM OptionsAlwaysAsGiven == Spec => []OptionsAsGiven
<1>1. IInv => OptionsAsGiven
  <2> SUFFICES ASSUME IInv, result = "config" PROVE OptionsAsGiven
    BY DEF OptionsAsGiven
  <2>1. AsGiven(cfg, args)
    BY DEF IInv
  <2>2. \A kind, key : Given(kind, key) = GivenIn(args, kind, key)
    BY DEF Given, GivenIn
  <2>3. \A key : /\ Asked(key) = GivenIn(args, "keyed", key)
                 /\ LastValue(key) = LastIn(args, "keyed", key).val
    BY <2>2 DEF Asked, LastValue, LastIn
  <2>4. /\ cfg.pkgPath = LastValue("go-gapic-package").path
        /\ cfg.pkgName = LastValue("go-gapic-package").name
        /\ cfg.modulePrefix = IF Asked("module") = {} THEN <<>> ELSE LastValue("module")
        /\ cfg.relLvl = IF Asked("release-level") = {} THEN "" ELSE LastValue("release-level")
        /\ cfg.apiServiceConfig = IF Asked("api-service-config") = {} THEN {}
                                  ELSE {LastValue("api-service-config").config}
    BY <2>1, <2>3 DEF AsGiven, Latest
  <2>5. /\ cfg.flags = {f \in SupportedBooleanArgs : Given("plain", f) # {}}
        /\ cfg.features = {f \in Features : Given("F_", f) # {}}
    BY <2>1, <2>2 DEF AsGiven
  <2>6. cfg.pkgOverrides = [f \in {args[i].key : i \in {j \in DOMAIN args : args[j].kind = "M"}} |->
                              args[Max(Given("M", f))].val]
    BY <2>1, <2>2 DEF AsGiven, LastIn
  <2>7. \A t \in {"grpc", "rest"} :
          Cardinality({i \in DOMAIN cfg.transports : cfg.transports[i] = t})
            = IF Asked("transport") = {} /\ t = "grpc" THEN 1
              ELSE Cardinality({i \in Asked("transport") : t \in args[i].val})
    BY <2>1, <2>3 DEF AsGiven, Places, Naming
  <2>8. \A i, j \in DOMAIN cfg.transports :
          i < j => Rank(cfg.transports[i]) <= Rank(cfg.transports[j])
    BY <2>1 DEF AsGiven
  <2> QED
    BY <2>4, <2>5, <2>6, <2>7, <2>8 DEF OptionsAsGiven
<1> QED
  BY <1>1, InvariantHolds, PTL

(* A configuration is returned exactly for the arguments that are valid one by
   one and together (validateAndNormalizeOptions), unless an argument the code
   overlooks is among them. *)
THEOREM ValidIffAccepted == Spec => []AcceptedIffValid
<1>1. IInv => AcceptedIffValid
  BY DEF IInv
<1> QED
  BY <1>1, InvariantHolds, PTL

(* The directory of the generated files is the package path, without the module
   and one slash if the path continues with them (validateAndNormalizeOptions). *)
THEOREM FilesAlwaysWithinModule == Spec => []FilesWithinModule
<1>1. IInv => FilesWithinModule
  BY DEF IInv
<1> QED
  BY <1>1, InvariantHolds, PTL

(* The accessors find what the entries declare for a method or its service. *)
LEMMA LookupDeclared ==
  ASSUME NEW f, NEW field, NEW m, Holds(f, entries, field)
  PROVE  Lookup(f, m.serv, m.name) = Declared(field, m)
<1>1. \A n : CountingIn(entries, field, n) = Counting(field, n)
  BY DEF CountingIn, Counting
<1>2. \A n : n \in DOMAIN f <=> Counting(field, n) # {}
  BY DEF Holds, Counting
<1>3. \A n \in DOMAIN f : f[n] = entries[Max(Counting(field, n))][2][field]
  BY <1>1 DEF Holds
<1> DEFINE n == Append(m.serv, m.name)
           s == m.serv
<1> HIDE DEF n, s
<1>4. Lookup(f, m.serv, m.name) = IF n \in DOMAIN f THEN f[n] ELSE IF s \in DOMAIN f THEN f[s] ELSE {}
  BY DEF Lookup, Present, n, s
<1>5. Declared(field, m) =
        IF Counting(field, n) # {} THEN entries[Max(Counting(field, n))][2][field]
        ELSE IF Counting(field, s) # {} THEN entries[Max(Counting(field, s))][2][field] ELSE {}
  BY DEF Declared, n, s
<1> QED
  BY <1>2, <1>3, <1>4, <1>5

(* The call options of both transports are those that the service config read
   last declares for the method, or else for its service (New, the accessors,
   grpcCallOptions and restCallOptions). *)
THEOREM CallOptionsAlwaysAsDeclared == Spec => []CallOptionsAsDeclared
<1>1. IInv => CallOptionsAsDeclared
  <2> SUFFICES ASSUME IInv, result = "config", NEW m \in RPCs
               PROVE  /\ GRPCCallOptions(cfg.gRPCServiceConfig, m) =
                           [maxReq |-> Declared("maxReq", m), maxRes |-> Declared("maxRes", m),
                            timeout |-> IF m.streaming THEN {} ELSE Declared("timeout", m),
                            retry |-> Declared("retryPolicy", m)]
                      /\ RESTCallOptions(cfg.gRPCServiceConfig, m) =
                           [timeout |-> Declared("timeout", m),
                            retry |-> Declared("retryPolicy", m) \ {{}}]
    BY DEF CallOptionsAsDeclared
  <2>1. cfg.gRPCServiceConfig = local /\ ConfigHolds
    BY DEF IInv, Typed, ConfigHolds
  <2>2. /\ Lookup(local.policies, m.serv, m.name) = Declared("retryPolicy", m)
        /\ Lookup(local.timeouts, m.serv, m.name) = Declared("timeout", m)
        /\ Lookup(local.reqLimits, m.serv, m.name) = Declared("maxReq", m)
        /\ Lookup(local.resLimits, m.serv, m.name) = Declared("maxRes", m)
    BY <2>1, LookupDeclared DEF ConfigHolds
  <2> QED
    BY <2>1, <2>2 DEF GRPCCallOptions, RESTCallOptions, RetryPolicy, Timeout, RequestLimit, ResponseLimit
<1> QED
  BY <1>1, InvariantHolds, PTL
=================================================================================
