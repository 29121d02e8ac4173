------------------------------ MODULE MCTranscoding ------------------------------
(***************************************************************************)
(* An instance of Transcoding for TLC: a request with a leaf of every kind *)
(* of field, a nested message, a recursive one and a repeated one, and     *)
(* methods that send it in the ways annotations allow.                     *)
(***************************************************************************)
EXTENDS Transcoding, TLC

Leaf(kind) == [kind |-> kind, repeated |-> FALSE, required |-> FALSE, presence |-> "none",
               type |-> NoField]
Sub(type) == [kind |-> "message", repeated |-> FALSE, required |-> FALSE, presence |-> "none",
              type |-> type]

TheMessages == {"Request", "Item", "Node"}
TheFieldsOf ==
  ("Request" :> {"name", "opt", "choice", "must", "tags", "blob", "mask", "item", "node", "list"})
    @@ ("Item" :> {"id", "note"}) @@ ("Node" :> {"child", "label"})
TheFields == UNION { TheFieldsOf[t] : t \in TheMessages }
TheInfo ==
  ("name" :> Leaf("primitive")) @@ ("must" :> [Leaf("primitive") EXCEPT !.required = TRUE])
    @@ ("opt" :> [Leaf("primitive") EXCEPT !.presence = "optional"])
    @@ ("choice" :> [Leaf("primitive") EXCEPT !.presence = "oneof"])
    @@ ("tags" :> [Leaf("primitive") EXCEPT !.repeated = TRUE])
    @@ ("blob" :> Leaf("bytes")) @@ ("mask" :> Leaf("wellknown"))
    @@ ("id" :> Leaf("primitive")) @@ ("note" :> [Leaf("primitive") EXCEPT !.presence = "optional"])
    @@ ("label" :> Leaf("primitive"))
    @@ ("item" :> Sub("Item")) @@ ("node" :> Sub("Node")) @@ ("child" :> Sub("Node"))
    @@ ("list" :> [Sub("Item") EXCEPT !.repeated = TRUE])

Name == <<"name">>
Id == <<"item", "id">>

(* Patterns: everything, only p1, or part of it that is empty for p2. *)
All == ("p1" :> "p1") @@ ("p2" :> "p2") @@ (Empty :> Empty)
First1 == ("p1" :> "c1") @@ ("p2" :> NoMatch) @@ (Empty :> NoMatch)
Part == ("p1" :> "c2") @@ ("p2" :> Empty) @@ (Empty :> NoMatch)
Param(field, header, capture) == [field |-> field, header |-> header, capture |-> capture]

(* Segments of patterns.  Siblings of the methods teach "shelves" and "books"
   but not "users", which only a method with a name of its own uses. *)
v1 == [kind |-> "version", name |-> "v1"]
Lit(name) == [kind |-> "literal", name |-> name, verb |-> FALSE]
WithVerb(name) == [kind |-> "literal", name |-> name, verb |-> TRUE]
Var(field) == [kind |-> "variable", field |-> field]
Must == <<"must">>
TheSiblings ==
  { [standard |-> TRUE,
     patterns |-> << <<v1, Lit("projects"), Var(Name), Lit("shelves"), Var(Id)>>,
                     <<v1, Lit("books"), Var(Name)>> >>],
    [standard |-> FALSE, patterns |-> << <<v1, Lit("users"), Var(Name)>> >>] }

Method(verb, bodyField, pattern) ==
  [verb |-> verb, body |-> bodyField, patterns |-> <<pattern>>, standard |-> FALSE,
   references |-> <<>>, dynamic |-> FALSE, params |-> <<>>]
Projects == <<v1, Lit("projects"), Var(Name)>>
Routed(params) == [Method("get", NoField, <<v1, Var(Name)>>) EXCEPT !.dynamic = TRUE, !.params = params]
Get(pattern) == Method("get", NoField, pattern)

TheMethods ==
  { Get(<<v1, Lit("books")>>), Get(Projects), Method("get", "item", Projects),
    Method("post", Whole, Projects \o <<Lit("books")>>),
    Method("post", "item", Projects \o <<Lit("global"), Lit("books"), Var(Id)>>),
    Method("patch", "item", <<v1, Lit("shelves"), Var(Id)>>),
    Method("put", "mask", <<v1, Lit("users"), Var(Name), Lit("books"), Var(Id)>>),
    Method("post", "node", <<v1, Var(Name), Lit("books"), Var(Id), WithVerb("books")>>),
    Method("delete", NoField, <<Lit(""), Lit("shelves"), Var(Id)>>),
    [Get(<<v1, Var(Name), Lit("users"), Var(Id)>>) EXCEPT
       !.patterns = Append(@, <<v1, Lit("users"), Var(Id), Lit("shelves"), Var(Name)>>),
       !.standard = TRUE],
    [Get(Projects) EXCEPT !.references = <<Must, Name>>],
    [Get(Projects) EXCEPT !.references = <<Must>>],
    Get(Projects \o <<Lit("users"), Var(Id), Lit("books"), Var(Must)>>),
    Get(Projects \o <<WithVerb("shelves"), Var(Id)>>),
    Get(Projects \o <<[v1 EXCEPT !.name = "v2keys"], Lit("books"), Var(Id)>>),
    Get(Projects \o <<Lit("shelves"), Var(Id), Lit("books"), Var(Must)>>),
    Get(<<v1, Lit("shelves"), Var(Name), Var(Id)>>),
    Routed(<<>>),
    Routed(<<Param(Name, "h", All), Param(Name, "h", First1)>>),
    Routed(<<Param(Name, "h", First1), Param(Id, "g", All), Param(Name, "h", Part)>>),
    Routed(<<Param(Id, "h", All), Param(Name, "h", Part)>>) }
==================================================================================
