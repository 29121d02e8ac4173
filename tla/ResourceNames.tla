------------------------------ MODULE ResourceNames ------------------------------
(***************************************************************************)
(* The resource a method works on, guessed from its URL pattern when no    *)
(* field is annotated with a reference: buildHeuristicVocabulary and       *)
(* identifyHeuristicTarget of gengapic/heuristics.go.                      *)
(*                                                                         *)
(* A pattern is a sequence of segments, as splitPathSegments makes it: a   *)
(* version ("v" and a digit ahead), another literal, perhaps with a custom *)
(* verb after a colon, or a variable, which names a field.  The literal    *)
(* before a leading slash is empty.                                        *)
(*                                                                         *)
(* Operators named Bad... are not the code: each is the definition after   *)
(* it with a plausible defect, kept to show that a property notices it.    *)
(***************************************************************************)
EXTENDS Naturals, Sequences, FiniteSetsExt

IsVariable(segment) == segment.kind = "variable"
IsVersion(segment) == segment.kind = "version"

(* What every API may use without defining it. *)
Seeds == {"projects", "locations", "folders", "organizations", "billingAccounts"}

(* The literals that stand before a variable, without their verbs. *)
Nouns(pattern) ==
  { pattern[i].name : i \in { j \in 1..(Len(pattern) - 1) :
      /\ pattern[j].kind = "literal" /\ pattern[j].name # ""
      /\ IsVariable(pattern[j + 1]) } }

(* Only methods with standard names teach nouns, by all their bindings. *)
buildHeuristicVocabulary(methods) ==
  Seeds \cup UNION { UNION { Nouns(m.patterns[i]) : i \in DOMAIN m.patterns }
                     : m \in { n \in methods : n.standard } }

Known(segment, vocabulary) ==
  segment.kind = "literal" /\ ~segment.verb /\ segment.name \in vocabulary

(* Where the name whose last noun is segment f begins: backwards over literals
   up to a version, and over variables that follow a known noun or a version. *)
FirstIndex(pattern, vocabulary) ==
  LET first[f \in 1..Len(pattern)] ==
        IF f = 1 THEN 1
        ELSE LET before == pattern[f - 1]
             IN  IF ~IsVariable(before)
                 THEN IF IsVersion(before) THEN f ELSE first[f - 1]
                 ELSE IF f < 3 THEN f
                 ELSE IF Known(pattern[f - 2], vocabulary) THEN first[f - 2]
                 ELSE IF IsVersion(pattern[f - 2]) THEN f - 1
                 ELSE f
  IN  first

(* A name with a variable to its left would be a part of another name. *)
BadConnected(pattern, first) == TRUE   (* parts are taken for names *)
Connected(pattern, first) == \A k \in 1..(first - 1) : ~IsVariable(pattern[k])

NoTarget == [format |-> <<>>, fields |-> <<>>]

(* The fields of the variables of a pattern, in order. *)
VariableFields(pattern) ==
  LET upTo[i \in 0..Len(pattern)] ==
        IF i = 0 THEN <<>>
        ELSE IF IsVariable(pattern[i]) THEN Append(upTo[i - 1], pattern[i].field)
        ELSE upTo[i - 1]
  IN  upTo[Len(pattern)]

(* The name made of segments: versions are left out, and "%v" stands for a
   variable, whose value the emitted method reads from the request. *)
Target(segments) ==
  LET upTo[i \in 0..Len(segments)] ==
        IF i = 0 THEN <<>>
        ELSE IF IsVersion(segments[i]) THEN upTo[i - 1]
        ELSE Append(upTo[i - 1], IF IsVariable(segments[i]) THEN "%v" ELSE segments[i].name)
  IN  [format |-> upTo[Len(segments)], fields |-> VariableFields(segments)]

(* The last variable after a known noun or a version that completes a name. *)
identifyHeuristicTarget(pattern, vocabulary) ==
  LET firstOf(i) == IF IsVersion(pattern[i - 1]) THEN i
                    ELSE FirstIndex(pattern, vocabulary)[i - 1]
      ends == { i \in 2..Len(pattern) :
                  /\ IsVariable(pattern[i])
                  /\ Known(pattern[i - 1], vocabulary) \/ IsVersion(pattern[i - 1])
                  /\ Connected(pattern, firstOf(i)) }
  IN  IF ends = {} THEN NoTarget
      ELSE Target(SubSeq(pattern, firstOf(Max(ends)), Max(ends)))
==================================================================================
