-------------------------- MODULE NamingConvention --------------------------
(***************************************************************************)
(* The rule naming-convention: of the configurations that apply to a       *)
(* declared name the most specific one judges its form.                    *)
(***************************************************************************)
EXTENDS RuleVisit, SequencesExt, FiniteSetsExt

NamingId == "naming-convention"

-----------------------------------------------------------------------------
(* Names are sequences of letter classes: "a" lower, "A" upper, "1" digit, *)
(* "_", "$", and "#" before a private name.                                *)
Occurs(l, name) == \E i \in DOMAIN name : name[i] = l
Capitals(name) == \E i \in 2..Len(name) : name[i] = "A" /\ name[i - 1] = "A"
OfLetters(name, letters) == \A i \in DOMAIN name : name[i] \in letters

IsCamelCase(name, strict) ==
    name[1] \in {"a", "$", "1"} /\ ~Occurs("_", name) /\ ~(strict /\ Capitals(name))
IsPascalCase(name, strict) ==
    name[1] = "A" /\ ~Occurs("_", name) /\ ~(strict /\ Capitals(name))
IsSnakeCase(name) == OfLetters(name, {"a", "1", "_", "$"})
IsUpperCase(name) == OfLetters(name, {"A", "1", "_", "$"}) /\ Occurs("A", name)
FormatMatches(format, name) ==
    CASE format = "camelCase" -> IsCamelCase(name, FALSE)
      [] format = "strictCamelCase" -> IsCamelCase(name, TRUE)
      [] format = "PascalCase" -> IsPascalCase(name, FALSE)
      [] format = "strictPascalCase" -> IsPascalCase(name, TRUE)
      [] format = "snake_case" -> IsSnakeCase(name)
      [] format = "UPPER_CASE" -> IsUpperCase(name)

(* How many underscores an option lets stand at one end.                   *)
Allowed(option) ==
    CASE option = "forbid" -> {0}
      [] option = "allow" -> 0..9
      [] option = "allowSingleOrDouble" -> 0..2
      [] option = "require" -> {1}
      [] option \in {"allowDouble", "requireDouble"} -> {2}
Leading(name) == CHOOSE k \in 0..Len(name) : (\A i \in 1..k : name[i] = "_") /\ (k < Len(name) => name[k + 1] # "_")
StripLeadingUnderscore(name) == SubSeq(name, Leading(name) + 1, Len(name))
StripTrailingUnderscore(name) == Reverse(StripLeadingUnderscore(Reverse(name)))
UnderscoresAllowed(name, cfg) ==
    /\ Leading(name) \in Allowed(cfg.leading)
    /\ Leading(Reverse(StripLeadingUnderscore(name))) \in Allowed(cfg.trailing)

(* The first of the listed prefixes a name has is taken off.               *)
FirstOf(s, Holds(_)) == s[CHOOSE i \in DOMAIN s : Holds(s[i]) /\ \A j \in 1..(i - 1) : ~Holds(s[j])]
StripPrefix(name, list) ==
    IF list = <<>> THEN name ELSE SubSeq(name, Len(FirstOf(list, LAMBDA p : IsPrefix(p, name))) + 1, Len(name))
StripSuffix(name, list) ==
    IF list = <<>> THEN name ELSE SubSeq(name, 1, Len(name) - Len(FirstOf(list, LAMBDA p : IsSuffix(p, name))))
HasOneOf(list, Has(_)) == list = <<>> \/ \E i \in DOMAIN list : Has(list[i])
Trimmed(name) == StripTrailingUnderscore(StripLeadingUnderscore(name))

AffixesApply(name, cfg) ==
    /\ UnderscoresAllowed(name, cfg)
    /\ HasOneOf(cfg.prefix, LAMBDA p : IsPrefix(p, Trimmed(name)))
    /\ HasOneOf(cfg.suffix, LAMBDA p : IsSuffix(p, Trimmed(name)))

(* A filter or a custom pattern asks for the first letter's class.         *)
Unfiltered == [first |-> "", match |-> TRUE]
RegexAllows(r, name) == r = Unfiltered \/ (name # <<>> /\ name[1] = r.first) = r.match

ValidateName(written, cfg) ==
    LET name == IF written[1] = "#" THEN Tail(written) ELSE written
        trimmed == Trimmed(name)
        bare == StripPrefix(trimmed, cfg.prefix)
        core == StripSuffix(bare, cfg.suffix)
    IN  /\ UnderscoresAllowed(name, cfg)
        /\ HasOneOf(cfg.prefix, LAMBDA p : IsPrefix(p, trimmed))
        /\ HasOneOf(cfg.suffix, LAMBDA p : IsSuffix(p, bare))
        /\ RegexAllows(cfg.custom, core)
        /\ \/ cfg.format = {}
           \/ core = <<>>
           \/ \E f \in cfg.format : FormatMatches(f, core)

-----------------------------------------------------------------------------
(* What is known of a declaration.  "around" are its ancestors, innermost  *)
(* first; "occurrences" where else an identifier of its symbol stands.     *)
PatternBindings == {"shorthand", "renamed", "array"}
ExportedFrames == {"exported function", "exported arrow", "exported class", "exported namespace"}
DeclareFrames == {"declare namespace"}
NamespaceFrames == {"namespace", "exported namespace"} \cup DeclareFrames
TypeLikes == {"class", "interface", "type alias", "type parameter", "enum"}
ClassMembers == {"method", "property", "accessor"}

(* The children of a declaration that are identifiers; the first is taken  *)
(* for the name it declares.  TRUE marks the symbol looked for.            *)
Identifiers(occurrence) ==
    CASE occurrence \in {"shorthand value", "string key's value", "default beside pattern", "string member's value"} -> <<TRUE>>
      [] occurrence \in {"value of key", "default of binding"} -> <<FALSE, TRUE>>
      [] OTHER -> <<>>
(* "as": the file exports a top-level name of this spelling; "elsewhere":  *)
(* it passes one on from another module.                                   *)
IsListed(n) == n.listed = "as" /\ n.around = <<>>
IsDeclarationName(occurrence) ==
    LET ids == Identifiers(occurrence) IN ids # <<>> /\ ids[1]
(* The name a function expression has and one a pattern renames to are     *)
(* identifiers like others.                                                *)
UsageMapFor(n) == {o \in n.occurrences : ~IsDeclarationName(o)}
    \cup (IF n.decl = "function expression" \/ n.binding = "renamed" THEN {"its own name"} ELSE {})
    \cup (IF IsListed(n) THEN {"export specifier"} ELSE {})

IsExportedSymbol(n) ==
    n.written \cap {"export", "default"} # {} \/ Range(n.around) \cap ExportedFrames # {}
(* By name, over the whole file, export { x } from "m" included.           *)
IsExportedViaBlock(n) == n.listed # "no"
IsUnused(n) == ~IsExportedSymbol(n) /\ UsageMapFor(n) = {}

(* Only a block ends the way up.                                           *)
BelowBlock(n) == {i \in DOMAIN n.around : \A j \in 1..(i - 1) : n.around[j] # "block"}
HasExportedAncestor(n) == "export" \in n.written \/ \E i \in BelowBlock(n) : n.around[i] \in ExportedFrames
IsGlobalScope(n) ==
    \A i \in DOMAIN n.around : n.around[i] = "block" => \E j \in 1..(i - 1) : n.around[j] \in NamespaceFrames
HasDeclareAncestor(n) == "declare" \in n.written \/ Range(n.around) \cap DeclareFrames # {}
If(modifier, holds) == IF holds THEN {modifier} ELSE {}

VariableModifiers(n) ==
    If("const", "const" \in n.written)
    \cup If("exported", HasExportedAncestor(n) \/ IsExportedViaBlock(n))
    \cup If("ambient", HasDeclareAncestor(n))
    \cup If("global", IsGlobalScope(n))
    \cup If("destructured", n.binding \in PatternBindings \ {"renamed"})
    \cup If("unused", IsUnused(n))
    \cup If("async", "async" \in n.written)
ParameterPropertyModifiers(n) == n.written \cap {"readonly", "private", "protected", "public", "override"}
ParameterModifiers(n) ==
    ParameterPropertyModifiers(n)
    \cup If("destructured", n.binding \in PatternBindings \ {"renamed"})
    \cup If("unused", IsUnused(n))
FunctionModifiers(n) ==
    (n.written \cap {"async", "default"})
    \cup If("exported", HasExportedAncestor(n) \/ IsExportedViaBlock(n))
    \cup If("ambient", "declare" \in n.written)
    \cup If("global", IsGlobalScope(n))
    \cup If("unused", IsUnused(n))
TypeLikeModifiers(n) ==
    (n.written \cap {"default", "abstract"})
    \cup If("exported", "export" \in n.written \/ IsExportedViaBlock(n))
    \cup If("ambient", "declare" \in n.written)
    \cup If("unused", IsUnused(n))
NameRequiresQuotes(n) == n.key = "string with space"
ClassMemberModifiers(n) ==
    (n.written \cap {"static", "readonly", "private", "protected", "public", "abstract", "async", "override"})
    \cup If("#private", n.name[1] = "#")
    \cup If("requiresQuotes", NameRequiresQuotes(n))

Modifiers(n) ==
    CASE n.decl = "variable" -> VariableModifiers(n)
      [] n.decl = "parameter" -> ParameterModifiers(n)
      [] n.decl \in {"function", "function expression"} -> FunctionModifiers(n)
      [] n.decl \in TypeLikes -> TypeLikeModifiers(n)
      [] n.decl = "import" -> If("default", n.binding \in {"default", "default as"}) \cup If("namespace", n.binding = "namespace")
      [] n.decl \in ClassMembers /\ n.owner = "class" -> ClassMemberModifiers(n)
      [] n.decl = "method" /\ n.owner = "object" -> ClassMemberModifiers(n)
      [] OTHER -> If("requiresQuotes", NameRequiresQuotes(n))

(* The kinds of value every constituent but null and undefined is of.      *)
TypeCategories(type) ==
    LET members == type \ {"nullish"}
    IN  {c \in {"string", "number", "boolean"} : members \subseteq {c}}
        \cup {c \in {"array", "function"} : members = {c}}
Types(n) ==
    IF n.decl \in {"variable", "parameter"} \/ (n.decl = "property" /\ n.owner = "class") THEN TypeCategories(n.type) ELSE {}

(* The selectors that stand for a declaration, the narrowest first.        *)
MemberSelectors(narrow, kind) == <<narrow, kind, "memberLike", "default">>
MethodOf(owner) == [class |-> "classMethod", object |-> "objectLiteralMethod", type |-> "typeMethod"][owner]
PropertyOf(owner) == [class |-> "classProperty", object |-> "objectLiteralProperty", type |-> "typeProperty"][owner]
IsParameterProperty(n) == n.owner = "constructor" /\ ParameterPropertyModifiers(n) # {}
Selectors(n) ==
    CASE n.decl = "parameter" /\ IsParameterProperty(n) -> MemberSelectors("parameterProperty", "property")
      [] n.decl \in {"variable", "parameter"} -> <<n.decl, "variableLike", "default">>
      [] n.decl \in {"function", "function expression"} -> <<"function", "variableLike", "default">>
      [] n.decl \in TypeLikes -> <<n.decl, "typeLike", "default">>
      [] n.decl = "import" -> <<"import", "default">>
      [] n.decl = "accessor" -> <<"accessor", "memberLike", "default">>
      [] n.decl = "enum member" -> <<"enumMember", "memberLike", "default">>
      [] n.decl = "method" \/ (n.owner = "type" /\ n.type = {"function"}) ->
            MemberSelectors(MethodOf(n.owner), "method")
      [] n.decl = "property" -> MemberSelectors(PropertyOf(n.owner), "property")

-----------------------------------------------------------------------------
TypesMatch(required, actual) == actual = {} \/ required \subseteq actual
Specificity(cfg) ==
    Cardinality(cfg.modifiers) + Cardinality(cfg.types) + Len(cfg.prefix) + Len(cfg.suffix)
    + (IF cfg.filter # Unfiltered THEN 1 ELSE 0) + (IF cfg.custom # Unfiltered THEN 1 ELSE 0)
Selected(n, selector, modifiers, types) ==
    {i \in DOMAIN n.configs :
        LET cfg == n.configs[i]
        IN  /\ cfg.selector = selector
            /\ cfg.modifiers \subseteq modifiers
            /\ TypesMatch(cfg.types, types)
            /\ RegexAllows(cfg.filter, n.name)
            /\ AffixesApply(n.name, cfg)}
(* Mutant: the last of the most specific ones.                             *)
BestLast(n, found) ==
    CHOOSE i \in found : \A j \in found :
        LET si == Specificity(n.configs[i])
            sj == Specificity(n.configs[j])
        IN  sj < si \/ (sj = si /\ j <= i)
(* The first of the most specific ones.                                    *)
Best(n, found) ==
    CHOOSE i \in found : \A j \in found :
        LET si == Specificity(n.configs[i])
            sj == Specificity(n.configs[j])
        IN  sj < si \/ (sj = si /\ i <= j)

Check(n) ==
    LET levels == Selectors(n)
        found == [i \in DOMAIN levels |-> Selected(n, levels[i], Modifiers(n), Types(n))]
        judged == {i \in DOMAIN levels : found[i] # {}}
    IN  judged # {} /\ ~ValidateName(n.name, n.configs[Best(n, found[Min(judged)])])

(* A name that is computed is passed over for the value beside it; an      *)
(* import keeps its exporter's name unless it is renamed.                  *)
VisitNamed(n) ==
    IF n.decl = "import" /\ n.binding = "plain" THEN {}
    ELSE IF n.key = "computed" /\ (n.decl \notin {"property", "enum member"} \/ n.owner = "type") THEN {}
    ELSE IF Check(n) THEN {"name"} ELSE {}

-----------------------------------------------------------------------------
(* The names a format stands for: words joined.                            *)
Longest == 4
Texts(letters, from) == UNION {[1..k -> letters] : k \in from..Longest}
Small == {"a", "1", "$"}
RECURSIVE JoinedTo(_, _, _)
JoinedTo(names, separator, words) ==
    LET more == {s \o separator \o w : s \in names, w \in words}
        longer == {t \in more : Len(t) <= Longest} \ names
    IN  IF longer = {} THEN names ELSE JoinedTo(names \cup longer, separator, words)
Capitalised(from) == {<<"A">> \o w : w \in Texts(Small, from)}
CamelNames == JoinedTo({w \in Texts(Small, 1) : Len(w) <= Longest}, <<>>, Capitalised(0))
PascalNames == JoinedTo(Capitalised(0), <<>>, Capitalised(0))
Ended(names) == names \cup {s \o <<"A">> : s \in names}
StrictCamelNames == Ended(JoinedTo(Texts(Small, 1), <<>>, Capitalised(1)))
StrictPascalNames == Ended(JoinedTo(Capitalised(1), <<>>, Capitalised(1))) \cup {<<"A">>}
SnakeNames == JoinedTo(Texts(Small, 1), <<"_">>, Texts(Small, 1))
ConstantNames == {s \in JoinedTo(Texts({"A", "1", "$"}, 1), <<"_">>, Texts({"A", "1", "$"}, 1)) : Occurs("A", s)}
NamesIn(format) ==
    CASE format = "camelCase" -> CamelNames
      [] format = "strictCamelCase" -> StrictCamelNames
      [] format = "PascalCase" -> PascalNames
      [] format = "strictPascalCase" -> StrictPascalNames
      [] format = "snake_case" -> SnakeNames
      [] format = "UPPER_CASE" -> ConstantNames

(* A name is underscores, a prefix, the name proper, a suffix, underscores. *)
Underscores(k) == [i \in 1..k |-> "_"]
Parts(list) == IF list = <<>> THEN {<<>>} ELSE Range(list)
Proper(name) == IF name[1] = "#" THEN Tail(name) ELSE name
Cores(n, cfg) ==
    LET name == Proper(n.name)
        inner == {SubSeq(name, k + 1, Len(name) - m) : <<k, m>> \in
                    {<<k, m>> \in (0..Len(name)) \X (0..Len(name)) :
                        /\ k + m <= Len(name)
                        /\ k \in Allowed(cfg.leading) /\ IsPrefix(Underscores(k), name)
                        /\ m \in Allowed(cfg.trailing) /\ IsSuffix(Underscores(m), name)}}
        plain == {t \in inner : t = <<>> \/ "_" \notin {t[1], Last(t)}}
    IN  {SubSeq(t[1], Len(t[2]) + 1, Len(t[1]) - Len(t[3])) : t \in
            {t \in plain \X Parts(cfg.prefix) \X Parts(cfg.suffix) :
                /\ IsPrefix(t[2], t[1]) /\ IsSuffix(t[3], t[1])
                /\ Len(t[2]) + Len(t[3]) <= Len(t[1])}}
Conforms(n, cfg) ==
    \E core \in Cores(n, cfg) :
        /\ RegexAllows(cfg.custom, core)
        /\ cfg.format = {} \/ core = <<>> \/ \E f \in cfg.format : core \in NamesIn(f)

-----------------------------------------------------------------------------
(* What is true of the declaration.                                        *)
IsExported(n) == "export" \in n.written \/ IsListed(n)
TrueModifiers(n) ==
    LET has(m) ==
            CASE m = "exported" -> IsExported(n)
              [] m = "unused" -> n.occurrences = {} /\ ~IsExported(n)
              [] m = "ambient" -> "declare" \in n.written \/ Range(n.around) \cap DeclareFrames # {}
              [] m = "global" -> Range(n.around) \subseteq NamespaceFrames
              [] m = "destructured" -> n.binding \in {"shorthand", "array"}
              [] m = "requiresQuotes" -> n.key = "string with space"
              [] m = "#private" -> n.name[1] = "#"
              [] m = "default" -> "default" \in n.written \/ n.binding \in {"default", "default as"}
              [] m = "namespace" -> n.binding = "namespace"
              [] m = "public" -> n.written \cap {"private", "protected"} = {} /\ n.name[1] # "#"
              [] OTHER -> m \in n.written
    IN  {m \in {"exported", "unused", "ambient", "global", "destructured", "requiresQuotes", "#private", "default",
                "namespace", "public", "const", "async", "static", "readonly", "private", "protected", "abstract", "override"} : has(m)}
(* Every value but null and undefined is of one of the listed kinds.       *)
HasTypeIn(n, types) == types = {} \/ (n.type \ {"nullish"} # {} /\ \E c \in types : n.type \subseteq {c, "nullish"})

(* A configuration is about a declaration when its selector, modifiers,    *)
(* types and filter are, and the name is put together as it says.          *)
Level(n, cfg) == {i \in DOMAIN Selectors(n) : Selectors(n)[i] = cfg.selector}
IsAbout(n, cfg) ==
    /\ Level(n, cfg) # {}
    /\ cfg.modifiers \subseteq TrueModifiers(n)
    /\ HasTypeIn(n, cfg.types)
    /\ RegexAllows(cfg.filter, n.name)
    /\ Cores(n, cfg) # {}
(* The more specific selector is better, on one level the one whose filter *)
(* lets the name pass (rule.go:611-615), then the one that asks for more.  *)
IsFiltered(cfg) == cfg.filter # Unfiltered
Constraints(cfg) ==
    Cardinality(cfg.modifiers) + Cardinality(cfg.types) + Len(cfg.prefix \o cfg.suffix) + Cardinality({cfg.custom} \ {Unfiltered})
Better(n, i, j) ==
    LET c == n.configs[i]
        d == n.configs[j]
    IN  \/ Level(n, c) # Level(n, d) /\ Min(Level(n, c)) < Min(Level(n, d))
        \/ Level(n, c) = Level(n, d) /\ IsFiltered(c) /\ ~IsFiltered(d)
        \/ /\ Level(n, c) = Level(n, d) /\ (IsFiltered(c) <=> IsFiltered(d))
           /\ Constraints(c) > Constraints(d) \/ (Constraints(c) = Constraints(d) /\ i < j)
HasAName(n) == n.key # "computed" /\ ~(n.decl = "import" /\ n.binding = "plain")
Misnamed(n) ==
    HasAName(n) /\ \E i \in DOMAIN n.configs :
        /\ IsAbout(n, n.configs[i])
        /\ \A j \in DOMAIN n.configs \ {i} : IsAbout(n, n.configs[j]) => Better(n, i, j)
        /\ ~Conforms(n, n.configs[i])

-----------------------------------------------------------------------------
Asks(n, modifier) == \E i \in DOMAIN n.configs : modifier \in n.configs[i].modifiers
TypesAsked(n) == UNION {n.configs[i].types : i \in DOMAIN n.configs}

(* Known: references the walk takes for the names of declarations.         *)
UsesAreOverlooked(n) == Asks(n, "unused") /\ \E o \in n.occurrences : IsDeclarationName(o)
(* Known: a name a pattern renames to, or a function expression's own, is  *)
(* its own use.                                                            *)
NameUsesItself(n) == Asks(n, "unused") /\ (n.decl = "function expression" \/ n.binding = "renamed")
(* Known: what stands anywhere in an exported declaration is in use, and   *)
(* exported as far as no block is between.                                 *)
InsideExported(n) == (Asks(n, "unused") \/ Asks(n, "exported")) /\ Range(n.around) \cap ExportedFrames # {}
(* Known: another name of the spelling that is listed.                     *)
ExportedByName(n) == Asks(n, "exported") /\ n.listed # "no" /\ ~IsListed(n)
(* Known: declare around anything but a variable is not seen.              *)
AmbientAround(n) == Asks(n, "ambient") /\ n.decl # "variable" /\ Range(n.around) \cap DeclareFrames # {}
(* Known: a switch's cases, a class body and an arrow without a block      *)
(* count for the scope around them.                                        *)
ScopeWithoutBlock(n) == Asks(n, "global") /\ "block" \notin Range(n.around) /\ ~(Range(n.around) \subseteq NamespaceFrames)
(* Known: public where nothing is written.                                 *)
PublicUnwritten(n) == Asks(n, "public") /\ n.written \cap {"public", "private", "protected"} = {}
(* Known: the types of declarations that have several or none of them.     *)
SeveralTypes(n) == Cardinality(TypesAsked(n)) > 1
UncategorisedType(n) == TypesAsked(n) # {} /\ Types(n) = {}
OnlyNullish(n) == TypesAsked(n) # {} /\ n.type \subseteq {"nullish"}
(* Known: # hides the affixes of a private name from the selection.        *)
HashHidesAffixes(n) == n.name[1] = "#"
(* Known: the first prefix that fits is taken, with the letters of the     *)
(* suffix if need be.                                                      *)
AffixesOverlap(n) ==
    \E i \in DOMAIN n.configs :
        LET cfg == n.configs[i]
            fits(p, q) == IsPrefix(p, Trimmed(n.name)) /\ IsSuffix(q, Trimmed(n.name))
        IN  \/ Cardinality({j \in DOMAIN cfg.prefix : IsPrefix(cfg.prefix[j], Trimmed(n.name))}) > 1
            \/ Cardinality({j \in DOMAIN cfg.suffix : IsSuffix(cfg.suffix[j], Trimmed(n.name))}) > 1
            \/ \E p \in Range(cfg.prefix), q \in Range(cfg.suffix) : fits(p, q) /\ Len(p) + Len(q) > Len(Trimmed(n.name))
(* Known: underscores in a row, or beside a prefix or a suffix.            *)
UnderscoresInside(n) ==
    \E i \in DOMAIN n.configs : \E core \in Cores(n, n.configs[i]) :
        /\ core # <<>>
        /\ n.configs[i].format \cap {"snake_case", "UPPER_CASE"} # {}
        /\ "_" \in {core[1], Last(core)} \/ \E k \in 2..Len(core) : core[k] = "_" /\ core[k - 1] = "_"
(* Known: a filter counts for no more than a modifier.                     *)
FilterIsOutweighed(n) ==
    \E i, j \in DOMAIN n.configs :
        /\ IsAbout(n, n.configs[i]) /\ IsFiltered(n.configs[i])
        /\ IsAbout(n, n.configs[j]) /\ ~IsFiltered(n.configs[j])
        /\ Level(n, n.configs[i]) = Level(n, n.configs[j])
        /\ Specificity(n.configs[j]) > Specificity(n.configs[i]) \/ (Specificity(n.configs[j]) = Specificity(n.configs[i]) /\ j < i)
(* Known: a computed name's value is taken for a name.                     *)
ComputedTakesValue(n) == n.key = "computed"

(* A declaration is reported when its name is not of the form that the     *)
(* most specific configuration about it asks for, and only then; what the  *)
(* rule cannot tell of a declaration is named above.                       *)
NamesAreAsConfigured ==
    Visited(NamingId) =>
        \/ (reports # {}) = Misnamed(node)
        \/ UsesAreOverlooked(node) \/ NameUsesItself(node) \/ InsideExported(node) \/ ExportedByName(node)
        \/ AmbientAround(node) \/ ScopeWithoutBlock(node) \/ PublicUnwritten(node)
        \/ SeveralTypes(node) \/ UncategorisedType(node) \/ OnlyNullish(node) \/ HashHidesAffixes(node)
        \/ AffixesOverlap(node) \/ UnderscoresInside(node) \/ ComputedTakesValue(node)
        \/ FilterIsOutweighed(node)
=============================================================================
