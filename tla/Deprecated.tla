----------------------------- MODULE Deprecated -----------------------------
(***************************************************************************)
(* The rule no-deprecated: a name is reported where it uses a declaration  *)
(* tagged @deprecated, or the overload so tagged that a call selects.      *)
(***************************************************************************)
EXTENDS RuleVisit, FiniteSets

DeprecatedId == "no-deprecated"

-----------------------------------------------------------------------------
(* The declarations of a symbol, those behind its aliases included.        *)
Overloads == {"function", "method", "constructor"}
DeprecatedIn(decls) == {i \in DOMAIN decls : decls[i].deprecated}
SymbolIsDeprecated(decls) == DeprecatedIn(decls) # {}
FirstDeprecatedDeclaration(decls) ==
    decls[CHOOSE i \in DeprecatedIn(decls) : \A j \in DeprecatedIn(decls) : i <= j]
SymbolHasBindingLevelDeprecation(decls) ==
    SymbolIsDeprecated(decls) /\ FirstDeprecatedDeclaration(decls).kind \notin Overloads
SymbolDeprecationAppliesToUnselectedUse(decls) ==
    LET overloads == {i \in DOMAIN decls : decls[i].kind \in Overloads}
    IN  SymbolHasBindingLevelDeprecation(decls) \/ (overloads # {} /\ overloads \subseteq DeprecatedIn(decls))

(* "selected": the declaration the call resolves to, 0 if none.            *)
SignatureIsDeprecated(n) == n.selected \in DeprecatedIn(n.decls)

-----------------------------------------------------------------------------
(* Where an identifier stands: "path" what it is to its parent, that to    *)
(* its own, and so on; "first" whether it is the parent's first identifier *)
NamedDeclarations == {"variable", "parameter", "enum member", "property", "function", "class", "object property"}
IsDeclarationSite(n) ==
    \/ n.path[1] \in NamedDeclarations /\ n.first
    \/ n.path[1] = "export" /\ n.slot \in {"exported as", "exported as string"}
    \/ n.path[1] = "binding" /\ n.slot # "default"
IsInsideImport(n) == n.path[1] \in {"import", "import equals"}

(* Up through the accesses it is the name of, to a call it is the callee   *)
(* of.                                                                     *)
GetCallLikeNode(n) ==
    \E i \in DOMAIN n.path : n.path[i] \in {"callee", "tag", "jsx"} /\ \A j \in 1..(i - 1) : n.path[j] = "member"

(* The package only of a symbol an import declares, and of none where the  *)
(* rule has asked for a property.                                          *)
IsAllowed(n, hasSymbol) == n.allow = "name" \/ (n.allow = "package" /\ hasSymbol /\ n.from = "import")
ReportSym(n) == IF IsAllowed(n, TRUE) THEN {} ELSE {"use"}
Report(n) == IF IsAllowed(n, FALSE) THEN {} ELSE {"use"}

ReportIfDeprecated(n) ==
    IF GetCallLikeNode(n) /\ n.selected # 0
    THEN IF SignatureIsDeprecated(n) \/ SymbolHasBindingLevelDeprecation(n.decls) THEN ReportSym(n) ELSE {}
    ELSE IF SymbolIsDeprecated(n.decls) THEN ReportSym(n) ELSE {}

(* Mutant: a tag on the export itself counts as its target's.              *)
ReportIfDeprecatedOrOwnSpecifier(n) ==
    IF SymbolIsDeprecated(n.decls) /\ SymbolDeprecationAppliesToUnselectedUse(n.decls) THEN ReportSym(n) ELSE {}
ReportIfDeprecatedExceptOwnSpecifier(n) ==
    IF /\ SymbolIsDeprecated(n.decls)
       /\ FirstDeprecatedDeclaration(n.decls).kind # "this specifier"
       /\ SymbolDeprecationAppliesToUnselectedUse(n.decls)
    THEN ReportSym(n) ELSE {}

(* The attribute among the properties the element takes, or else among     *)
(* those of its tag.                                                       *)
CheckJsxAttributeUse(n) ==
    IF SymbolIsDeprecated(n.decls) \/ (n.slot = "static" /\ n.first) THEN Report(n) ELSE {}

(* From the pattern out to the value of a variable; a parameter has none.  *)
DestructuringSourceType(n) ==
    \E i \in DOMAIN n.path : n.path[i] = "initialized" /\ \A j \in 2..(i - 1) : n.path[j] \in {"key", "index"}
CheckDestructuringPropertyUse(n) ==
    IF DestructuringSourceType(n) /\ n.slot \in {"name", "key", "rest"} /\ SymbolIsDeprecated(n.decls) THEN Report(n) ELSE {}

VisitIdentifier(n) ==
    IF IsInsideImport(n) THEN {}
    ELSE IF n.path[1] = "binding" /\ n.slot # "default" THEN CheckDestructuringPropertyUse(n)
    ELSE IF n.path[1] = "attribute" THEN CheckJsxAttributeUse(n)
    ELSE IF IsDeclarationSite(n) \/ n.path[1] = "closing tag" THEN {}
    ELSE IF n.path[1] = "export" THEN ReportIfDeprecatedExceptOwnSpecifier(n)
    ELSE ReportIfDeprecated(n)

(* The property an index names, if its type is one literal.                *)
VisitElementAccess(n) == IF n.slot = "literal" /\ SymbolIsDeprecated(n.decls) THEN Report(n) ELSE {}
VisitSuperKeyword(n) == IF n.path[1] = "callee" /\ SignatureIsDeprecated(n) THEN Report(n) ELSE {}

VisitDeprecated(n) ==
    CASE n.kind = "identifier" -> VisitIdentifier(n)
      [] n.kind = "element access" -> VisitElementAccess(n)
      [] n.kind = "super" -> VisitSuperKeyword(n)

-----------------------------------------------------------------------------
(* Whether the name is a use, and of which declarations.                   *)
DeclaresName(n) ==
    \/ n.path[1] \in NamedDeclarations /\ n.slot = "name"
    \/ n.path[1] = "import"
    \/ n.slot \in {"exported as", "rest", "renamed"}
    \/ n.path[1] = "closing tag"
    \/ n.kind = "element access" /\ n.slot = "open"
    \/ n.kind = "super" /\ n.path[1] # "callee"
AroundCallee == {"member", "paren"}
SelectsOverload(n) ==
    n.selected # 0 /\ \E i \in DOMAIN n.path : n.path[i] \in {"callee", "tag", "jsx"} /\ \A j \in 1..(i - 1) : n.path[j] \in AroundCallee
(* What a declaration of a value says holds of all its uses; what one of   *)
(* several overloads says, of the calls that select it.                    *)
UsesDeprecated(n) ==
    LET bindings == {i \in DOMAIN n.decls : n.decls[i].kind \notin Overloads \cup {"this specifier"}}
        overloads == {i \in DOMAIN n.decls : n.decls[i].kind \in Overloads}
    IN  \/ bindings \cap DeprecatedIn(n.decls) # {}
        \/ IF SelectsOverload(n) THEN n.selected \in DeprecatedIn(n.decls)
           ELSE overloads # {} /\ overloads \subseteq DeprecatedIn(n.decls)
Suppressed(n) == n.allow = "name" \/ (n.allow = "package" /\ n.from \in {"import", "member of import"})

(* Known: without a call one deprecated overload is enough, and a call of  *)
(* a name in parentheses or of an element access is not seen.              *)
OneOverload(n) ==
    /\ \E i \in DOMAIN n.decls : n.decls[i].kind \in Overloads /\ ~n.decls[i].deprecated
    /\ SymbolIsDeprecated(n.decls)
    /\ ~(n.kind = "identifier" /\ GetCallLikeNode(n)) /\ n.path[1] # "export"
(* Known: the first deprecated declaration hides one of another kind.      *)
FirstHidesOthers(n) ==
    SymbolIsDeprecated(n.decls) /\ FirstDeprecatedDeclaration(n.decls).kind \in Overloads \cup {"this specifier"} /\
    \E i \in DeprecatedIn(n.decls) : n.decls[i].kind # FirstDeprecatedDeclaration(n.decls).kind
(* Known: a value that stands first among its parent's identifiers is      *)
(* taken for the name: const [a] = x, { "k": x }, "k" = x.                 *)
ValueTakenForName(n) == n.path[1] \in NamedDeclarations /\ n.first /\ n.slot = "value"
(* Known: import a = x.y, export { x as "y" }.                             *)
AliasesUnread(n) == n.path[1] = "import equals" \/ n.slot = "exported as string"
(* Known: patterns of parameters, of variables without a value and in      *)
(* assignments, below a computed key, and string keys.                     *)
PatternsUnread(n) ==
    \/ n.path[1] = "binding" /\ n.slot \in {"name", "key"} /\ ~DestructuringSourceType(n)
    \/ n.slot \in {"name of string key", "assigned key"}
(* Known: a rest element is looked up by the name it declares.             *)
RestByName(n) == n.slot = "rest"
(* Known: a static property of the component stands in for a property it   *)
(* takes.                                                                  *)
StaticOfComponent(n) == n.slot = "static" /\ n.first
(* Known: a package is not looked for behind members and properties.       *)
PackageUnknown(n) == n.allow = "package" /\ (n.from = "member of import" \/ n.path[1] \in {"binding", "attribute"} \/ n.kind # "identifier")

(* A name is reported where it uses something deprecated that the options  *)
(* do not allow, and nowhere else.                                         *)
DeprecatedUsesAreFound ==
    Visited(DeprecatedId) =>
        \/ (reports # {}) = (~DeclaresName(node) /\ UsesDeprecated(node) /\ ~Suppressed(node))
        \/ OneOverload(node) \/ FirstHidesOthers(node) \/ ValueTakenForName(node) \/ AliasesUnread(node)
        \/ PatternsUnread(node) \/ RestByName(node) \/ StaticOfComponent(node) \/ PackageUnknown(node)

-----------------------------------------------------------------------------
(* The uses that a program can contain.  A call selects one of the         *)
(* overloads if there are any; only an export has a specifier of its own;  *)
(* what a name is to its parent depends on the parent.                     *)
SlotsAt(p) ==
    CASE p \in NamedDeclarations -> {"name", "value", "assigned key"}
      [] p = "binding" -> {"name", "key", "renamed", "rest", "default", "name of string key"}
      [] p = "export" -> {"exported", "exported as", "exported as string"}
      [] p = "attribute" -> {"", "static"}
      [] OTHER -> {""}
SelectsOneOfItsOverloads(n) ==
    LET overloads == {i \in DOMAIN n.decls : n.decls[i].kind \in Overloads}
    IN  /\ n.selected = 0 \/ n.selected \in overloads
        /\ (n.kind = "identifier" /\ GetCallLikeNode(n) /\ n.selected = 0) => overloads = {}
IsUse(n) ==
    /\ n.allow \in {"none", "name", "package"} /\ n.from \in {"", "import", "member of import"}
    /\ n.decls \in Seq([kind : STRING, deprecated : BOOLEAN]) /\ n.path \in Seq(STRING) \ {<<>>}
    /\ SelectsOneOfItsOverloads(n)
    /\ \A i \in DOMAIN n.decls : n.decls[i].kind = "this specifier" => n.kind = "identifier" /\ n.path[1] = "export"
    /\ \/ n.kind = "identifier" /\ n.slot \in SlotsAt(n.path[1]) /\ (n.slot = "name" => n.path[1] = "binding" \/ n.first)
       \/ n.kind = "element access" /\ n.slot \in {"literal", "open"} /\ n.selected = 0 /\ n.path[1] \in {"reference", "callee"}
       \/ /\ n.kind = "super" /\ n.slot = "" /\ n.path[1] \in {"callee", "receiver"}
          /\ n.selected # 0 /\ \A i \in DOMAIN n.decls : n.decls[i].kind = "constructor"

(* The engine dispatches the rule on any number of them.                   *)
DeprecatedSpec(uses) == Start(DeprecatedId, uses) /\ [][Dispatch(DeprecatedId, VisitDeprecated)]_vars
=============================================================================
