----------------------------- MODULE ScopeRules -----------------------------
(***************************************************************************)
(* Rules about where a name is bound: no-use-before-define, no-undef,      *)
(* no-import-assign, no-function-assign and no-inner-declarations look at  *)
(* the ancestors of a node, sequences from the file inwards; no-redeclare  *)
(* and no-unused-vars at what a scope declares, and which of that is       *)
(* declared again or never read.                                           *)
(***************************************************************************)
EXTENDS RuleVisit, SequencesExt, FiniteSetsExt

UseBeforeDefineId == "no-use-before-define"
UndefId == "no-undef"
ImportAssignId == "no-import-assign"
FunctionAssignId == "no-function-assign"
InnerDeclarationsId == "no-inner-declarations"
RedeclareId == "no-redeclare"
UnusedVarsId == "no-unused-vars"

Has(chain, kinds) == \E i \in DOMAIN chain : chain[i] \in kinds
From(chain, i) == SubSeq(chain, i, Len(chain))

FunctionLike == {"function", "funexpr", "arrow", "method", "accessor", "constructor"}

-----------------------------------------------------------------------------
(* no-use-before-define.  A use: its ancestors (a member of a class says   *)
(* whether the use is in its computed name), how it is written, and where  *)
(* the declaration is: in the scope after the first `depth` ancestors,     *)
(* before or after the use or, for "within", as the next ancestor.         *)
IsFreeReference(form) == form \notin {"declared name", "property name", "key", "label", "attribute", "import name"}

ComputedNames == {"method name", "field name", "static name"}
Deferring == FunctionLike \cup {"field"}
EagerMembers == ComputedNames \cup {"static", "static block", "heritage"}

CrossesDeferredBoundary(between) == Has(between, Deferring)
ReferenceInDeferredBody(chain) == Has(chain, Deferring \cup {"method name", "field name", "static block"})
(* Mutant: a function inside the static initializer does not defer it.     *)
ReferenceInEagerClassContextDeep(chain) == Has(chain, EagerMembers)
ReferenceInEagerClassContext(chain) == ~Has(chain, Deferring) /\ Has(chain, EagerMembers)

LastFunction(chain, upto) == Max({0} \cup {i \in 1..upto : chain[i] \in FunctionLike \cup {"method name"}})
SameDeferredBody(n) == LastFunction(n.chain, Len(n.chain)) = LastFunction(n.chain, n.depth)

(* A class named in its own heritage, or in a computed name in it.         *)
IsClassHeritageSelfReference(inside) ==
    /\ inside # <<>>
    /\ inside[1] \in {"heritage"} \cup ComputedNames
    /\ ~Has(inside, Deferring)
    /\ ~Has(From(inside, 2), {"heritage"})

(* In its own initializer, or in what a for-of or for-in goes through.     *)
SelfReference(n) ==
    LET part == n.chain[n.depth + 1]  inside == From(n.chain, n.depth + 2)
    IN  \/ n.decl \in {"var", "let", "const", "parameter"} /\ part \in {"initializer", "iterated"}
              /\ ~CrossesDeferredBoundary(inside)
        \/ n.decl = "class" /\ part = "class" /\ IsClassHeritageSelfReference(inside)

(* findSourceFileBinding, for what the checker has no symbol of.           *)
IsFileBinding(n) == n.depth = 0 /\ n.decl \in {"var", "let", "const", "function", "class", "enum"} /\ ~n.destructured

IsNew(n) == n.form = "new" /\ ~ReferenceInDeferredBody(n.chain)
Silenced(n) ==
    LET eager == ReferenceInEagerClassContext(n.chain)
    IN  CASE n.decl = "function" -> "functions" \notin n.opts /\ ~eager
          [] n.decl = "enum" -> n.opts \intersect {"enums", "classes"} # {"enums", "classes"} /\ ~eager /\ ~IsNew(n)
          [] n.decl \in {"class", "type"} -> "classes" \notin n.opts /\ ~eager /\ ~IsNew(n)
          [] n.decl = "var" ->
                "variables" \notin n.opts /\ ~eager /\ ReferenceInDeferredBody(n.chain) /\ ~SameDeferredBody(n)
          [] n.decl \in {"let", "const"} -> "variables" \notin n.opts /\ ~eager /\ ReferenceInDeferredBody(n.chain)
          [] OTHER -> TRUE

VisitUse(n) ==
    LET reported ==
        /\ IsFreeReference(n.form)
        /\ ~(n.form = "type" /\ "ignoreTypeReferences" \in n.opts)
        /\ ~(n.form = "exported" /\ "allowNamedExports" \in n.opts)
        /\ IF Has(n.chain, {"with"}) THEN IsFileBinding(n) /\ n.where = "before"
           ELSE /\ n.form = "exported" => IsFileBinding(n)
                /\ \/ n.where = "within" /\ SelfReference(n)
                   \/ n.where = "before" /\ ~Silenced(n)
    IN  IF reported THEN {"use"} ELSE {}

-----------------------------------------------------------------------------
(* Frames: the scopes around a use of x, each with its kind, how x is a    *)
(* parameter of it or bound in its head ("x", "{x}" or "no"), whether x is *)
(* its own name, and the declarations of x in it, in order: a "nested var" *)
(* is not a child of the scope's body.                                     *)
HeadBinds(frame) == frame.param # "no"
Declares(frame, kinds) == \E i \in DOMAIN frame.decls : frame.decls[i] \in kinds

(* no-undef                                                                *)
HasLexicalBinding(frames) ==
    \E i \in DOMAIN frames :
        /\ frames[i].kind \in {"file", "block", "function", "funexpr", "arrow", "method", "accessor", "constructor"}
        /\ \/ Declares(frames[i], {"var", "let", "function", "class"})
           \/ frames[i].kind \in {"function", "funexpr", "arrow"} /\ frames[i].param = "x"

(* Whether the checker has a symbol for x here: what the language binds,   *)
(* a function or anything else; "= x" only reads x.                        *)
BindingIn(frame) ==
    IF Declares(frame, {"function"}) THEN "function"
    ELSE IF (\E i \in DOMAIN frame.decls : frame.decls[i] # "= x") \/ HeadBinds(frame) \/ frame.own THEN "another" ELSE "none"
Binding(frames) ==
    LET bound == {i \in DOMAIN frames : BindingIn(frames[i]) # "none"}
    IN  IF bound = {} THEN "none" ELSE BindingIn(frames[Max(bound)])

VisitUndef(n) ==
    LET reported ==
        /\ IsFreeReference(n.form) /\ n.form \notin {"type", "exported"}
        /\ n.form = "typeof" => n.typeof
        /\ IF n.form = "({x} =" THEN ~HasLexicalBinding(n.frames) ELSE Binding(n.frames) = "none"
    IN  IF reported THEN {"undefined"} ELSE {}

(* no-import-assign: `Object` in Object.assign(ns, ..) is looked up by     *)
(* name; the initializer of a variable counts as its name.                 *)
HasEnclosingBinding(frames) ==
    \E i \in DOMAIN frames :
        \/ Declares(frames[i], {"var", "let", "function", "class", "= x"})
        \/ frames[i].param = "x"

CheckNamespaceUse(n) ==
    CASE n.form \in {"ns.a =", "ns[a] =", "ns.a++", "delete ns.a", "delete (ns.a)"} -> {"members"}
      [] n.form \in {"Object.assign(ns)", "(Object.assign)(ns)", "Reflect.set(ns)"} ->
            IF HasEnclosingBinding(n.frames) THEN {} ELSE {"members"}
      [] OTHER -> {}
VisitImport(n) ==
    IF n.imported = "none" THEN {}
    ELSE IF n.form \in {"x =", "x +=", "x++", "[x] =", "({x} =", "for (x of"} THEN {"import"}
    ELSE IF n.imported = "namespace" THEN CheckNamespaceUse(n) ELSE {}

(* no-function-assign                                                      *)
BodyShadows(frame) ==
    LET seen == {i \in DOMAIN frame.decls : frame.decls[i] \in {"var", "let", "function", "class"}}
    IN  IF seen = {} THEN "none" ELSE frame.decls[Min(seen)]

(* What a frame says of x, "none" if the walk goes on to the next one out. *)
FnDeclIn(frame) ==
    IF frame.kind \in FunctionLike \ {"accessor"} /\ frame.param = "x" THEN "parameter"
    ELSE IF frame.kind \in FunctionLike \cup {"file", "block"} /\ BodyShadows(frame) # "none" THEN BodyShadows(frame)
    ELSE IF frame.kind = "funexpr" /\ frame.own THEN "own name" ELSE "none"
FindFnDecl(frames) ==
    LET deciding == {i \in DOMAIN frames : FnDeclIn(frames[i]) # "none"}
    IN  deciding # {} /\ FnDeclIn(frames[Max(deciding)]) = "function"

(* checkLHS and walkBindingPattern, over how x stands in an assignment.    *)
CheckedForms == {"x =", "x +=", "[x] =", "({x} =", "({a: x} =", "({x: a} =", "[a = x] =", "({a = x} =", "[...x] ="}
VisitAssignment(n) == IF n.form \in CheckedForms /\ FindFnDecl(n.frames) THEN {"function"} ELSE {}

-----------------------------------------------------------------------------
(* no-inner-declarations: a function declaration or a variable statement,  *)
(* its ancestors from the file (a body is a "block" in its function, or in *)
(* a "static block"), which function bodies start with "use strict", and   *)
(* how the file starts or what makes it a module.                          *)
IsStrictMode(n) ==
    \/ Has(n.chain, {"class"})
    \/ \E i \in n.strict : n.chain[i] = "block" /\ i > 1 /\ n.chain[i - 1] \in FunctionLike
    \/ n.file \in {"import", "export list", "'use strict'"}

(* The bare blocks the declaration is in, and whether what is around them  *)
(* (or the innermost, if they are not walked) is a function.               *)
BareBlocks(chain) == {i \in DOMAIN chain : \A j \in i..Len(chain) : chain[j] = "block"}
IsAllowedContainer(chain, walkBareBlocks) ==
    LET parent == Len(chain)
        blocks == BareBlocks(chain)
        outermost == IF walkBareBlocks THEN Min(blocks) ELSE parent
    IN  \/ parent = 0
        \/ chain[parent] \in {"namespace", "export"}
        \/ blocks # {} /\ outermost > 1 /\ chain[outermost - 1] \in FunctionLike \cup {"static block"}

VisitInner(n) ==
    LET skipped == IF n.decl = "function" THEN n.mode = "functions" /\ n.allowBlocks /\ IsStrictMode(n)
                   ELSE n.mode # "both" \/ n.decl # "var"
    IN  IF skipped \/ IsAllowedContainer(n.chain, n.decl = "function" /\ n.allowBlocks) THEN {} ELSE {"move"}

-----------------------------------------------------------------------------
(* When a use is evaluated: with the code around the declaration, unless a *)
(* function, or an instance field, is in between.  It is too early when    *)
(* the declaration has not been evaluated then.                            *)
Between(n) == From(n.chain, n.depth + 1)
IsImmediate(n) == ~Has(Between(n), Deferring)
TooEarly(n) ==
    CASE n.where = "before" -> IsImmediate(n)
      [] n.where = "within" ->
            LET part == n.chain[n.depth + 1]  inside == From(n.chain, n.depth + 2)
            IN  ~Has(inside, Deferring) /\ (part = "class" => inside # <<>> /\ inside[1] \in {"heritage"} \cup ComputedNames)
      [] OTHER -> FALSE

(* With the option for it off the rule reports a variable or a class only where  *)
(* the use is evaluated too early (a `var` used in a field apart, whose    *)
(* class is taken for code around it), and a declaration only in itself    *)
(* where it is; it is silent on one only where a function, a field or a    *)
(* static block is around, or a class is used outside any.                 *)
OptionFor(decl) == CASE decl \in {"var", "let", "const"} -> "variables" [] decl = "function" -> "functions" [] OTHER -> "classes"
IsQuiet(n) == OptionFor(n.decl) \notin n.opts
UsesBeforeDefinition ==
    Visited(UseBeforeDefineId) /\ ~Has(node.chain, {"with"}) /\ node.form \in {"plain", "new"} =>
        /\ reports # {} /\ IsQuiet(node) => TooEarly(node) \/ (node.decl = "var" /\ Has(Between(node), {"field"}))
        /\ node.where = "within" /\ reports = {} /\ TooEarly(node) =>
                node.decl = "class" /\ Has(From(node.chain, node.depth + 3), {"heritage"})
        /\ node.where = "before" /\ node.decl \in {"let", "const", "class"} /\ reports = {} =>
                ~TooEarly(node) \/ (IsQuiet(node) /\ (ReferenceInDeferredBody(node.chain) \/ node.decl = "class"))

(* What the lookups by name do not see of the language's scopes.           *)
Overlooked(frames, decls) ==
    \/ \E i \in DOMAIN frames :
        \/ Declares(frames[i], decls)
        \/ frames[i].param = "{x}" \/ (frames[i].param = "x" /\ frames[i].kind \notin {"function", "funexpr", "arrow"})
        \/ frames[i].own

(* A name is reported as undefined when no scope around it binds it, and   *)
(* is then reported, unless it is an operand of typeof or a type.          *)
UndefinedNamesAreUnbound ==
    Visited(UndefId) /\ ~Overlooked(node.frames, {"{x}", "nested var", "import", "enum"}) =>
        (reports # {} <=> Binding(node.frames) = "none" /\ IsFreeReference(node.form)
                          /\ node.form \notin {"type", "exported"} /\ (node.form = "typeof" => node.typeof))

(* An assignment is reported when what is assigned is a function's name.   *)
Writes(form) == form \in {"x =", "x +=", "[x] =", "({x} =", "({a: x} =", "[...x] =", "({...x} =", "(x) =", "x++", "for (x of"}
AssignedFunctionsAreFunctions ==
    Visited(FunctionAssignId) =>
        LET real == Binding(node.frames) = "function"
            unseen == Overlooked(node.frames, {"{x}", "nested var", "import", "enum"})
            first == \A i \in DOMAIN node.frames :
                        LET f == node.frames[i] IN Len(f.decls) < 2 /\ (f.param = "no" \/ f.decls = <<>>)
        IN  /\ reports # {} => Writes(node.form) \/ node.form \in {"({x: a} =", "[a = x] =", "({a = x} ="}
            /\ ~unseen /\ first => (node.form \in CheckedForms => (reports # {} <=> real))

(* Object.assign(ns) is reported when Object is the global one.            *)
MutatedNamespacesAreReported ==
    Visited(ImportAssignId) /\ node.imported = "namespace" /\ node.form \in {"Object.assign(ns)", "Reflect.set(ns)"}
    /\ ~Overlooked(node.frames, {"{x}", "nested var", "import", "enum"}) /\ (\A i \in DOMAIN node.frames : ~Declares(node.frames[i], {"= x"})) =>
        (reports # {} <=> Binding(node.frames) = "none")

(* A function declaration reported by default is in code that is not       *)
(* strict, in a statement, or in a block of the file's, and not in its     *)
(* function's body or a bare block of that; the file's being a module by   *)
(* an export alone is overlooked.                                          *)
StatementsAround == {"if", "loop", "switch", "try", "label", "with"}
IsStrictCode(n) ==
    Has(n.chain, {"class"}) \/ n.strict # {} \/ n.file \in {"import", "export list", "exported declaration", "'use strict'", "'a'; 'use strict'"}
InnerFunctionsAreSloppy ==
    Visited(InnerDeclarationsId) /\ node.decl = "function" /\ reports # {} =>
        /\ node.mode = "functions" /\ node.allowBlocks =>
              ~IsStrictCode(node) \/ node.file \in {"exported declaration", "'a'; 'use strict'"}
        /\ node.chain # <<>>
        /\ node.allowBlocks =>
              \/ Last(node.chain) \in StatementsAround
              \/ \E i \in BareBlocks(node.chain) : i = 1 \/ node.chain[i - 1] \notin FunctionLike \cup {"static block", "block"}

-----------------------------------------------------------------------------
(* The declarations of one name in a scope, in order: each a kind (a       *)
(* "binding" is a name in the pattern of a `var`) and whether it is nested *)
(* in a block of the scope.  The checker gives one symbol to those it      *)
(* merges; a declaration that an earlier one of them excludes is left out. *)
Bindings == {"var", "binding", "param"}
Functions == {"function", "overload"}
Excludes == [k \in Bindings \cup Functions \cup {"class", "enum", "interface", "type", "namespace", "import"} |->
    CASE k \in Bindings -> Functions \cup {"class", "enum", "namespace"}
      [] k \in Functions -> Bindings \cup {"enum"}
      [] k = "class" -> Bindings \cup {"class", "enum", "type"}
      [] k = "enum" -> Bindings \cup Functions \cup {"class", "interface", "type"}
      [] k = "interface" -> {"enum", "type"}
      [] k = "type" -> {"class", "interface", "enum", "type"}
      [] k = "namespace" -> Bindings
      [] k = "import" -> {"import"}]
InScope(decls) == {i \in DOMAIN decls : ~(decls[i].nested /\ decls[i].kind \in Functions)}
Joins(decls) ==
    CHOOSE S \in SUBSET InScope(decls) :
        \A i \in InScope(decls) : i \in S <=> \A j \in S : j < i => decls[j].kind \notin Excludes[decls[i].kind]

(* classify and conflicts; the order of two kinds does not matter.         *)
ConflictsWith == [k \in DOMAIN Excludes |->
    CASE k = "var" -> Bindings \cup Functions \cup {"class", "enum"}
      [] k = "function" -> Bindings \cup {"function", "class", "enum"}
      [] k = "overload" -> {"var", "binding", "class", "enum"}
      [] k = "class" -> Bindings \cup Functions \cup {"class", "enum", "type"}
      [] k = "enum" -> Bindings \cup Functions \cup {"class", "type"}
      [] k = "interface" -> {"type"}
      [] k = "type" -> {"type", "interface", "class", "enum"}
      [] k = "param" -> {"var", "binding", "class", "enum", "function"}
      [] k = "binding" -> Bindings \cup Functions \cup {"class", "enum"}
      [] OTHER -> {}]
FindRedeclare(decls) ==
    LET later == {i \in Joins(decls) : \E j \in Joins(decls) : j < i /\ decls[j].kind \in ConflictsWith[decls[i].kind]}
    IN  IF later = {} THEN {} ELSE {Min(later)}

(* hoistPass: by name, without symbols; in strict code a function in a     *)
(* block stays there.                                                      *)
Second(S) == IF Cardinality(S) < 2 THEN {} ELSE {Min(S \ {Min(S)})}
HoistPass(decls, strict) ==
    LET of(kinds) == {i \in DOMAIN decls : decls[i].kind \in kinds /\ ~(strict /\ decls[i].nested /\ decls[i].kind \in Functions)}
        varDecls == of({"var"})  impls == of({"function"})  functions == of(Functions)
    IN  Second(varDecls) \cup Second(impls)
        \cup (IF varDecls # {} /\ functions # {} THEN {Max(varDecls \cup functions)} ELSE {})
        \cup (IF varDecls # {} /\ of({"param"}) # {} THEN {Min(varDecls)} ELSE {})
VisitRedeclare(n) == FindRedeclare(n.decls) \cup HoistPass(n.decls, n.strict)

-----------------------------------------------------------------------------
(* no-unused-vars: the items of a file.  Each declares names (role "name", *)
(* or the "property" or the "default" in a pattern, which addBindingNames  *)
(* takes for names too) and reads names.                                   *)
Declare(name, role) == [name |-> name, role |-> role]
DeclaredNames(items) == UNION {{i} \X DOMAIN items[i].declares : i \in DOMAIN items}
Recorded(items) == {p \in DeclaredNames(items) : ~items[p[1]].exported}
Exported(items) == {items[p[1]].declares[p[2]].name : p \in {q \in DeclaredNames(items) : items[q[1]].exported}}
References(items) == UNION {items[i].reads : i \in DOMAIN items}
VisitUnused(n) ==
    {p \in Recorded(n.items) :
        LET name == n.items[p[1]].declares[p[2]].name
        IN  name # "_a" /\ name \notin Exported(n.items) \cup References(n.items)}

-----------------------------------------------------------------------------
(* Two declarations that bind a value of their own to the name in one      *)
(* scope of the program: nested functions are bound in the scope only in   *)
(* sloppy code.                                                            *)
Rebinds(decls, strict) ==
    LET own == {i \in DOMAIN decls : decls[i].kind \in {"var", "binding", "param", "function"}
                                     /\ ~(strict /\ decls[i].nested /\ decls[i].kind = "function")}
    IN  own # {} /\ \E i \in own : i # Min(own)

(* A name is reported where it is bound again, never at its first binding, *)
(* and every second `var` or function is found, by one of the two passes;  *)
(* a binding in a pattern, or a parameter, hides behind what it cannot join.*)
RedeclarationsAreRebindings ==
    Visited(RedeclareId) =>
        LET kinds == {node.decls[i].kind : i \in DOMAIN node.decls}
        IN  /\ \A i \in reports : \E j \in 1..(i - 1) :
                    node.decls[j].kind \in ConflictsWith[node.decls[i].kind] \cup Functions \cup Bindings
            /\ kinds \subseteq {"function", "overload"} =>
                    (reports # {} <=> Rebinds(node.decls, node.strict))
            /\ Rebinds(node.decls, node.strict) /\ reports = {} =>
                    kinds \cap {"binding", "param"} # {} /\ kinds \cap (Functions \cup {"class", "enum", "namespace"}) # {}

(* A read in the inner scope means the inner declaration, if there is one. *)
(* The default of a pattern is a read as well.                             *)
DeclaresName(items, scope, name) ==
    \E i \in DOMAIN items : items[i].scope = scope /\ \E j \in DOMAIN items[i].declares :
        items[i].declares[j].name = name /\ items[i].declares[j].role = "name"
Reads(item) == item.reads \cup {item.declares[j].name : j \in {k \in DOMAIN item.declares : item.declares[k].role = "default"}}
IsRead(items, scope, name) ==
    \E i \in DOMAIN items :
        /\ name \in Reads(items[i])
        /\ items[i].scope = scope \/ (scope = "outer" /\ ~DeclaresName(items, "inner", name))

(* A name reported as unused is read nowhere that means it, but for the    *)
(* defaults of patterns; within one scope every unread name is reported.   *)
UnusedNamesAreUnread ==
    Visited(UnusedVarsId) =>
        LET oneScope == \A i, j \in DOMAIN node.items : node.items[i].scope = node.items[j].scope
            parts == {d \in UNION {Range(node.items[i].declares) : i \in DOMAIN node.items} : d.role # "name"}
        IN  \A p \in Recorded(node.items) :
                LET item == node.items[p[1]]  d == item.declares[p[2]]
                    read == IsRead(node.items, item.scope, d.name)
                IN  d.role = "name" /\ d.name # "_a" =>
                        /\ p \in reports => ~read \/ Declare(d.name, "default") \in parts
                        /\ p \notin reports /\ oneScope => read \/ d.name \in Exported(node.items)

(* All of these: the rules agree with the scopes of the language, and each *)
(* declaration is compared with the others of its name.                    *)
NamesMeanTheirBindings ==
    /\ UsesBeforeDefinition
    /\ UndefinedNamesAreUnbound
    /\ AssignedFunctionsAreFunctions
    /\ MutatedNamespacesAreReported
    /\ InnerFunctionsAreSloppy
    /\ RedeclarationsAreRebindings
    /\ UnusedNamesAreUnread

-----------------------------------------------------------------------------
(* What the grammar and the binder make of the nodes.  A use inside its    *)
(* declaration is in a part of it.                                         *)
IsPlacedUse(n) ==
    /\ n.chain \in Seq(STRING)
    /\ n.depth \in 0..Len(n.chain)
    /\ n.where \in {"before", "within", "after"}
    /\ n.where = "within" =>
          /\ n.depth < Len(n.chain)
          /\ LET part == n.chain[n.depth + 1]
             IN  \/ part \in {"initializer", "iterated"} /\ n.decl \in {"var", "let", "const", "parameter"}
                 \/ part = "class" /\ n.decl = "class"

(* Only some scopes have parameters, a body with declarations or a name.   *)
IsFrame(frame) ==
    /\ frame.kind \in FunctionLike \cup {"file", "block", "for", "catch"}
    /\ frame.decls \in Seq(STRING)
    /\ frame.kind \in {"for", "catch"} => frame.decls = <<>>
    /\ frame.kind \in {"file", "block"} => frame.param = "no"
    /\ frame.param \in {"no", "x", "{x}"}
    /\ \A i \in DOMAIN frame.decls :
          frame.decls[i] \in {"var", "let", "function", "class", "{x}", "nested var", "import", "enum", "= x"}
AreFrames(frames) ==
    /\ frames \in Seq([kind : STRING, param : STRING, own : BOOLEAN, decls : Seq(STRING)])
    /\ \A i \in DOMAIN frames : IsFrame(frames[i])

(* A declaration is the file's, or in what can hold one; a directive is at *)
(* the start of a function's body.                                         *)
IsPlacedDeclaration(n) ==
    /\ n.chain \in Seq(STRING) /\ n.allowBlocks \in BOOLEAN
    /\ n.chain # <<>> => Last(n.chain) \in StatementsAround \cup {"block", "namespace", "export"}
    /\ \A i \in n.strict :
          i \in DOMAIN n.chain /\ i > 1 /\ n.chain[i] = "block" /\ n.chain[i - 1] \in FunctionLike

(* A parameter comes before what the body declares, and only once.         *)
AreDeclarations(decls) ==
    /\ decls \in Seq([kind : DOMAIN Excludes, nested : BOOLEAN])
    /\ \A i \in DOMAIN decls : decls[i].kind = "param" => i = 1
AreItems(items) ==
    items \in Seq([declares : Seq([name : STRING, role : {"name", "property", "default"}]), reads : SUBSET STRING,
                   exported : BOOLEAN, scope : {"outer", "inner"}])

IsScopeNode(r, n) ==
    /\ r = UseBeforeDefineId => IsPlacedUse(n)
    /\ r \in {UndefId, FunctionAssignId, ImportAssignId} => AreFrames(n.frames)
    /\ r = InnerDeclarationsId => IsPlacedDeclaration(n)
    /\ r = RedeclareId => AreDeclarations(n.decls)
    /\ r = UnusedVarsId => AreItems(n.items)

(* The engine dispatches the rules on any number of them.                  *)
ScopeRuleIds == {UseBeforeDefineId, UndefId, FunctionAssignId, ImportAssignId, InnerDeclarationsId, RedeclareId, UnusedVarsId}
ScopeNext ==
    \/ Dispatch(UseBeforeDefineId, VisitUse)
    \/ Dispatch(UndefId, VisitUndef)
    \/ Dispatch(RedeclareId, VisitRedeclare)
    \/ Dispatch(UnusedVarsId, VisitUnused)
    \/ Dispatch(FunctionAssignId, VisitAssignment)
    \/ Dispatch(ImportAssignId, VisitImport)
    \/ Dispatch(InnerDeclarationsId, VisitInner)
ScopeSpec(nodes) ==
    /\ \E r \in ScopeRuleIds : Start(r, nodes[r])
    /\ [][ScopeNext]_vars
=============================================================================
