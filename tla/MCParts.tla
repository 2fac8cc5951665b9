------------------------------- MODULE MCParts -------------------------------
(***************************************************************************)
(* The sequential parts, each explored alone: the storage structures under *)
(* the collectors and the machine, and the front end of the compiler.      *)
(* part names the one a behaviour exercises; the others stand still.       *)
(***************************************************************************)
EXTENDS CellPool, EdgeArena, RootBag, Components, HeapStore,
        ModuleLoader, Monomorphizer, ClassLayout, CallBinding, NameBinding

VARIABLE part

MCRows == (1 :> {11, 12}) @@ (2 :> {21})
MCMix == (1 :> 0) @@ (2 :> 0) @@ (3 :> 1) @@ (4 :> 2) @@ (5 :> 3)
-----------------------------------------------------------------------------
(* Two modules named a, one of them hidden from main, an index file b, and *)
(* the prelude; main may import two of them, the others one each.          *)
MCLx(path) == [path |-> path, form |-> "lx"]
MCPrelude == MCLx(<<"stdlib", "loxis", "prelude">>)
MCMain == MCLx(<<"app", "main">>)
MCFiles == {MCPrelude, MCMain, MCLx(<<"app", "a">>), MCLx(<<"a">>), [path |-> <<"b">>, form |-> "mod"]}
MCImport(module, names) == [module |-> module, items |-> names]
MCImports == {MCImport(<<"a">>, {}), MCImport(<<"a">>, {"f"}), MCImport(<<"b">>, {}),
              MCImport(<<"loxis">>, {}), MCImport(<<"absent">>, {})}
MCFew == {<<>>} \cup {<<i>> : i \in MCImports}
MCImportsOf(main, a, top, b, prelude) ==
    [f \in MCFiles |-> CASE f = MCMain -> main [] f = MCPrelude -> prelude
                         [] f.path = <<"app", "a">> -> a [] f.path = <<"a">> -> top [] OTHER -> b]
MCProgram(files, bad, imports, dumps, only) ==
    [present |-> files, broken |-> bad, entry |-> MCMain, configured |-> NoPath, env |-> NoPath,
     cwd |-> <<>>, imports |-> imports, dumps |-> dumps, compileOnly |-> only,
     declares |-> [f \in MCFiles |-> <<[name |-> "f", private |-> FALSE], [name |-> "g", private |-> FALSE],
                                       [name |-> "h", private |-> TRUE]>>]]
MCPrograms ==
    {MCProgram(MCFiles, {}, MCImportsOf(m, a, t, b, p), {}, FALSE) :
         m \in MCFew \cup (MCImports \X MCImports), a \in MCFew, t \in {<<>>, <<MCImport(<<"a">>, {"f"})>>, <<MCImport(<<"b">>, {})>>},
         b \in {<<>>, <<MCImport(<<"a">>, {})>>}, p \in {<<>>, <<MCImport(<<"b">>, {"f"})>>}}
    \cup {MCProgram(MCFiles \ gone, bad, MCImportsOf(m, <<>>, <<>>, <<>>, <<>>), dumps, only) :
         m \in MCFew, gone \in {{}, {MCPrelude}}, bad \in {{}, {MCLx(<<"app", "a">>)}},
         dumps \in {{}, {"ast"}, {"tokens", "bytecode"}}, only \in BOOLEAN}
-----------------------------------------------------------------------------
(* Two generic functions, a generic class with a generic method and a plain*)
(* class with one; every body instantiates at most one, main two.  Then a  *)
(* function with a plain and a generic overload, which may or may not show *)
(* its type parameter in the signature, and an enum, generic or not,       *)
(* numbered before or after the class.                                     *)
MCSite(kind, to, recv, args) ==
    [kind |-> kind, to |-> <<to>>, recv |-> recv, args |-> args, label |-> <<to>>]
MCSites(t) ==
    {MCSite("fn", "f", <<>>, <<t>>), MCSite("fn", "f", <<>>, <<<<"Box">> \o t>>), MCSite("fn", "g", <<>>, <<t>>),
     MCSite("class", "Box", <<>>, <<t>>), MCSite("method", "map", <<"Box">> \o t, <<t>>),
     MCSite("method", "to", <<"Plain">>, <<t>>)}
MCBodies(t) == {<<>>} \cup {<<s>> : s \in MCSites(t) \ {MCSite("fn", "f", <<>>, <<t>>), MCSite("method", "to", <<"Plain">>, <<t>>)}}
MCItem(kind, name, generics, id, sites, methods) ==
    [kind |-> kind, name |-> <<name>>, generics |-> generics, signature |-> <<>>, typeId |-> id,
     enumId |-> NoTypeId, sites |-> sites, methods |-> methods]
MCMethod(name, sites) == [name |-> <<name>>, generics |-> <<"U">>, sites |-> sites]
MCMapBodies == {<<>>, <<MCSite("method", "map", <<"Box", "T">>, <<<<"U">>>>)>>,
                <<MCSite("fn", "g", <<>>, <<<<"Box", "U">>>>)>>}
MCOverload(generics, types, sites) ==
    [MCItem("fn", "f", generics, NoTypeId, sites, <<>>) EXCEPT
        !.name = mangleFunctionSignature(<<"f">>, types), !.signature = types]
MCEnum(generics, id, methods) == [MCItem("class", "Opt", generics, NoTypeId, <<>>, methods) EXCEPT !.enumId = id]
MCOverloadCall(types, args) ==
    LET name == mangleFunctionSignature(<<"f">>, types)
    IN [MCSite("fn", "f", <<>>, args) EXCEPT !.to = name, !.label = name]
MCInts == <<<<"Int">>, <<"Int">>>>
MCOverloadUnit(shown, opt, enumId, body, sites) ==
    <<MCEnum(opt, enumId, <<MCMethod("map", <<>>)>>), MCItem("class", "Box", <<"T">>, 1 - enumId, <<>>, <<>>),
      MCOverload(<<>>, MCInts, <<>>), MCOverload(<<"T">>, shown, body),
      MCItem("fn", "main", <<>>, NoTypeId, sites, <<>>)>>
MCOverloadSites(shown, opt) ==
    {MCOverloadCall(MCInts, <<>>), MCOverloadCall(shown, <<<<"Int">>>>), MCOverloadCall(shown, <<<<"Str">>>>),
     MCSite("class", "Box", <<>>, <<<<"Int">>>>),
     MCSite("method", "map", <<"Opt">> \o (IF opt = <<>> THEN <<>> ELSE <<"Int">>), <<<<"Str">>>>)}
MCOverloadUnits ==
    UNION {{MCOverloadUnit(shown, opt, enumId, body, <<a, b, c>>) :
                enumId \in {0, 1}, body \in {<<>>, <<MCSite("class", "Box", <<>>, <<<<"T">>>>)>>},
                a \in MCOverloadSites(shown, opt), b \in MCOverloadSites(shown, opt),
                c \in MCOverloadSites(shown, opt)} :
           shown \in {<<<<"T">>, <<"T">>>>, <<<<"Str">>, <<"Int">>>>}, opt \in {<<>>, <<"T">>}}
MCUnits ==
    MCOverloadUnits \cup
    {<<MCItem("class", "Plain", <<>>, 0, <<>>, <<MCMethod("to", to)>>),
       MCItem("class", "Box", <<"T">>, 1, box, <<MCMethod("map", map)>>),
       MCItem("fn", "f", <<"T">>, NoTypeId, f, <<>>),
       MCItem("fn", "main", <<>>, NoTypeId, <<s, r>>, <<>>),
       MCItem("fn", "g", <<"T">>, NoTypeId, <<>>, <<>>)>> :
         to \in {<<>>, <<MCSite("fn", "f", <<>>, <<<<"U">>>>)>>}, box \in MCBodies(<<"T">>),
         map \in MCMapBodies, f \in MCBodies(<<"T">>), s \in MCSites(<<"Int">>),
         r \in {MCSite("fn", "f", <<>>, <<<<"Int">>>>), MCSite("fn", "g", <<>>, <<<<"Str">>>>),
               MCSite("class", "Box", <<>>, <<<<"Str">>>>), MCSite("method", "map", <<"Box", "Str">>, <<<<"Int">>>>)}}
-----------------------------------------------------------------------------
(* An interface, three classes in a row or two and an object, in two file  *)
(* orders; and a module with the other kinds of item.                      *)
MCDecl(kind, name, super, interfaces, fields, methods, variants) ==
    [kind |-> kind, name |-> name, super |-> super, interfaces |-> interfaces, fields |-> fields,
     methods |-> methods, variants |-> variants]
MCM(m, how) == [name |-> m, arity |-> IF m = "q" THEN 1 ELSE 0, how |-> how]
MCPick(hows) == {<<>>} \cup {<<h>> : h \in hows}
MCMethods(p, q) == [k \in DOMAIN p |-> MCM("p", p[k])] \o [k \in DOMAIN q |-> MCM("q", q[k])]
MCOrder(s, k) == IF k = 1 THEN s ELSE <<s[2], s[1]>> \o SubSeq(s, 3, Len(s))
MCClassUnits ==
    {MCOrder(<<MCDecl("interface", "I", NoName, <<"J">>, <<>>, MCMethods(ip, iq), <<>>),
       MCDecl("class", "A", NoName, ai, <<"x">>, MCMethods(ap, aq), <<>>),
       MCDecl("class", "B", "A", bi, <<"y">>, MCMethods(bp, bq), <<>>),
       MCDecl(shape[1], "C", "B", <<>>, <<"z">>, MCMethods(cp, <<>>), <<>>)>>, shape[2]) :
     ip \in {<<"abstract">>, <<"default">>}, iq \in {<<>>, <<"default">>}, ai \in {<<>>, <<"I">>},
     bi \in {<<>>, <<"I">>}, ap \in MCPick({"open", "final"}), aq \in MCPick({"open"}),
     bp \in MCPick({"final", "override"}), bq \in MCPick({"override"}),
     cp \in MCPick({"override"}), shape \in {<<"class", 1>>, <<"class", 2>>, <<"object", 1>>}}
    \cup {<<MCDecl("var", "v", NoName, <<>>, <<>>, <<>>, <<>>),
            MCDecl("enum", "E", NoName, <<>>, <<>>, <<MCM("p", "final")>>, v),
            MCDecl("interface", "J", NoName, <<>>, <<>>, <<MCM("p", "default")>>, <<>>),
            MCDecl("interface", "I", NoName, <<"J">>, <<>>, <<MCM("q", "abstract")>>, <<>>),
            MCDecl("object", "O", NoName, <<"I">>, <<"x", "y">>, <<MCM("q", "override")>>, <<>>)>> :
            v \in {<<>>, <<0>>, <<2, 0, 1>>}}
-----------------------------------------------------------------------------
(* Up to three arguments against every shape of signature, and two         *)
(* candidates in turn.                                                     *)
MCArg(name, items, names) == [name |-> name, items |-> items, keys |-> names]
MCArgs == {MCArg("", 0, {}), MCArg("a", 0, {}), MCArg("x", 0, {}), MCArg("*", 2, {}), MCArg("**", 0, {}),
           MCArg("**", 0, {"b"}), MCArg("**", 0, {"x"}), MCArg("**", 0, {"a", "b"})}
MCArgLists(n) == UNION {[1 .. m -> MCArgs] : m \in 0 .. n}
MCSig(n, v, k) ==
    [params |-> SubSeq(<<"a", "b">>, 1, n) \o (IF v THEN <<"rest">> ELSE <<>>) \o (IF k THEN <<"opts">> ELSE <<>>),
     vararg |-> IF v THEN n + 1 ELSE 0, kwargs |-> IF k THEN n + 1 + (IF v THEN 1 ELSE 0) ELSE 0]
MCCalls ==
    {[args |-> s, candidates |-> <<MCSig(n, v, k)>>] :
        s \in MCArgLists(3), n \in 0 .. 2, v \in BOOLEAN, k \in BOOLEAN}
    \cup {[args |-> s, candidates |-> <<MCSig(n, FALSE, FALSE), MCSig(1, TRUE, TRUE)>>] :
        s \in MCArgLists(2), n \in 0 .. 2}
-----------------------------------------------------------------------------
(* Three closures one in another, the second under a smart cast: every     *)
(* order in which they use and assign the locals, the parameters and a     *)
(* global.  Names are distinct and only the function declares locals.      *)
MCEvent(do, name, params, block) == [do |-> do, name |-> name, params |-> params, block |-> block]
MCUse(n) == <<MCEvent("use", n, {}, FALSE)>>
MCSet(n) == <<MCEvent("set", n, {}, FALSE)>>
MCIn(do, name, params, block, inner) == <<MCEvent(do, name, params, block)>> \o inner \o <<MCEvent("end", "", {}, FALSE)>>
MCClosure(param, block, inner) == MCIn("closure", "", {param}, block, inner)
MCBoth(n) == MCSet(n) \o MCUse(n)
MCFunctions ==
    {[globals |-> {"g"}, fields |-> {"f"}, params |-> {"p"},
      events |-> <<MCEvent("let", "a", {}, FALSE), MCEvent("let", "b", {}, FALSE)>> \o MCUse("f")
                 \o MCClosure("x", TRUE, s1
                       \o MCIn("if", "p", {}, FALSE, MCClosure("y", FALSE, s2 \o MCClosure("z", TRUE, s3) \o s4)) \o s5)
                 \o MCIn("block", "", {}, TRUE, MCBoth("a"))] :
     s1 \in {<<>>, MCUse("p"), MCBoth("a")}, s2 \in {<<>>, MCUse("x"), MCBoth("b")},
     s3 \in {MCBoth("a"), MCBoth("b"), MCUse("p"), MCUse("x"), MCUse("y"), MCUse("z"), MCSet("y")},
     s4 \in {<<>>, MCUse("y"), MCUse("a")}, s5 \in {<<>>, MCBoth("a"), MCBoth("g")}}
-----------------------------------------------------------------------------
\* The input of a part that stands still.
MCSomeProgram ==
    [MCProgram({MCMain}, {}, [f \in {MCMain} |-> <<>>], {}, FALSE) EXCEPT !.declares = [f \in {MCMain} |-> <<>>]]
MCSomeCall == CHOOSE c \in MCCalls : c.args = <<>>
MCSomeFunction == [globals |-> {}, fields |-> {}, params |-> {}, events |-> <<>>]

MCInit ==
    /\ part \in {"pool", "arena", "bag", "components", "heap", "loader", "mono", "layout", "calls", "names"}
    /\ program \in IF part = "loader" THEN Programs ELSE {MCSomeProgram}
    /\ unit \in IF part = "mono" THEN Units ELSE {<<>>}
    /\ classes \in IF part = "layout" THEN ClassUnits ELSE {<<>>}
    /\ call \in IF part = "calls" THEN Calls ELSE {MCSomeCall}
    /\ text \in IF part = "names" THEN Bodies ELSE {MCSomeFunction}
    /\ PoolInit /\ ArenaInit /\ BagInit /\ ComponentsInit /\ HeapInit
    /\ LoaderStart /\ MonoStart /\ LayoutStart /\ BindStart /\ NameStart

stores == <<poolVars, arenaVars, bagVars, compVars, heapVars>>
frontEnd == <<loaderVars, monoVars, layoutVars, bindVars, nameVars>>

MCNext ==
    /\ UNCHANGED part
    /\ \/ part = "pool" /\ PoolNext /\ UNCHANGED <<arenaVars, bagVars, compVars, heapVars, frontEnd>>
       \/ part = "arena" /\ ArenaNext /\ UNCHANGED <<poolVars, bagVars, compVars, heapVars, frontEnd>>
       \/ part = "bag" /\ BagNext /\ UNCHANGED <<poolVars, arenaVars, compVars, heapVars, frontEnd>>
       \/ part = "components" /\ ComponentsNext /\ UNCHANGED <<poolVars, arenaVars, bagVars, heapVars, frontEnd>>
       \/ part = "heap" /\ HeapNext /\ UNCHANGED <<poolVars, arenaVars, bagVars, compVars, frontEnd>>
       \/ part = "loader" /\ LoaderNext /\ UNCHANGED <<stores, monoVars, layoutVars, bindVars, nameVars>>
       \/ part = "mono" /\ MonoNext /\ UNCHANGED <<stores, loaderVars, layoutVars, bindVars, nameVars>>
       \/ part = "layout" /\ LayoutNext /\ UNCHANGED <<stores, loaderVars, monoVars, bindVars, nameVars>>
       \/ part = "calls" /\ CallNext /\ UNCHANGED <<stores, loaderVars, monoVars, layoutVars, nameVars>>
       \/ part = "names" /\ NameNext /\ UNCHANGED <<stores, loaderVars, monoVars, layoutVars, bindVars>>

MCSpec == MCInit /\ [][MCNext]_<<part, stores, frontEnd>>
=============================================================================
