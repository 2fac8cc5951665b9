---------------------------- MODULE Monomorphizer ----------------------------
(***************************************************************************)
(* Instantiation of generics, v2/hir/Monomorphizer.cpp.  The non-generic   *)
(* functions and classes are copied and their bodies scanned; a call of a  *)
(* generic function, the construction of a generic class and the call of a *)
(* generic method create a specialization once per list of type arguments  *)
(* and are redirected to it; a worklist scans the specializations in turn. *)
(*                                                                         *)
(* A body is the sequence of its instantiation sites in scan order, the    *)
(* only part of an expression scanExpr changes.  A type is a sequence of   *)
(* names that ends in a ground type or a type parameter: Box<Box<T>> is    *)
(* <<"Box", "Box", "T">>.  A name is a sequence of words.  The checker has  *)
(* named an overloaded function by its signature already, and an enum is   *)
(* here a class without an id of its own, although its values carry one.   *)
(***************************************************************************)
EXTENDS Integers, Sequences, FiniteSets, SequencesExt, Functions, TLC

CONSTANTS
    Units,         \* programs: sequences of items [kind, name, generics, signature, typeId,
                   \*   enumId, sites, methods]: signature is the types of an overload, the
                   \*   result last, enumId the id in the values of an enum, and methods are
                   \*   the generic ones of a class, records [name, generics, sites]
    MaxTypeLen     \* scanning stops at a longer type (polymorphic recursion)

VARIABLES
    unit,          \* the HIR of the program
    copied,        \* how many of its items the first pass has taken
    scans,         \* activations of scanFn, the innermost first
    specMap,       \* m_specMap: definition and type arguments to the specialized name
    worklist,      \* m_worklist
    output,        \* m_output
    nextTypeId     \* m_nextTypeId

monoVars == <<unit, copied, scans, specMap, worklist, output, nextTypeId>>
spec == [map |-> specMap, work |-> worklist, out |-> output, id |-> nextTypeId]

NoTypeId == -1     \* ~0u
NoReceiver == <<>>
Range_(s) == {s[k] : k \in DOMAIN s}

mangle(base, typeArgs) == FoldLeft(LAMBDA name, ty : name \o <<"$">> \o ty, base, typeArgs)
mangleFunctionSignature(base, types) ==
    FoldLeft(LAMBDA name, ty : name \o <<"_">> \o ty, base \o <<"$P">>, types)
Overloaded(name) == "$P" \in Range_(name)
BaseName(name) == SubSeq(name, 1, SelectInSeq(name, LAMBDA word : word = "$P") - 1)
Qualified(owner, method) == owner \o <<".">> \o method

makeSubst(generics, typeArgs) ==
    [p \in {generics[k] : k \in DOMAIN generics \cap DOMAIN typeArgs} |->
        typeArgs[CHOOSE k \in DOMAIN generics : generics[k] = p]]

substTy(ty, subst) == IF Last(ty) \in DOMAIN subst THEN Front(ty) \o subst[Last(ty)] ELSE ty

Substituted(def, typeArgs) ==
    [k \in DOMAIN def.signature |-> substTy(def.signature[k], makeSubst(def.generics, typeArgs))]

\* The copy of a body with its types replaced; the template keeps its own.
substExpr(sites, subst) ==
    [k \in DOMAIN sites |->
        [sites[k] EXCEPT !.args = [j \in DOMAIN @ |-> substTy(@[j], subst)],
                         !.recv = IF @ = NoReceiver THEN @ ELSE substTy(@, subst)]]

Defs(kind) == {k \in DOMAIN unit : unit[k].kind = kind}
Find(kind, name) == CHOOSE k \in Defs(kind) : unit[k].name = name
Known(kind, name) == \E k \in Defs(kind) : unit[k].name = name
hasGenerics(kind, name) == Known(kind, name) /\ unit[Find(kind, name)].generics # <<>>
-----------------------------------------------------------------------------
SpecKey(name, typeArgs) == <<name, typeArgs>>

QueueNot(s, key) == s
Queue(s, key) == [s EXCEPT !.work = Append(@, key)]

\* An overload is named by the types it has now, anything else by its type arguments.
SpecializedName(def, typeArgs) ==
    IF def.kind = "fn" /\ Overloaded(def.name)
    THEN mangleFunctionSignature(BaseName(def.name), Substituted(def, typeArgs))
    ELSE mangle(def.name, typeArgs)

\* monoFn and monoClass: nothing for a key that is there, else a new item of the output.
Specialize(s, kind, name, typeArgs) ==
    LET def == unit[Find(kind, name)]
        key == SpecKey(name, typeArgs)
        item == [def EXCEPT
                     !.name = SpecializedName(def, typeArgs), !.generics = <<>>,
                     !.signature = Substituted(def, typeArgs),
                     !.typeId = IF kind = "class" THEN s.id ELSE NoTypeId,
                     !.sites = substExpr(@, makeSubst(def.generics, typeArgs)), !.methods = <<>>]
    IN IF key \in DOMAIN s.map THEN s
       ELSE Queue([s EXCEPT !.map = @ @@ (key :> item.name), !.out = Append(@, item),
                            !.id = IF kind = "class" THEN @ + 1 ELSE @], key)

\* The start of monoMethod: the key is taken before the body is scanned.
GenericMethod(owner, name) ==
    SelectSeq(IF Known("class", owner) THEN unit[Find("class", owner)].methods ELSE <<>>,
              LAMBDA m : m.name = name)

MethodScan(owner, recvArgs, inside, method, typeArgs) ==
    LET def == unit[Find("class", owner)]
        body == substExpr(substExpr(method.sites, makeSubst(def.generics, recvArgs)),
                          makeSubst(method.generics, typeArgs))
    IN [todo |-> body, done |-> <<>>, then |-> "method", at |-> 0,
        item |-> [name |-> mangle(method.name, typeArgs), owner |-> inside]]

\* One instantiation site: the new specializations, the scans it starts and the site redirected.
SpecializeSite(site) ==
    LET owner == <<Head(site.recv)>>
        recvArgs == IF Len(site.recv) = 1 THEN <<>> ELSE <<Tail(site.recv)>>
        inside == IF hasGenerics("class", owner) /\ recvArgs # <<>> THEN mangle(owner, recvArgs) ELSE owner
        ofClass == IF hasGenerics("class", owner) /\ recvArgs # <<>>
                   THEN Specialize(spec, "class", owner, recvArgs) ELSE spec
        generic == GenericMethod(owner, site.to)
        key == SpecKey(Qualified(inside, site.to), site.args)
        fresh == generic # <<>> /\ site.args # <<>> /\ key \notin DOMAIN ofClass.map
        name == mangle(site.to, IF generic = <<>> THEN <<>> ELSE site.args)
    IN IF site.recv = NoReceiver
       THEN IF hasGenerics(site.kind, site.to) /\ site.args # <<>>
            THEN [spec |-> Specialize(spec, site.kind, site.to, site.args), scans |-> <<>>,
                  site |-> [site EXCEPT !.label =
                                SpecializedName(unit[Find(site.kind, site.to)], site.args)]]
            ELSE [spec |-> spec, scans |-> <<>>, site |-> site]
       ELSE [spec |-> IF fresh THEN [ofClass EXCEPT !.map = @ @@ (key :> name)] ELSE ofClass,
             scans |-> IF fresh THEN <<MethodScan(owner, recvArgs, inside, generic[1], site.args)>> ELSE <<>>,
             site |-> [site EXCEPT !.label = Qualified(inside, name)]]
-----------------------------------------------------------------------------
\* Above the ids of the classes, which those of the enums are not among.
FirstTypeId == 1 + Max({0} \cup {unit[k].typeId : k \in DOMAIN unit})

MonoStart ==
    /\ copied = 0 /\ scans = <<>> /\ specMap = <<>> /\ worklist = <<>> /\ output = <<>>
    /\ nextTypeId = FirstTypeId

MonoInit == unit \in Units /\ MonoStart

Store(s) == specMap' = s.map /\ worklist' = s.work /\ output' = s.out /\ nextTypeId' = s.id

\* First pass: a non-generic item is scanned before it is in the output.
CopyItem ==
    /\ scans = <<>> /\ copied < Len(unit)
    /\ copied' = copied + 1
    /\ LET item == unit[copied + 1]
       IN scans' = IF item.generics # <<>> THEN <<>>
                   ELSE <<[todo |-> item.sites, done |-> <<>>, then |-> "copy", at |-> 0, item |-> item]>>
    /\ UNCHANGED <<unit, specMap, worklist, output, nextTypeId>>

ScanSite ==
    /\ scans # <<>>
    /\ LET top == Head(scans)
       IN /\ top.todo # <<>>
          /\ \A ty \in Range_(Head(top.todo).args) \cup {Head(top.todo).recv} : Len(ty) <= MaxTypeLen
          /\ LET result == SpecializeSite(Head(top.todo))
             IN /\ Store(result.spec)
                /\ scans' = result.scans
                            \o <<[top EXCEPT !.todo = Tail(@), !.done = Append(@, result.site)]>>
                            \o Tail(scans)
    /\ UNCHANGED <<unit, copied>>

\* The body is done: the copy is output, the method joins its class, the item keeps its new calls.
FinishScan ==
    /\ scans # <<>> /\ Head(scans).todo = <<>>
    /\ LET top == Head(scans)
           owners == {k \in DOMAIN output : output[k].kind = "class" /\ output[k].name = top.item.owner}
       IN output' =
            CASE top.then = "copy" -> Append(output, [top.item EXCEPT !.sites = top.done, !.methods = <<>>])
              [] top.then = "rescan" -> [output EXCEPT ![top.at].sites = top.done]
              [] top.then = "method" ->
                     IF owners = {} THEN output
                     ELSE [output EXCEPT ![Min(owners)].methods =
                              Append(@, [name |-> top.item.name, sites |-> top.done])]
    /\ scans' = Tail(scans)
    /\ UNCHANGED <<unit, copied, specMap, worklist, nextTypeId>>

\* The worklist is a stack.  Every item of the name is scanned, in the order of the output.
PopWork ==
    /\ scans = <<>> /\ copied = Len(unit) /\ worklist # <<>>
    /\ worklist' = Front(worklist)
    /\ LET named == {k \in DOMAIN output : output[k].name = specMap[Last(worklist)]}
           scan(k) == [todo |-> output[k].sites, done |-> <<>>, then |-> "rescan", at |-> k,
                       item |-> [output[k] EXCEPT !.sites = <<>>]]
           order == SetToSortSeq(named, <)
       IN scans' = [n \in DOMAIN order |-> scan(order[n])]
    /\ UNCHANGED <<unit, copied, specMap, output, nextTypeId>>

MonoNext == CopyItem \/ ScanSite \/ FinishScan \/ PopWork
-----------------------------------------------------------------------------
Monomorphized == scans = <<>> /\ copied = Len(unit) /\ worklist = <<>>

(* What a set of sites asks for: pairs of a qualified definition and the   *)
(* type arguments it is used with.                                         *)
Asked(sites) ==
    UNION {LET s == sites[k] IN
           IF s.recv = NoReceiver THEN {[def |-> <<s.to>>, args |-> <<s.args>>]}
           ELSE {[def |-> <<<<Head(s.recv)>>>>, args |-> <<IF Len(s.recv) = 1 THEN <<>> ELSE <<Tail(s.recv)>>>>],
                 [def |-> <<<<Head(s.recv)>>, s.to>>,
                  args |-> <<IF Len(s.recv) = 1 THEN <<>> ELSE <<Tail(s.recv)>>, s.args>>]}
           : k \in DOMAIN sites}

BodyOf(i) ==
    LET k == CHOOSE k \in DOMAIN unit : unit[k].name = i.def[1]
        ofClass == makeSubst(unit[k].generics, i.args[1])
    IN IF Len(i.def) = 1 THEN substExpr(unit[k].sites, ofClass)
       ELSE LET m == SelectSeq(unit[k].methods, LAMBDA g : g.name = i.def[2])
            IN IF m = <<>> THEN <<>>
               ELSE substExpr(substExpr(m[1].sites, ofClass), makeSubst(m[1].generics, i.args[2]))

RECURSIVE Instances(_)
Instances(found) ==
    LET more == found \cup UNION {Asked(BodyOf(i)) : i \in found}
    IN IF more = found THEN found ELSE Instances(more)

Plain == {[def |-> <<unit[k].name>>, args |-> <<<<>>>>] : k \in {j \in DOMAIN unit : unit[j].generics = <<>>}}
InstanceName(i) ==
    IF Len(i.def) = 1
    THEN SpecializedName(CHOOSE d \in Range_(unit) : d.name = i.def[1], i.args[1])
    ELSE Qualified(mangle(i.def[1], i.args[1]), mangle(i.def[2], i.args[2]))
OutputNames ==
    {output[k].name : k \in DOMAIN output}
    \cup UNION {{Qualified(output[k].name, m.name) : m \in Range_(output[k].methods)} : k \in DOMAIN output}

(* The output holds exactly the instances the program can use, the least   *)
(* set closed under the bodies of its members, and each one once: the      *)
(* worklist forgets none, and two uses with the same types share one.      *)
InstancesExact ==
    LET found == Instances(Plain)
        called(name) == {i \in found : Len(i.def) = 1 /\ InstanceName(i) = name}
    IN Monomorphized =>
        /\ OutputNames = {InstanceName(i) : i \in found}
        /\ \A k \in DOMAIN output :
               /\ Cardinality({j \in DOMAIN output : output[j].name = output[k].name})
                      = Cardinality(called(output[k].name))
               /\ IsInjective([m \in DOMAIN output[k].methods |-> output[k].methods[m].name])

(* Two items share a name only when they are overloads of one function     *)
(* that the type arguments gave the same parameter and result types: then  *)
(* the signature in the name cannot tell them apart.                       *)
NamesApart ==
    LET alike(i, j) == /\ BaseName(i.def[1]) = BaseName(j.def[1])
                       /\ LET types(x) == Substituted(CHOOSE d \in Range_(unit) : d.name = x.def[1], x.args[1])
                          IN types(i) = types(j)
        overloads == {i \in Instances(Plain) : Overloaded(i.def[1])}
    IN Monomorphized =>
        \A j, k \in DOMAIN output :
            output[j].name = output[k].name =>
                \/ j = k
                \/ /\ Overloaded(output[j].name)
                   /\ \E x, y \in overloads : x # y /\ alike(x, y) /\ InstanceName(x) = output[j].name

(* Every site of every body of the output, specialized methods included,   *)
(* names something of the output: no call is left to a template.           *)
CallsResolve ==
    LET bodies == {output[k].sites : k \in DOMAIN output}
                  \cup UNION {{m.sites : m \in Range_(output[k].methods)} : k \in DOMAIN output}
    IN Monomorphized => \A b \in bodies : \A k \in DOMAIN b : b[k].label \in OutputNames

(* Run-time type ids stay unique when specializations are added to the     *)
(* classes the scope numbered.  An enum drew its id from the same counter   *)
(* but its item does not show it: only when a class was numbered after it  *)
(* is its id safe from a specialization.                                   *)
TypeIdsUnique ==
    LET numbered == {k \in DOMAIN output : output[k].typeId # NoTypeId}
        enums == {unit[k].enumId : k \in DOMAIN unit} \ {NoTypeId}
    IN /\ \A j, k \in numbered : output[j].typeId = output[k].typeId => j = k
       /\ \A id \in enums : (\E k \in DOMAIN unit : unit[k].typeId > id) =>
              \A k \in numbered : output[k].typeId # id

(* Specialization neither misses nor duplicates an instance and leaves no  *)
(* call to a template; two instances claim one name or one type id only in *)
(* the two cases that NamesApart and TypeIdsUnique name.                   *)
InstancesAreSound == InstancesExact /\ NamesApart /\ CallsResolve /\ TypeIdsUnique
=============================================================================
