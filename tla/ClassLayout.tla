----------------------------- MODULE ClassLayout -----------------------------
(***************************************************************************)
(* How classes get their layout: v2/type/Scope.cpp declares the names of a *)
(* module and then resolves its items in file order (field offsets, virtual*)
(* slots, interface tables), v2/type/TypeChecker.cpp names the method of   *)
(* each slot, and v2/backend/MIRCompiler.cpp turns the names into the      *)
(* tables that VCall and ICall of the machine read.                        *)
(*                                                                         *)
(* Slots and offsets count from 0 as in the code, sequences from 1.        *)
(***************************************************************************)
EXTENDS Naturals, Sequences, FiniteSets, SequencesExt

CONSTANTS
    ClassUnits,    \* modules: sequences of items [kind, name, super, interfaces, fields, methods,
                   \*   variants]; kind is class, interface, object, enum or var, a method is
                   \*   [name, arity, how] where how is final, open or override for a class,
                   \*   abstract or default for an interface; a variant is its number of fields
    NoName         \* no superclass, no interface behind a method

VARIABLES
    classes,       \* the items of the module
    pass,          \* "declare", "resolve", "emit" or "done"
    at,            \* items the pass has taken
    defs,          \* ClassDef and InterfaceDef by name
    globals,       \* global slot of each object and var
    counters,      \* m_nextClassTypeId, m_nextInterfaceTypeId, m_nextGlobalSlot
    tables,        \* vtables and itables of the chunk, by class
    refused        \* buildVTableMetadata threw

layoutVars == <<classes, pass, at, defs, globals, counters, tables, refused>>

FieldSize == 9
NoSlot == 255
NoDef == [kind |-> "none", typeId |-> 0, super |-> NoName, interfaces |-> <<>>, fields |-> <<>>,
          size |-> 0, methods |-> <<>>, vtable |-> <<>>, itables |-> <<>>, variants |-> <<>>]
Def(name) == IF name \in DOMAIN defs THEN defs[name] ELSE NoDef
IsClassLike(def) == def.kind \in {"class", "object", "enum"}

\* A method of a class; behind is the interface whose default body it is.
Method(m) == [name |-> m.name, arity |-> m.arity, params |-> m.arity, how |-> m.how,
              slot |-> NoSlot, behind |-> NoName]
-----------------------------------------------------------------------------
LayoutStart ==
    /\ pass = "declare" /\ at = 0
    /\ defs = [n \in {} |-> NoDef] /\ globals = [n \in {} |-> 0]
    /\ counters = [class |-> 0, interface |-> 0, global |-> 0]
    /\ tables = [n \in {} |-> 0] /\ refused = FALSE

LayoutInit == classes \in ClassUnits /\ LayoutStart

\* The item the pass is at; the pass after the last one.
Current == classes[at + 1]
Advance == IF at + 1 < Len(classes) THEN at' = at + 1 /\ UNCHANGED pass
           ELSE at' = 0 /\ pass' = CASE pass = "declare" -> "resolve" [] pass = "resolve" -> "emit"
                                     [] pass = "emit" -> "done"

\* Pass 1: names, type ids and global slots.
declareItem ==
    /\ pass = "declare"
    /\ LET item == Current
           number == IF item.kind = "interface" THEN counters.interface ELSE counters.class
       IN /\ defs' = IF item.kind = "var" THEN defs
                     ELSE [n \in DOMAIN defs \cup {item.name} |->
                              IF n # item.name THEN defs[n]
                              ELSE [NoDef EXCEPT !.kind = item.kind, !.typeId = number,
                                                 !.super = item.super, !.interfaces = item.interfaces]]
          /\ globals' = IF item.kind \notin {"object", "var"} THEN globals
                        ELSE [n \in DOMAIN globals \cup {item.name} |->
                                 IF n = item.name THEN counters.global ELSE globals[n]]
          /\ counters' = [class |-> counters.class + IF item.kind \in {"class", "object", "enum"} THEN 1 ELSE 0,
                          interface |-> counters.interface + IF item.kind = "interface" THEN 1 ELSE 0,
                          global |-> counters.global + IF item.kind \in {"object", "var"} THEN 1 ELSE 0]
    /\ Advance
    /\ UNCHANGED <<classes, tables, refused>>
-----------------------------------------------------------------------------
InheritedSize(base) == base.size

InheritedVTableNone(base) == <<>>
InheritedVTable(base) == base.vtable

\* What the superclass has been given so far; a superclass further down has nothing yet.
inheritFromSuper(def) ==
    LET base == Def(def.super)
    IN IF ~IsClassLike(base) THEN def
       ELSE [def EXCEPT !.fields = base.fields, !.methods = base.methods, !.vtable = InheritedVTable(base),
                        !.interfaces = @ \o SelectSeq(base.interfaces, LAMBDA i : ~Contains(def.interfaces, i)),
                        !.size = InheritedSize(base)]

AddField(def, field) ==
    [def EXCEPT !.fields = Append(@, [name |-> field, offset |-> def.size]), !.size = @ + FieldSize]

\* An override takes the slot of the method it replaces.
AddMethod(def, m) ==
    LET same == {k \in DOMAIN def.methods : def.methods[k].name = m.name /\ def.methods[k].arity = m.arity}
        taken == [Method(m) EXCEPT !.slot = def.methods[Min(same)].slot]
        inPlace == [def EXCEPT !.methods[Min(same)] = taken]
    IN IF m.how # "override" \/ same = {} THEN [def EXCEPT !.methods = Append(@, Method(m))]
       ELSE IF taken.slot # NoSlot THEN inPlace
       ELSE [inPlace EXCEPT !.methods = Append(@, taken)]

buildVTable(def) ==
    FoldLeft(LAMBDA d, k : IF d.methods[k].how \in {"open", "override"} /\ d.methods[k].slot = NoSlot
                           THEN [d EXCEPT !.methods[k].slot = Len(d.vtable), !.vtable = Append(@, k)]
                           ELSE d,
             def, [k \in DOMAIN def.methods |-> k])

\* A default body of the interface becomes a method of the class.
Inject(def, im, iname) ==
    [def EXCEPT !.vtable = Append(@, Len(def.methods) + 1),
                !.methods = Append(@, [name |-> im.name, arity |-> 0, params |-> im.arity, how |-> "open",
                                       slot |-> Len(def.vtable), behind |-> iname])]

\* The methods of def that may stand for im: by name, and by length if the types are known.
Standing(def, im) ==
    {k \in DOMAIN def.methods : def.methods[k].name = im.name
        /\ (def.methods[k].behind # NoName => def.methods[k].params = im.arity)}

\* A method that is not virtual has no slot; its index is put there instead.
InterfaceSlot(cm, index) == IF cm.slot # NoSlot THEN cm.slot ELSE index

\* The table of one interface; failed is a method nobody implements.
Conform(def, iname) ==
    LET add(acc, im) ==
            LET found == Standing(acc.def, im)
                cm == acc.def.methods[Min(found)]
            IN IF acc.failed THEN acc
               ELSE IF found # {}
               THEN [acc EXCEPT !.slots = Append(@, InterfaceSlot(cm, Min(found) - 1))]
               ELSE IF im.how = "default"
               THEN [acc EXCEPT !.slots = Append(@, Len(acc.def.vtable)), !.def = Inject(@, im, iname)]
               ELSE [acc EXCEPT !.failed = TRUE]
    IN FoldLeft(add, [def |-> def, slots |-> <<>>, failed |-> FALSE], Def(iname).methods)

checkInterfaceConformance(def) ==
    FoldLeft(LAMBDA acc, iname :
                 IF acc.failed \/ Def(iname).kind # "interface" THEN acc
                 ELSE LET c == Conform(acc.def, iname)
                      IN [failed |-> c.failed,
                          def |-> IF c.failed THEN c.def
                                  ELSE [c.def EXCEPT !.itables =
                                           Append(@, [of |-> iname, id |-> Def(iname).typeId, slots |-> c.slots])]],
             [def |-> def, failed |-> FALSE], def.interfaces).def

resolveClass(item) ==
    LET fielded == FoldLeft(AddField, inheritFromSuper(defs[item.name]), item.fields)
    IN checkInterfaceConformance(buildVTable(FoldLeft(AddMethod, fielded, item.methods)))

\* An object takes no slot over: its methods are all new.
resolveObject(item) ==
    LET fielded == FoldLeft(AddField, inheritFromSuper(defs[item.name]), item.fields)
    IN checkInterfaceConformance(buildVTable(
           [fielded EXCEPT !.methods = @ \o [k \in DOMAIN item.methods |-> Method(item.methods[k])]]))

resolveInterface(item) ==
    [defs[item.name] EXCEPT
        !.methods = FlattenSeq([k \in DOMAIN item.interfaces |->
                                   IF Def(item.interfaces[k]).kind = "interface"
                                   THEN Def(item.interfaces[k]).methods ELSE <<>>])
                    \o item.methods]

\* Payloads start behind the discriminant; the object holds the largest one.
resolveEnumClass(item) ==
    LET fields(n) == [k \in 1 .. n |-> FieldSize * k]
        sizes == {FieldSize * (item.variants[k] + 1) : k \in DOMAIN item.variants}
    IN [defs[item.name] EXCEPT
           !.variants = [k \in DOMAIN item.variants |-> [disc |-> k - 1, offsets |-> fields(item.variants[k])]],
           !.size = Max(sizes \cup {FieldSize}),
           !.methods = [k \in DOMAIN item.methods |-> Method(item.methods[k])]]

\* Pass 2, in file order.
resolveItem ==
    /\ pass = "resolve"
    /\ LET item == Current
       IN defs' = CASE item.kind = "class" -> [defs EXCEPT ![item.name] = resolveClass(item)]
                    [] item.kind = "object" -> [defs EXCEPT ![item.name] = resolveObject(item)]
                    [] item.kind = "interface" -> [defs EXCEPT ![item.name] = resolveInterface(item)]
                    [] item.kind = "enum" -> [defs EXCEPT ![item.name] = resolveEnumClass(item)]
                    [] OTHER -> defs
    /\ Advance
    /\ UNCHANGED <<classes, globals, counters, tables, refused>>
-----------------------------------------------------------------------------
Label(of, name) == [of |-> of, name |-> name]

\* The bodies the module has: methods of classes and default methods of interfaces.
Labels ==
    UNION {{Label(classes[k].name, m.name) :
                m \in {x \in ToSet(classes[k].methods) : x.how # "abstract"}} : k \in DOMAIN classes}

\* The body named for a slot: the interface's for a default, else the class's own.
vtableMethodNames(name, def) ==
    [k \in DOMAIN def.vtable |->
        LET m == def.methods[def.vtable[k]] IN Label(IF m.behind # NoName THEN m.behind ELSE name, m.name)]

buildVTableMetadata ==
    /\ pass = "emit" /\ ~refused
    /\ LET item == Current
           def == Def(item.name)
           names == vtableMethodNames(item.name, def)
           valid == /\ ToSet(names) \subseteq Labels
                    /\ \A i \in ToSet(def.itables) : \A s \in ToSet(i.slots) : s < Len(names)
           table == [methods |-> names, parent |-> IF item.kind = "class" THEN def.super ELSE NoName,
                     itable |-> [k \in DOMAIN def.itables |->
                         [of |-> def.itables[k].of,
                          methods |-> [j \in DOMAIN def.itables[k].slots |-> names[def.itables[k].slots[j] + 1]]]]]
       IN IF item.kind \notin {"class", "object"} THEN UNCHANGED <<tables, refused>> /\ Advance
          ELSE IF ~valid THEN refused' = TRUE /\ UNCHANGED <<tables, pass, at>>
          ELSE /\ tables' = [n \in DOMAIN tables \cup {item.name} |-> IF n = item.name THEN table ELSE tables[n]]
               /\ UNCHANGED refused /\ Advance
    /\ UNCHANGED <<classes, defs, globals, counters>>

LayoutNext == declareItem \/ resolveItem \/ buildVTableMetadata

\* The body a virtual and an interface call reach; NoName is the machine's panic.
VCall(name, slot) ==
    IF slot < Len(tables[name].methods) THEN tables[name].methods[slot + 1] ELSE Label(NoName, NoName)
ICall(name, iname, index) ==
    LET hits == SelectSeq(tables[name].itable, LAMBDA t : t.of = iname /\ index <= Len(t.methods))
    IN IF hits = <<>> THEN Label(NoName, NoName) ELSE Head(hits).methods[index]
-----------------------------------------------------------------------------
Item(name) == classes[CHOOSE k \in DOMAIN classes : classes[k].name = name]
Place(name) == CHOOSE k \in DOMAIN classes : classes[k].name = name
Declared(name) == \E k \in DOMAIN classes : classes[k].name = name

RECURSIVE Chain(_)
Chain(name) == IF Declared(name) THEN <<name>> \o Chain(Item(name).super) ELSE <<>>
Uses(name) == {Item(name).super} \cup ToSet(Item(name).interfaces)
InOrder(name) ==
    \A c \in ToSet(Chain(name)) : \A u \in Uses(c) : Declared(u) => Place(u) < Place(c)

\* The nearest body of a method up the chain, else the interface's default.
Declares(c, mname) == \E m \in ToSet(Item(c).methods) : m.name = mname
Nearest(name, mname, iname) ==
    LET by == SelectSeq(Chain(name), LAMBDA c : Declares(c, mname))
    IN IF by # <<>> THEN Label(Head(by), mname) ELSE Label(iname, mname)

Accepted == pass = "done"
Objects == {classes[k].name : k \in {j \in DOMAIN classes : classes[j].kind \in {"class", "object"}}}

(* Two fields of an object never share storage, none ends past the object, *)
(* and a field stays where the superclass reads it; an enum's payload never*)
(* covers the discriminant or leaves the object.  A class written before   *)
(* its superclass is left out: it inherits nothing (Scope.cpp:302).        *)
FieldsDisjoint ==
    pass \in {"emit", "done"} =>
        /\ \A name \in Objects : InOrder(name) =>
               LET def == defs[name] IN
               /\ \A j, k \in DOMAIN def.fields : def.fields[j].offset = def.fields[k].offset => j = k
               /\ \A f \in ToSet(def.fields) : f.offset + FieldSize <= def.size
               /\ \A up \in ToSet(Chain(name)) : IsPrefix(defs[up].fields, def.fields)
        /\ \A e \in {d \in DOMAIN defs : defs[d].kind = "enum"} : \A v \in ToSet(defs[e].variants) :
               /\ IsInjective(v.offsets)
               /\ \A o \in ToSet(v.offsets) : FieldSize <= o /\ o + FieldSize <= defs[e].size

(* A call through a slot chosen on any superclass reaches the nearest body *)
(* of that method, whatever was inherited, replaced or added in between (a *)
(* redefined interface default apart, see InterfaceCallsReach).            *)
VirtualCallsReach ==
    Accepted => \A name \in DOMAIN tables : InOrder(name) =>
        \A up \in ToSet(Chain(name)) : \A m \in ToSet(defs[up].methods) :
            m.slot # NoSlot /\ (m.behind # NoName => Nearest(name, m.name, m.behind).of = m.behind) =>
                VCall(name, m.slot) = Nearest(name, m.name, m.behind)

(* A call through an interface reaches the nearest body, else the default. *)
(* Left out are a method that implements the interface without being       *)
(* virtual (the slot map then holds a method index, Scope.cpp:399), one    *)
(* that redefines an inherited default (found under arity 0, line 409),    *)
(* and a class without a method for every abstract one.                    *)
InterfaceCallsReach ==
    Accepted => \A name \in DOMAIN tables : InOrder(name) =>
        \A t \in ToSet(tables[name].itable) : \A k \in DOMAIN Def(t.of).methods :
            LET im == Def(t.of).methods[k]
                mine == {m \in ToSet(defs[name].methods) : m.name = im.name}
            IN (\A m \in mine : m.slot # NoSlot) /\ (\A m, n \in mine : m.behind = n.behind) =>
                   ICall(name, t.of, k) =
                       IF \E m \in mine : m.behind # NoName
                       THEN Label((CHOOSE m \in mine : TRUE).behind, im.name)
                       ELSE Nearest(name, im.name, t.of)

(* Inheritance keeps fields apart and every dynamic call on the method the *)
(* source means, for every class that follows its superclasses in the file.*)
LayoutIsSound == FieldsDisjoint /\ VirtualCallsReach /\ InterfaceCallsReach
=============================================================================
