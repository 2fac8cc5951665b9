----------------------------- MODULE NameBinding -----------------------------
(***************************************************************************)
(* How a name in a function body reaches its variable: checkExpr of        *)
(* v2/type/TypeChecker.cpp looks names up in its scopes, redeclares the    *)
(* ones a condition refines and converts closures (which variables each    *)
(* one captures, and from where), v2/hir/HirBuilder.cpp and                *)
(* v2/backend/Lowering.cpp turn each name into a register, a cell of a     *)
(* closure environment, a field or a global.                               *)
(*                                                                         *)
(* A body is the sequence of its events in source order: let, use and set  *)
(* of a name, and block, if and closure, each closed by an end.  An if     *)
(* tests its name against null.  A variable is named by where it is        *)
(* declared.                                                               *)
(***************************************************************************)
EXTENDS Naturals, Sequences, FiniteSets, SequencesExt

CONSTANTS
    Bodies,        \* records [globals, fields, params, events]; an event is
                   \*   [do, name, params, block], block telling whether the body of an
                   \*   if or a closure has statements or is one expression
    NoEnv          \* a function that is no capturing closure

VARIABLES
    text,          \* the function
    phase,         \* "check", "run" or "done"
    event,         \* events the phase has taken
    scopes,        \* scopes of the type checker, the innermost last
    captures,      \* captures of each closure, by its event
    marks,         \* what checkExpr wrote into each name
    acts,          \* functions being lowered and run, the innermost last
    reach,         \* the place each name reaches
    rejected       \* the type checker reported an error

nameVars == <<text, phase, event, scopes, captures, marks, acts, reach, rejected>>

Nowhere == [at |-> "nowhere"]
NoNames == [n \in {} |-> 0]
Put(f, k, v) == [j \in DOMAIN f \cup {k} |-> IF j = k THEN v ELSE f[j]]
EventAt(i) == text.events[i]
-----------------------------------------------------------------------------
Symbol(var, global, mutable) == [var |-> var, global |-> global, mutable |-> mutable]
ScopeOf(kind, by, symbols) == [kind |-> kind, by |-> by, symbols |-> symbols]

lookup(chain, name) ==
    LET found == {k \in DOMAIN chain : name \in DOMAIN chain[k].symbols}
    IN chain[Max(found)].symbols[name]
Declares_(name) == \E k \in DOMAIN scopes : name \in DOMAIN scopes[k].symbols

NameStart ==
    /\ phase = "check" /\ event = 0
    /\ scopes = <<ScopeOf("root", 0, [n \in text.globals |-> Symbol(<<"global", n>>, TRUE, TRUE)]),
                  ScopeOf("class", 0, [n \in text.fields |-> Symbol(<<"field", n>>, FALSE, TRUE)]),
                  ScopeOf("fn", 0, [n \in text.params |-> Symbol(<<"param", 0, n>>, FALSE, FALSE)]),
                  ScopeOf("block", 0, NoNames)>>
    /\ captures = NoNames /\ marks = NoNames /\ reach = NoNames /\ rejected = FALSE
    /\ acts = <<[by |-> 0, regs |-> [n \in text.params |-> <<"param", 0, n>>], env |-> NoEnv, self |-> TRUE]>>

NameInit == text \in Bodies /\ NameStart

\* The event that an end closes.
Opens(i) == EventAt(i).do \in {"block", "if", "closure"}
Depth(i) == Cardinality({j \in 1 .. i : Opens(j)}) - Cardinality({j \in 1 .. i : EventAt(j).do = "end"})
Opener(i) == Max({j \in 1 .. i - 1 : Opens(j) /\ Depth(j) = Depth(i) + 1})
-----------------------------------------------------------------------------
\* A condition x != null declares x again in the branch.
applyRefinements(name) ==
    IF Declares_(name) THEN [n \in {name} |-> [lookup(scopes, name) EXCEPT !.global = FALSE, !.mutable = FALSE]]
    ELSE NoNames

BlockOf(i) == IF EventAt(i).block THEN <<ScopeOf("block", i, NoNames)>> ELSE <<>>

Closures == SelectSeq(scopes, LAMBDA s : s.kind = "closure")

\* Where a variable is among the captures of closure c, 0 if it is not.
CapturedAt(c, name) ==
    LET k == {j \in DOMAIN captures[c] : captures[c][j].name = name} IN IF k = {} THEN 0 ELSE Min(k)

\* The innermost closure that owns the variable, 0 for the function itself.
Owner(name) ==
    Max({0} \cup {k \in DOMAIN Closures : name \in DOMAIN Closures[k].symbols \/ CapturedAt(Closures[k].by, name) # 0})
OwnerOffset(name) ==
    LET k == Owner(name)
    IN IF k = 0 THEN 0 ELSE IF name \in DOMAIN Closures[k].symbols THEN 0 ELSE CapturedAt(Closures[k].by, name)

ForwardNothing(offset) == 0
Forward(offset) == offset

\* Every closure below the owner takes the variable over from the one around it.
CaptureDown(name) ==
    LET below == [k \in 1 .. Len(Closures) - Owner(name) |-> Closures[Owner(name) + k].by]
    IN FoldLeft(LAMBDA acc, c :
                    [map |-> [acc.map EXCEPT ![c] = Append(@, [name |-> name, source |-> Forward(acc.offset)])],
                     offset |-> Len(acc.map[c]) + 1],
                [map |-> captures, offset |-> OwnerOffset(name)], below)

\* A name that is not a parameter of the innermost closure, nor declared by the module.
IsCaptured(name) ==
    /\ Closures # <<>>
    /\ name \notin DOMAIN Last(Closures).symbols
    /\ lookup(scopes, name).var[1] # "global"

\* A name the innermost scope does not declare is a field if the class has one.
IsField(name) == name \in text.fields /\ name \notin DOMAIN Last(scopes).symbols

isMutablePlace(name) == lookup(scopes, name).mutable

\* checkExpr of a name, read or assigned.
CheckName(i) ==
    LET name == EventAt(i).name
        down == CaptureDown(name)
    IN IF ~Declares_(name) \/ (EventAt(i).do = "set" /\ ~isMutablePlace(name))
       THEN rejected' = TRUE /\ UNCHANGED <<captures, marks>>
       ELSE /\ captures' = IF IsCaptured(name) THEN down.map ELSE captures
            /\ marks' = Put(marks, i, [global |-> lookup(scopes, name).global, field |-> IsField(name),
                                       capture |-> IF IsCaptured(name) THEN down.offset ELSE 0])
            /\ UNCHANGED rejected

CheckEvent ==
    /\ phase = "check" /\ ~rejected /\ event < Len(text.events)
    /\ event' = event + 1
    /\ LET i == event + 1
           e == EventAt(i)
       IN \/ /\ e.do \in {"use", "set"} /\ CheckName(i) /\ UNCHANGED scopes
          \/ /\ e.do = "if" /\ CheckName(i)
             /\ scopes' = Append(scopes, ScopeOf("then", i, applyRefinements(e.name))) \o BlockOf(i)
          \/ /\ e.do = "let"
             /\ scopes' = [scopes EXCEPT ![Len(scopes)].symbols = Put(@, e.name, Symbol(<<"local", i>>, FALSE, TRUE))]
             /\ UNCHANGED <<captures, marks, rejected>>
          \/ /\ e.do = "block"
             /\ scopes' = Append(scopes, ScopeOf("block", i, NoNames))
             /\ UNCHANGED <<captures, marks, rejected>>
          \/ /\ e.do = "closure"
             /\ scopes' = Append(scopes, ScopeOf("closure", i,
                              [n \in e.params |-> Symbol(<<"param", i, n>>, FALSE, FALSE)])) \o BlockOf(i)
             /\ captures' = Put(captures, i, <<>>)
             /\ UNCHANGED <<marks, rejected>>
          \/ /\ e.do = "end"
             /\ scopes' = SelectSeq(scopes, LAMBDA s : s.by # Opener(i))
             /\ UNCHANGED <<captures, marks, rejected>>
    /\ UNCHANGED <<text, phase, acts, reach>>

CheckDone ==
    /\ phase = "check" /\ (rejected \/ event = Len(text.events))
    /\ phase' = IF rejected THEN "done" ELSE "run"
    /\ event' = 0
    /\ UNCHANGED <<text, scopes, captures, marks, acts, reach, rejected>>
-----------------------------------------------------------------------------
Act == Last(acts)
Cell(act, k) == [at |-> "cell", of |-> act.by, cell |-> k,
                 var |-> IF k \in DOMAIN act.env THEN act.env[k] ELSE <<"outside">>]
Register(act, name) == IF name \in DOMAIN act.regs THEN [at |-> "register", var |-> act.regs[name]] ELSE Nowhere
FieldPlace(act, name) == IF act.self THEN [at |-> "field", var |-> <<"field", name>>] ELSE Nowhere
HasCell(act, mark) == mark.capture > 0 /\ act.env # NoEnv

\* A name is read as a field, a global, a register and last as a captured variable.
ReadPlace(act, mark, name) ==
    IF mark.field THEN FieldPlace(act, name)
    ELSE IF mark.global THEN [at |-> "global", var |-> <<"global", name>>]
    ELSE IF name \in DOMAIN act.regs \/ ~HasCell(act, mark) THEN Register(act, name)
    ELSE Cell(act, mark.capture)

\* An assignment prefers the captured variable.
WritePlace(act, mark, name) ==
    IF mark.field THEN FieldPlace(act, name)
    ELSE IF HasCell(act, mark) THEN Cell(act, mark.capture)
    ELSE IF mark.global THEN [at |-> "global", var |-> <<"global", name>>]
    ELSE Register(act, name)

\* The environment: a register of that name, else the cell of the closure around; else it is left out.
Environment(act, list) ==
    FlattenSeq([k \in DOMAIN list |->
        IF list[k].name \in DOMAIN act.regs THEN <<act.regs[list[k].name]>>
        ELSE IF list[k].source > 0 /\ act.env # NoEnv THEN <<Cell(act, list[k].source).var>>
        ELSE <<>>])

\* One event as the compiled code meets it; a closure is called where it is created.
RunEvent ==
    /\ phase = "run" /\ event < Len(text.events)
    /\ event' = event + 1
    /\ LET i == event + 1
           e == EventAt(i)
       IN \/ /\ e.do \in {"use", "if"} /\ reach' = Put(reach, i, ReadPlace(Act, marks[i], e.name)) /\ UNCHANGED acts
          \/ /\ e.do = "set" /\ reach' = Put(reach, i, WritePlace(Act, marks[i], e.name)) /\ UNCHANGED acts
          \/ /\ e.do = "let"
             /\ acts' = [acts EXCEPT ![Len(acts)].regs = Put(@, e.name, <<"local", i>>)]
             /\ UNCHANGED reach
          \/ /\ e.do = "closure"
             /\ acts' = Append(acts,
                    [by |-> i, regs |-> [n \in e.params |-> <<"param", i, n>>], self |-> FALSE,
                     env |-> IF captures[i] = <<>> THEN NoEnv ELSE Environment(Act, captures[i])])
             /\ UNCHANGED reach
          \/ /\ e.do = "block" /\ UNCHANGED <<acts, reach>>
          \/ /\ e.do = "end"
             /\ acts' = SelectSeq(acts, LAMBDA a : a.by # Opener(i))
             /\ UNCHANGED reach
    /\ UNCHANGED <<text, phase, scopes, captures, marks, rejected>>

RunDone ==
    /\ phase = "run" /\ event = Len(text.events)
    /\ phase' = "done"
    /\ UNCHANGED <<text, event, scopes, captures, marks, acts, reach, rejected>>

NameNext == CheckEvent \/ CheckDone \/ RunEvent \/ RunDone
-----------------------------------------------------------------------------
\* The events around an event, and the variable a name is bound to by the nesting of the text.
Around(i) == {o \in 1 .. i - 1 : Opens(o) /\ \A j \in o + 1 .. i : Depth(j) >= Depth(o)}
BoundTo(i) ==
    LET name == EventAt(i).name
        lets == {j \in 1 .. i - 1 : EventAt(j).do = "let" /\ EventAt(j).name = name /\ Around(j) \subseteq Around(i)}
        takes == {o \in Around(i) : EventAt(o).do = "closure" /\ name \in EventAt(o).params}
        nearest == Max(lets \cup takes)
    IN IF lets \cup takes # {}
       THEN IF nearest \in lets THEN <<"local", nearest>> ELSE <<"param", nearest, name>>
       ELSE IF name \in text.params THEN <<"param", 0, name>>
       ELSE IF name \in text.fields THEN <<"field", name>> ELSE <<"global", name>>
ClosureOf(i) == Max({0} \cup {o \in Around(i) : EventAt(o).do = "closure"})

(* A name in any closure, however deep and whatever was captured before    *)
(* it, reaches the variable the text binds it to (docs/spec.md:234: values *)
(* held by an enclosing closure are forwarded down).                       *)
NamesReachTheirVariable ==
    phase = "done" => \A i \in DOMAIN reach : reach[i] # Nowhere /\ reach[i].var = BoundTo(i)

(* What a closure assigns it reads back: an assignment and a later use of  *)
(* the same variable in one closure agree on the place, and two variables  *)
(* never share one (docs/spec.md:236).                                     *)
WritesAreReadBack ==
    LET seen == {<<ClosureOf(i), BoundTo(i), reach[i]>> : i \in DOMAIN reach}
    IN phase = "done" => \A s, t \in seen : s[1] = t[1] => (s[2] = t[2] <=> s[3] = t[3])

(* Closures of any depth share nothing they should not and reach all they  *)
(* name: reads and writes agree on the variable and on its place.          *)
NamesAreSound == NamesReachTheirVariable /\ WritesAreReadBack
=============================================================================
