----------------------------- MODULE CallBinding -----------------------------
(***************************************************************************)
(* How a call with named, collected and spread arguments reaches its       *)
(* parameters.  TypeChecker::bindArguments arranges the source arguments   *)
(* for each candidate in turn, HirBuilder evaluates them into temporaries  *)
(* and builds the array and the map behind the * and ** parameters, and    *)
(* what a spread map must still supply is taken from it at run time.       *)
(*                                                                         *)
(* A source argument is [name, items, keys]: name is "" for a positional   *)
(* one, "*" or "**" for a spread; items is the length of a spread array    *)
(* and keys the keys of a spread map.  A value is named by where it came   *)
(* from: <<i>> is argument i, <<i, k>> the element or entry k of its value.*)
(***************************************************************************)
EXTENDS Naturals, Sequences, FiniteSets, SequencesExt

CONSTANTS
    Calls,         \* records [args, candidates]; a candidate is [params, vararg, kwargs],
                   \*   the last two the index of a collecting parameter, 0 for none
    NoValue        \* a parameter without a value

VARIABLES
    call,          \* the call being compiled and then run
    binder,        \* where the call stands
    cand,          \* candidate being tried
    pos,           \* source arguments taken by the current loop
    bound,         \* locals of bindArguments
    evaluated,     \* source arguments in the order they were evaluated
    pack,          \* the map of the ** parameter: key to value
    received       \* parameter index to value

bindVars == <<call, binder, cand, pos, bound, evaluated, pack, received>>

Nothing == [k \in {} |-> NoValue]
Fresh == [arranged |-> Nothing, rest |-> <<>>, keywords |-> {}, spreads |-> <<>>,
          seen |-> {}, positional |-> 0, named |-> FALSE]
Sig == call.candidates[cand]
Params(sig) == 1 .. Len(sig.params)

\* Parameters that are not collectors.
FixedOf(sig) == (IF sig.vararg # 0 THEN sig.vararg ELSE IF sig.kwargs # 0 THEN sig.kwargs
                 ELSE Len(sig.params) + 1) - 1
IsFixed(sig, name) == \E j \in 1 .. FixedOf(sig) : sig.params[j] = name
IndexOf_(sig, name) == CHOOSE j \in 1 .. FixedOf(sig) : sig.params[j] = name

BindStart ==
    /\ binder = "bind" /\ cand = 1 /\ pos = 0 /\ bound = Fresh
    /\ evaluated = <<>> /\ pack = Nothing /\ received = Nothing

BindInit == call \in Calls /\ BindStart

\* This candidate does not take the arguments; the next is tried.
NextCandidate ==
    /\ bound' = Fresh /\ pos' = 0
    /\ IF cand < Len(call.candidates) THEN cand' = cand + 1 /\ UNCHANGED binder
       ELSE binder' = "refused" /\ UNCHANGED cand

Accept(locals) == bound' = locals /\ pos' = pos + 1 /\ UNCHANGED <<binder, cand>>
With(f, k, v) == [j \in DOMAIN f \cup {k} |-> IF j = k THEN v ELSE f[j]]

BindSpread ==
    IF bound.named \/ Sig.vararg = 0 \/ bound.positional < FixedOf(Sig) THEN NextCandidate
    ELSE Accept([bound EXCEPT !.rest = Append(@, pos + 1)])

BindKeywordSpread ==
    IF Sig.kwargs = 0 THEN NextCandidate
    ELSE Accept([bound EXCEPT !.named = TRUE, !.spreads = Append(@, pos + 1)])

AlreadySupplied(name) == IsFixed(Sig, name) /\ IndexOf_(Sig, name) \in DOMAIN bound.arranged

BindNamed(name) ==
    LET seen == [bound EXCEPT !.named = TRUE, !.seen = @ \cup {name}]
    IN IF name \in bound.seen \/ AlreadySupplied(name) THEN NextCandidate
       ELSE IF IsFixed(Sig, name)
       THEN Accept([seen EXCEPT !.arranged = With(@, IndexOf_(Sig, name), <<pos + 1>>)])
       ELSE IF Sig.kwargs # 0 THEN Accept([seen EXCEPT !.keywords = @ \cup {pos + 1}])
       ELSE NextCandidate

BindPositional ==
    IF bound.named THEN NextCandidate
    ELSE IF bound.positional < FixedOf(Sig)
    THEN Accept([bound EXCEPT !.arranged = With(@, bound.positional + 1, <<pos + 1>>), !.positional = @ + 1])
    ELSE IF Sig.vararg # 0 THEN Accept([bound EXCEPT !.rest = Append(@, pos + 1)])
    ELSE NextCandidate

\* One turn of bindArguments' loop.
BindNext ==
    /\ binder = "bind" /\ pos < Len(call.args)
    /\ LET name == call.args[pos + 1].name
       IN CASE name = "*" -> BindSpread [] name = "**" -> BindKeywordSpread
            [] name = "" -> BindPositional [] OTHER -> BindNamed(name)
    /\ UNCHANGED <<call, evaluated, pack, received>>

\* A fixed parameter without an argument needs a spread map to come from.
BindDone ==
    /\ binder = "bind" /\ pos = Len(call.args)
    /\ IF 1 .. FixedOf(Sig) \subseteq DOMAIN bound.arranged \/ bound.spreads # <<>>
       THEN binder' = "evaluate" /\ pos' = 0 /\ UNCHANGED <<bound, cand>>
       ELSE NextCandidate
    /\ UNCHANGED <<call, evaluated, pack, received>>
-----------------------------------------------------------------------------
\* The order of the temporaries: evaluationArgs keeps the source order.
EvaluationArgs == [k \in DOMAIN call.args |-> k]

EvaluateNext ==
    /\ binder = "evaluate" /\ pos < Len(call.args)
    /\ evaluated' = Append(evaluated, EvaluationArgs[pos + 1])
    /\ pos' = pos + 1
    /\ UNCHANGED <<call, binder, cand, bound, pack, received>>

KeyOf(i) == call.args[i].name
StartPack ==
    /\ binder = "evaluate" /\ pos = Len(call.args)
    /\ binder' = "pack" /\ pos' = 0
    /\ pack' = [k \in {KeyOf(i) : i \in bound.keywords} |-> <<CHOOSE i \in bound.keywords : KeyOf(i) = k>>]
    /\ UNCHANGED <<call, cand, bound, evaluated, received>>

\* Keys a spread must not have: those of the fixed parameters already bound.
ReservedKeysNone == {}
ReservedKeys == {Sig.params[j] : j \in DOMAIN bound.arranged}

\* The loop over one spread map copies its entries, or fails at the first key already there.
PackSpread ==
    /\ binder = "pack" /\ pos < Len(bound.spreads)
    /\ LET i == bound.spreads[pos + 1]
           entries == call.args[i].keys
       IN IF entries \cap (ReservedKeys \cup DOMAIN pack) # {}
          THEN binder' = "failed" /\ UNCHANGED <<pack, pos>>
          ELSE /\ pack' = [k \in DOMAIN pack \cup entries |-> IF k \in entries THEN <<i, k>> ELSE pack[k]]
               /\ pos' = pos + 1 /\ UNCHANGED binder
    /\ UNCHANGED <<call, cand, bound, evaluated, received>>

PackDone ==
    /\ binder = "pack" /\ pos = Len(bound.spreads)
    /\ binder' = "supply" /\ pos' = 0
    /\ UNCHANGED <<call, cand, bound, evaluated, pack, received>>

Without(f, k) == [j \in DOMAIN f \ {k} |-> f[j]]

\* A fixed parameter: its argument, or what it takes out of the packed map.
SupplyFixed ==
    /\ binder = "supply" /\ pos < FixedOf(Sig)
    /\ LET j == pos + 1
           key == Sig.params[j]
       IN IF j \in DOMAIN bound.arranged
          THEN received' = With(received, j, bound.arranged[j]) /\ UNCHANGED <<pack, binder>> /\ pos' = j
          ELSE IF key \in DOMAIN pack
          THEN received' = With(received, j, pack[key]) /\ pack' = Without(pack, key) /\ UNCHANGED binder /\ pos' = j
          ELSE binder' = "failed" /\ UNCHANGED <<pack, received, pos>>
    /\ UNCHANGED <<call, cand, bound, evaluated>>

\* The array of the * parameter: spread arrays are copied element by element.
RestArray ==
    FlattenSeq([k \in DOMAIN bound.rest |->
        LET i == bound.rest[k] IN
        IF call.args[i].name = "*" THEN [e \in 1 .. call.args[i].items |-> <<i, e>>] ELSE <<<<i>>>>])

Invoke ==
    /\ binder = "supply" /\ pos = FixedOf(Sig)
    /\ binder' = "called"
    /\ received' = [j \in Params(Sig) |-> IF j = Sig.vararg THEN RestArray
                                          ELSE IF j = Sig.kwargs THEN pack ELSE received[j]]
    /\ UNCHANGED <<call, cand, pos, bound, evaluated, pack>>

CallNext ==
    BindNext \/ BindDone \/ EvaluateNext \/ StartPack \/ PackSpread \/ PackDone \/ SupplyFixed \/ Invoke
-----------------------------------------------------------------------------
Named(i) == call.args[i].name \notin {"", "*", "**"}
Args == DOMAIN call.args
Positionals == SelectSeq([i \in Args |-> i], LAMBDA i : call.args[i].name = "")

(* What docs/executable-subset.md says of a call form, for one candidate:  *)
(* positional arguments come first, a * spread after all fixed ones, no    *)
(* name twice, unknown names and ** only with a ** parameter.              *)
Allowed(sig) ==
    LET fixed == FixedOf(sig)
        direct == {j \in 1 .. fixed : j <= Len(Positionals)}
        byName == {j \in 1 .. fixed : \E i \in Args : call.args[i].name = sig.params[j]}
    IN /\ \A i, j \in Args : i < j /\ call.args[j].name \in {"", "*"} => call.args[i].name \in {"", "*"}
       /\ \A i \in Args : call.args[i].name = "*" =>
              sig.vararg # 0 /\ Cardinality({k \in 1 .. i : call.args[k].name = ""}) >= fixed
       /\ \A i, j \in Args : Named(i) /\ Named(j) /\ call.args[i].name = call.args[j].name => i = j
       /\ Len(Positionals) > fixed => sig.vararg # 0
       /\ direct \cap byName = {}
       /\ \A i \in Args : call.args[i].name = "**" => sig.kwargs # 0
       /\ \A i \in Args : Named(i) /\ ~IsFixed(sig, call.args[i].name) => sig.kwargs # 0
       /\ 1 .. fixed = direct \cup byName \/ \E i \in Args : call.args[i].name = "**"

Maps == {i \in Args : call.args[i].name = "**"}
Given(sig) == {sig.params[j] : j \in 1 .. FixedOf(sig)} \cap
              ({sig.params[j] : j \in 1 .. Len(Positionals) \cap Params(sig)}
               \cup {call.args[i].name : i \in Args})
KeysNamed == {call.args[i].name : i \in {k \in Args : Named(k)}}
Works(sig) ==
    /\ \A i, j \in Maps : i # j => call.args[i].keys \cap call.args[j].keys = {}
    /\ \A i \in Maps : call.args[i].keys \cap (KeysNamed \cup Given(sig)) = {}
    /\ \A j \in 1 .. FixedOf(sig) : sig.params[j] \in Given(sig) \cup UNION {call.args[i].keys : i \in Maps}

ByKey(key) ==
    IF \E i \in Args : call.args[i].name = key THEN <<CHOOSE i \in Args : call.args[i].name = key>>
    ELSE <<CHOOSE i \in Maps : key \in call.args[i].keys, key>>
Elements(i) == IF call.args[i].name = "*" THEN [e \in 1 .. call.args[i].items |-> <<i, e>>] ELSE <<<<i>>>>

Expected(sig) ==
    LET extra == SelectSeq([i \in Args |-> i],
                     LAMBDA i : \/ call.args[i].name = "*"
                                \/ call.args[i].name = ""
                                   /\ Cardinality({k \in 1 .. i : call.args[k].name = ""}) > FixedOf(sig))
        fixedNames == {sig.params[j] : j \in 1 .. FixedOf(sig)}
    IN [j \in Params(sig) |->
           IF j = sig.vararg THEN FlattenSeq([k \in DOMAIN extra |-> Elements(extra[k])])
           ELSE IF j = sig.kwargs
           THEN [key \in (KeysNamed \cup UNION {call.args[i].keys : i \in Maps}) \ fixedNames |-> ByKey(key)]
           ELSE IF j <= Len(Positionals) THEN <<Positionals[j]>> ELSE ByKey(sig.params[j])]

(* A call reaches the first candidate whose form the documentation allows, *)
(* with every parameter given the value it names; it is refused when there *)
(* is none, and fails at run time exactly when a spread map repeats a      *)
(* keyword or lacks a parameter it has to supply.                          *)
BindsAsDocumented ==
    LET ok == {c \in DOMAIN call.candidates : Allowed(call.candidates[c])}
    IN /\ binder = "refused" => ok = {}
       /\ binder \in {"called", "failed"} => ok # {} /\ cand = Min(ok)
       /\ binder = "called" => Works(Sig) /\ received = Expected(Sig)
       /\ binder = "failed" => ~Works(Sig)

(* Every source argument is evaluated exactly once and from left to right, *)
(* and all of them before the first one is bound (docs/spec.md:197).       *)
EvaluatedOnceInOrder ==
    /\ IsPrefix(evaluated, [i \in Args |-> i])
    /\ binder \in {"pack", "supply", "called", "failed"} => Len(evaluated) = Len(call.args)
    /\ binder \in {"bind", "refused"} => evaluated = <<>>

(* A call passes each parameter the value written for it, and evaluates    *)
(* the arguments as they are written.                                      *)
BindingIsSound == BindsAsDocumented /\ EvaluatedOnceInOrder
=============================================================================
