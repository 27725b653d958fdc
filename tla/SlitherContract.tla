--------------------------- MODULE SlitherContract ---------------------------
(***************************************************************************)
(* A compiled contract as the slicer sees it: what Slither hands over      *)
(* (functions, CFG nodes, SlithIR SSA operations and the SSA variables     *)
(* they define and read), and the queries the package asks of it through   *)
(* pdg.py, dependence/data.py, dependence/storage.py and interproc.py.     *)
(*                                                                         *)
(* The contract is one constant record: build_pdg and build_storage_xref   *)
(* are pure, cached functions of a compiled contract, which does not       *)
(* change while it is sliced.  Control dependence is part of the data      *)
(* (node[n].guards); how the code computes it from the CFG is a question   *)
(* of its own.                                                             *)
(***************************************************************************)
EXTENDS FiniteSets, Naturals

CONSTANTS
    Fn,        \* functions and modifiers, libraries and other contracts included
    Node,      \* CFG nodes of all of them
    Op,        \* SlithIR SSA operations
    Var,       \* SSA variables (one element per SSA version)
    Name,      \* source-level variables: what `non_ssa_version' returns
    StateVar,  \* state variables, by canonical name
    NoVar,     \* no lvalue, no argument at that position
    NoFn,      \* an unresolved callee
    Contract   \* the compiled contract

NodeType == {"entrypoint", "placeholder", "return", "assembly", "other"}

\* "phi" merges SSA versions; "internal" and "library" are resolved in-scope
\* calls that are no modifier invocations; "external" is a HighLevelCall to
\* another contract; "plain" is every other operation.
OpKind == {"plain", "phi", "internal", "library", "external"}

\* branch: the node has two or more CFG successors.
NodeInfo == [fn: Fn, type: NodeType, branch: BOOLEAN, guards: SUBSET Node,
             stateRead: SUBSET StateVar, stateWritten: SUBSET StateVar]

\* callee: the in-scope function the call resolves to (for an external call,
\* what resolve_high_level_target returns).  actual: the argument passed for
\* each formal parameter of the callee.  stateWrite: the lvalue's base is a
\* state variable.  alias: an access through a non-constant index.
OpInfo == [at: Node, kind: OpKind, reads: SUBSET Var, lval: Var \cup {NoVar},
           callee: Fn \cup {NoFn}, actual: [Name -> Var \cup {NoVar}],
           stateWrite: BOOLEAN, alias: BOOLEAN]

\* inScope: one of contract.functions_and_modifiers, inherited ones included.
FnInfo == [formals: SUBSET Name, modifiers: SUBSET Fn, inScope: BOOLEAN]

\* name: the source variable of an SSA version; home: the function whose SSA
\* form the version belongs to.
ContractType == [node: [Node -> NodeInfo], op: [Op -> OpInfo],
                 fn: [Fn -> FnInfo], name: [Var -> Name], home: [Var -> Fn]]

ASSUME ContractAssumption == Contract \in ContractType

ASSUME FiniteAssumption ==
    IsFiniteSet(Fn) /\ IsFiniteSet(Node) /\ IsFiniteSet(Op) /\ IsFiniteSet(Var)

ASSUME NullAssumption == NoVar \notin Var /\ NoFn \notin Fn

-----------------------------------------------------------------------------
FnOf(n) == Contract.node[n].fn
TypeOf(n) == Contract.node[n].type
Branches(n) == Contract.node[n].branch
GuardsOf(n) == Contract.node[n].guards
StateRead(n) == Contract.node[n].stateRead
StateWritten(n) == Contract.node[n].stateWritten
NodeOf(o) == Contract.op[o].at
Kind(o) == Contract.op[o].kind
Reads(o) == Contract.op[o].reads
LValue(o) == Contract.op[o].lval
Callee(o) == Contract.op[o].callee
WritesState(o) == Contract.op[o].stateWrite
IsImprecise(o) == Contract.op[o].alias
Actual(o, p) == Contract.op[o].actual[p]
Formals(f) == Contract.fn[f].formals
Modifiers(f) == Contract.fn[f].modifiers
InScope(f) == Contract.fn[f].inScope
NameOf(v) == Contract.name[v]
Home(v) == Contract.home[v]

\* The function an operation belongs to.
FnOfOp(o) == FnOf(NodeOf(o))

\* SSA: an instance is defined by one operation, in the function it belongs
\* to; a merge always defines one.
ASSUME StaticSingleAssignment ==
    \A o \in Op :
        /\ Kind(o) = "phi" => LValue(o) # NoVar
        /\ LValue(o) # NoVar =>
              /\ Home(LValue(o)) = FnOfOp(o)
              /\ \A p \in Op : LValue(p) = LValue(o) => p = o

\* An in-scope call names its callee and passes variables of the caller.
ASSUME CallsResolved ==
    \A o \in Op :
        /\ Kind(o) \in {"internal", "library"} => Callee(o) # NoFn
        /\ \A p \in Name : Actual(o, p) # NoVar => Home(Actual(o, p)) = FnOfOp(o)

\* Control dependence is a relation within one function.
ASSUME GuardsLocal == \A n \in Node : \A g \in GuardsOf(n) : FnOf(g) = FnOf(n)

Scaffolding == {n \in Node : TypeOf(n) \in {"entrypoint", "placeholder"}}

\* Slither gives the entry of a function merges only, and a placeholder nothing.
ASSUME ScaffoldingMerges ==
    \A o \in Op : NodeOf(o) \in Scaffolding => Kind(o) = "phi"

OpsOf == [n \in Node |-> {o \in Op : NodeOf(o) = n}]

NodeReads(n) == UNION {Reads(o) : o \in OpsOf[n]}
NodeDefs(n) == {LValue(o) : o \in OpsOf[n]} \ {NoVar}

\* build_def_map, for all functions at once, and PDG.def_site: the operations of
\* f that define v (at most one).
DefMap == [v \in Var |-> {o \in Op : LValue(o) = v}]
DefSite(v, f) == {o \in DefMap[v] : FnOfOp(o) = f}

\* build_use_map, and PDG.use_sites: the operations of f that read v.
UseMap == [v \in Var |-> {o \in Op : v \in Reads(o)}]
UseSites(v, f) == {o \in UseMap[v] : FnOfOp(o) = f}

\* Every SSA version that occurs in f.
VersionsIn ==
    [f \in Fn |-> UNION {Reads(o) \cup ({LValue(o)} \ {NoVar}) :
                           o \in {p \in Op : FnOfOp(p) = f}}]

\* ... and those of them that are versions of the formal p of f.
VersionsOf(p, f) == {v \in VersionsIn[f] : NameOf(v) = p}

IsDescendable(o) == Kind(o) \in {"internal", "library"}

\* A formal parameter's entry merge, which links to the callers' actuals.
IsEntryMerge(o) ==
    /\ Kind(o) = "phi"
    /\ TypeOf(NodeOf(o)) = "entrypoint"
    /\ NameOf(LValue(o)) \in Formals(FnOfOp(o))

\* A formal is a local variable: its merge writes no state.
ASSUME FormalsAreLocal == \A o \in Op : IsEntryMerge(o) => ~WritesState(o)

\* callsites_of: internal calls only, made by functions in scope.
Callsites ==
    [f \in Fn |-> {o \in Op : /\ Kind(o) = "internal"
                              /\ Callee(o) = f
                              /\ InScope(FnOfOp(o))}]

\* The operations of a callee that flow to its caller: those of its RETURN
\* nodes and those that write state.
ResultOps(f) ==
    {o \in Op : /\ FnOfOp(o) = f
                /\ TypeOf(NodeOf(o)) = "return" \/ WritesState(o)}

\* build_storage_xref(contract).writers[sv]
WritersOf(sv) ==
    {n \in Node \ Scaffolding : /\ InScope(FnOf(n))
                                /\ sv \in StateWritten(n)}

\* (slip) A guard that is delegated to a call is not seen.
ModifierChecks ==
    [f \in Fn |-> {n \in Node \ Scaffolding :
                      /\ FnOf(n) \in Modifiers(f)
                      /\ \E o \in OpsOf[n] : Kind(o) = "plain"}]

\* The guard nodes of the modifiers on f.
ModifierGuards ==
    [f \in Fn |-> {n \in Node \ Scaffolding :
                      /\ FnOf(n) \in Modifiers(f)
                      /\ \E o \in OpsOf[n] : Kind(o) # "phi"}]

\* The formals of a function are variables of that function.
ASSUME FormalsAreScoped ==
    \A v \in Var, f \in Fn : NameOf(v) \in Formals(f) => Home(v) = f

\* What a function reads of another one's SSA form: a formal's entry merge reads
\* the actuals of the callers, and a merge of a state variable, at the entry or
\* after a call, the instances of it that other functions leave behind.
ASSUME ReadsAcrossFunctions ==
    \A o \in Op : \A v \in Reads(o) :
        FnOfOp(o) # Home(v) =>
            Kind(o) = "phi" /\ (IsEntryMerge(o) \/ NameOf(v) = NameOf(LValue(o)))

\* Only its own function reads the instance v, the merges of formals aside, which
\* the slicer does not thread through.  It is so of every formal (see above) and
\* of every instance of a state variable that no other function merges.
ReadAtHome(v) ==
    \A o \in Op : v \in Reads(o) => IsEntryMerge(o) \/ FnOfOp(o) = Home(v)
=============================================================================
