------------------------------ MODULE MCContracts ------------------------------
(***************************************************************************)
(* The contracts the slicer is checked on.  The first:                     *)
(*                                                                         *)
(*   function two(w) external onlyOwner { z = w + total; one(w, z); }      *)
(*   function one(v, k) internal { if (v > 0) { store(v); } }              *)
(*   function store(amt) internal {                                        *)
(*       x = helper(amt);                                                  *)
(*       while (x < amt) { x = x + 1; }                                    *)
(*       total = x; }                                                      *)
(*   function helper(h) internal returns (..) {                            *)
(*       seen = h; require(h > 0); return h + owner; }                     *)
(*   function sync(j) external {                                           *)
(*       q = oracle.price(j); require(hub.ok(q)); seen = q; }              *)
(*   function setOwner(n) external { require(n != owner);                  *)
(*       owner = n; total = n; emit OwnerSet(owner); }                     *)
(*   function fact(r) internal returns (..) {                              *)
(*       if (r > 1) { return fact(r - 1); } }                              *)
(*   modifier onlyOwner { auth(owner); _; }                               *)
(*   function auth(o) internal { require(msg.sender == o); }               *)
(*   oracle: function price(p) external returns (..) {                     *)
(*       last[p] = p; if (next.price(p) > p) { feed = p; } return feed; }  *)
(*                                                                         *)
(* oracle and next resolve to the same contract, hub to none.  At the      *)
(* entry of two and of helper, Slither merges the instances of `total' and *)
(* `owner' that other functions leave behind.                              *)
(***************************************************************************)
EXTENDS TLC

MCFn == {"two", "one", "store", "helper", "setOwner", "fact", "onlyOwner", "auth",
         "sync", "price"}
MCName == {"w", "z", "v", "k", "amt", "x", "h", "q", "n", "r", "p", "tmp",
           "m", "a", "b", "i", "s", "o", "total", "owner", "seen", "feed", "last",
           "t", "lim", "ok", "cap", "base", "c", "d", "g", "y", "fees", "u", "e",
           "chief", "j"}
MCStateVar == {"total", "owner", "seen"}
MCNoVar == "-"
MCNoFn == "-"
MCNoName == "-"

\* A CFG node of f, control dependent on g.
At(f, t, g) == [fn |-> f, type |-> t, branch |-> FALSE, guards |-> g,
                stateRead |-> {}, stateWritten |-> {}]
Branch(f, g) == [At(f, "other", g) EXCEPT !.branch = TRUE]
Touching(node, reads, writes) ==
    [node EXCEPT !.stateRead = reads, !.stateWritten = writes]

VaultNodes ==
       "two0" :> At("two", "entrypoint", {})
    @@ "two1" :> Touching(At("two", "other", {}), {"total"}, {})
    @@ "two2" :> At("two", "other", {})
    @@ "one0" :> At("one", "entrypoint", {})
    @@ "one1" :> Branch("one", {})
    @@ "one2" :> At("one", "other", {"one1"})
    @@ "sto0" :> At("store", "entrypoint", {})
    @@ "sto1" :> At("store", "other", {})
    @@ "sto2" :> Branch("store", {})
    @@ "sto3" :> At("store", "other", {"sto2"})
    @@ "sto4" :> Touching(At("store", "other", {}), {}, {"total"})
    @@ "hel0" :> At("helper", "entrypoint", {})
    @@ "hel4" :> Touching(At("helper", "other", {}), {}, {"seen"})
    @@ "hel2" :> At("helper", "other", {})
    @@ "hel3" :> Touching(At("helper", "return", {"hel2"}), {"owner"}, {})
    @@ "syn0" :> At("sync", "entrypoint", {})
    @@ "syn1" :> At("sync", "other", {})
    @@ "syn2" :> At("sync", "other", {})
    @@ "syn3" :> Touching(At("sync", "other", {"syn2"}), {}, {"seen"})
    @@ "set0" :> At("setOwner", "entrypoint", {})
    @@ "set1" :> Touching(At("setOwner", "other", {}), {"owner"}, {})
    @@ "set2" :> Touching(At("setOwner", "other", {"set1"}), {}, {"owner"})
    @@ "set3" :> Touching(At("setOwner", "other", {"set1"}), {}, {"total"})
    @@ "set4" :> Touching(At("setOwner", "assembly", {"set1"}), {"owner"}, {})
    @@ "fac0" :> At("fact", "entrypoint", {})
    @@ "fac1" :> Branch("fact", {})
    @@ "fac2" :> At("fact", "return", {"fac1"})
    @@ "own1" :> Touching(At("onlyOwner", "other", {}), {"owner"}, {})
    @@ "own2" :> At("onlyOwner", "placeholder", {"own1"})
    @@ "aut0" :> At("auth", "entrypoint", {})
    @@ "aut1" :> At("auth", "other", {})
    @@ "pri0" :> At("price", "entrypoint", {})
    @@ "pri4" :> At("price", "other", {})
    @@ "pri1" :> Branch("price", {})
    @@ "pri2" :> At("price", "other", {"pri1"})
    @@ "pri3" :> At("price", "return", {})

\* SSA operations: node, kind, reads, lvalue.
NoArgs == [p \in MCName |-> MCNoVar]
Ssa(n, kind, reads, lval) ==
    [at |-> n, kind |-> kind, reads |-> reads, lval |-> lval, callee |-> MCNoFn,
     actual |-> NoArgs, stateWrite |-> FALSE, alias |-> FALSE]
Plain(n, reads, lval) == Ssa(n, "plain", reads, lval)
Phi(n, reads, lval) == Ssa(n, "phi", reads, lval)
Call(n, kind, f, actual, lval) ==
    [Ssa(n, kind, {actual[p] : p \in DOMAIN actual} \ {MCNoVar}, lval) EXCEPT
        !.callee = f, !.actual = actual @@ NoArgs]
StateWrite(n, reads, lval) == [Plain(n, reads, lval) EXCEPT !.stateWrite = TRUE]
StateMerge(n, reads, lval) == [Phi(n, reads, lval) EXCEPT !.stateWrite = TRUE]
Unresolved(n, reads, lval) == Ssa(n, "external", reads, lval)

VaultOps ==
       "two0w" :> Phi("two0", {}, "w1")
    @@ "two0t" :> StateMerge("two0", {"tot_sto", "tot_set"}, "tot_two")
    @@ "two1z" :> Plain("two1", {"w1", "tot_two"}, "z1")
    @@ "two2c" :> Call("two2", "internal", "one", "v" :> "w1" @@ "k" :> "z1", MCNoVar)
    @@ "one0v" :> Phi("one0", {"w1"}, "v1")
    @@ "one1i" :> Plain("one1", {"v1"}, MCNoVar)
    @@ "one2c" :> Call("one2", "internal", "store", "amt" :> "v1", MCNoVar)
    @@ "sto0a" :> Phi("sto0", {"v1"}, "amt1")
    @@ "sto1c" :> Call("sto1", "internal", "helper", "h" :> "amt1", "x1")
    @@ "sto2p" :> Phi("sto2", {"x1", "x3"}, "x2")
    @@ "sto2i" :> Plain("sto2", {"x2", "amt1"}, MCNoVar)
    @@ "sto3x" :> Plain("sto3", {"x2"}, "x3")
    @@ "sto4t" :> StateWrite("sto4", {"x2"}, "tot_sto")
    @@ "hel0h" :> Phi("hel0", {"amt1"}, "h1")
    @@ "hel0o" :> StateMerge("hel0", {"own_set"}, "own_hel")
    @@ "hel4s" :> StateWrite("hel4", {"h1"}, "seen1")
    @@ "hel2r" :> Plain("hel2", {"h1"}, MCNoVar)
    @@ "hel3r" :> Plain("hel3", {"h1", "own_hel"}, MCNoVar)
    @@ "syn0j" :> Phi("syn0", {}, "j1")
    @@ "syn1q" :> Call("syn1", "external", "price", "p" :> "j1", "q1")
    @@ "syn2c" :> Unresolved("syn2", {"q1"}, "ok1")
    @@ "syn2r" :> Plain("syn2", {"ok1"}, MCNoVar)
    @@ "syn3s" :> StateWrite("syn3", {"q1"}, "seen2")
    @@ "set0n" :> Phi("set0", {}, "n1")
    @@ "set1r" :> Plain("set1", {"n1", "own_set0"}, MCNoVar)
    @@ "set2o" :> StateWrite("set2", {"n1"}, "own_set")
    @@ "set3t" :> StateWrite("set3", {"n1"}, "tot_set")
    @@ "set4e" :> Plain("set4", {"own_set"}, MCNoVar)
    @@ "fac0r" :> Phi("fac0", {"tmp1"}, "r1")
    @@ "fac1i" :> Plain("fac1", {"r1"}, MCNoVar)
    @@ "fac2m" :> Plain("fac2", {"r1"}, "tmp1")
    @@ "fac2c" :> Call("fac2", "internal", "fact", "r" :> "tmp1", "tmp2")
    @@ "fac2r" :> Plain("fac2", {"tmp2"}, MCNoVar)
    @@ "own1c" :> Call("own1", "internal", "auth", "o" :> "own_mod", MCNoVar)
    @@ "aut0o" :> Phi("aut0", {"own_mod"}, "o1")
    @@ "aut1r" :> Plain("aut1", {"o1"}, MCNoVar)
    @@ "pri4w" :> [StateWrite("pri4", {"p1"}, "last1") EXCEPT !.alias = TRUE]
    @@ "pri1c" :> Call("pri1", "external", "price", "p" :> "p1", "ok2")
    @@ "pri1i" :> Plain("pri1", {"ok2", "p1"}, MCNoVar)
    @@ "pri2w" :> StateWrite("pri2", {"p1"}, "feed1")
    @@ "pri3p" :> Phi("pri3", {"feed1"}, "feed2")
    @@ "pri3r" :> Plain("pri3", {"feed2"}, MCNoVar)

VaultNames ==
       "w1" :> "w"    @@ "z1" :> "z"     @@ "v1" :> "v"    @@ "amt1" :> "amt"
    @@ "x1" :> "x"    @@ "x2" :> "x"     @@ "x3" :> "x"    @@ "h1" :> "h"
    @@ "q1" :> "q"    @@ "n1" :> "n"     @@ "r1" :> "r"    @@ "p1" :> "p"
    @@ "tmp1" :> "tmp" @@ "tmp2" :> "tmp"
    @@ "tot_two" :> "total"  @@ "tot_sto" :> "total"  @@ "tot_set" :> "total"
    @@ "own_hel" :> "owner"  @@ "own_set0" :> "owner" @@ "own_set" :> "owner"
    @@ "own_mod" :> "owner"  @@ "feed1" :> "feed"    @@ "feed2" :> "feed"
    @@ "j1" :> "j"    @@ "seen2" :> "seen" @@ "ok1" :> "ok"  @@ "ok2" :> "ok"
    @@ "seen1" :> "seen" @@ "last1" :> "last" @@ "o1" :> "o"

VaultHomes ==
       "w1" :> "two"  @@ "z1" :> "two"   @@ "v1" :> "one"  @@ "amt1" :> "store"
    @@ "x1" :> "store" @@ "x2" :> "store" @@ "x3" :> "store" @@ "h1" :> "helper"
    @@ "q1" :> "sync" @@ "n1" :> "setOwner" @@ "r1" :> "fact" @@ "p1" :> "price"
    @@ "tmp1" :> "fact" @@ "tmp2" :> "fact"
    @@ "tot_two" :> "two"  @@ "tot_sto" :> "store" @@ "tot_set" :> "setOwner"
    @@ "own_hel" :> "helper" @@ "own_set0" :> "setOwner" @@ "own_set" :> "setOwner"
    @@ "own_mod" :> "onlyOwner" @@ "feed1" :> "price" @@ "feed2" :> "price"
    @@ "j1" :> "sync" @@ "seen2" :> "sync" @@ "ok1" :> "sync" @@ "ok2" :> "price"
    @@ "seen1" :> "helper" @@ "last1" :> "price" @@ "o1" :> "auth"

Function(formals) == [formals |-> formals, modifiers |-> {}, inScope |-> TRUE]

VaultFns ==
       "two" :> [Function({"w"}) EXCEPT !.modifiers = {"onlyOwner"}]
    @@ "one" :> Function({"v", "k"})     @@ "store" :> Function({"amt"})
    @@ "helper" :> Function({"h"})       @@ "setOwner" :> Function({"n"})
    @@ "fact" :> Function({"r"})         @@ "onlyOwner" :> Function({})
    @@ "auth" :> Function({"o"})         @@ "sync" :> Function({"j"})
    @@ "price" :> [Function({"p"}) EXCEPT !.inScope = FALSE]

MCNode == DOMAIN VaultNodes
MCOp == DOMAIN VaultOps
MCVar == DOMAIN VaultNames

Vault == [node |-> VaultNodes, op |-> VaultOps, fn |-> VaultFns,
          name |-> VaultNames, home |-> VaultHomes]

-----------------------------------------------------------------------------
(***************************************************************************)
(* A second, smaller contract.                                             *)
(*                                                                         *)
(*   function rename(m) external { owner = m; check(owner); }              *)
(*   function check(a) internal { require(a == owner); }                   *)
(*   function sum(b) external returns (s) {                                *)
(*       n = b; while (i++ < n) { s = s + i; } return s; }                 *)
(*   function levy(q) external {                                           *)
(*       total = rate(q); total = total + 1; x = total; }                  *)
(*   function rate(h) internal returns (..) { return h; }                  *)
(*                                                                         *)
(* Slither merges, at the entry of check, the instances of `owner' that    *)
(* other functions leave behind: own_chk = phi(own_ren).                   *)
(***************************************************************************)
SmallFn == {"rename", "check", "sum", "levy", "rate"}
SmallStateVar == {"owner", "total"}

SmallNodes ==
       "ren0" :> At("rename", "entrypoint", {})
    @@ "ren1" :> Touching(At("rename", "other", {}), {}, {"owner"})
    @@ "ren2" :> Touching(At("rename", "other", {}), {"owner"}, {})
    @@ "chk0" :> At("check", "entrypoint", {})
    @@ "chk1" :> Touching(At("check", "other", {}), {"owner"}, {})
    @@ "sum0" :> At("sum", "entrypoint", {})
    @@ "sum1" :> At("sum", "other", {})
    @@ "sum2" :> Branch("sum", {})
    @@ "sum3" :> At("sum", "other", {"sum2"})
    @@ "sum4" :> At("sum", "return", {})
    @@ "lev0" :> At("levy", "entrypoint", {})
    @@ "lev1" :> Touching(At("levy", "other", {}), {}, {"total"})
    @@ "lev2" :> Touching(At("levy", "other", {}), {"total"}, {"total"})
    @@ "lev3" :> Touching(At("levy", "other", {}), {"total"}, {})
    @@ "rat0" :> At("rate", "entrypoint", {})
    @@ "rat1" :> At("rate", "return", {})

SmallOps ==
       "ren0m" :> Phi("ren0", {}, "m1")
    @@ "ren1o" :> StateWrite("ren1", {"m1"}, "own_ren")
    @@ "ren2c" :> Call("ren2", "internal", "check", "a" :> "own_ren", MCNoVar)
    @@ "chk0a" :> Phi("chk0", {"own_ren"}, "a1")
    @@ "chk0o" :> StateMerge("chk0", {"own_ren"}, "own_chk")
    @@ "chk1r" :> Plain("chk1", {"a1", "own_chk"}, MCNoVar)
    @@ "sum0b" :> Phi("sum0", {}, "b1")
    @@ "sum1n" :> Plain("sum1", {"b1"}, "n1")
    @@ "sum2p" :> Phi("sum2", {"i2"}, "i1")
    @@ "sum2q" :> Phi("sum2", {"s2"}, "s1")
    @@ "sum2i" :> Plain("sum2", {"i1"}, "i2")
    @@ "sum2c" :> Plain("sum2", {"i1", "n1"}, MCNoVar)
    @@ "sum3s" :> Plain("sum3", {"s1", "i2"}, "s2")
    @@ "sum4r" :> Plain("sum4", {"s1"}, MCNoVar)
    @@ "lev0q" :> Phi("lev0", {}, "q1")
    @@ "lev1c" :> Call("lev1", "internal", "rate", "h" :> "q1", "tmp1")
    @@ "lev1t" :> StateWrite("lev1", {"tmp1"}, "tot1")
    @@ "lev2t" :> StateWrite("lev2", {"tot1"}, "tot2")
    @@ "lev3x" :> Plain("lev3", {"tot2"}, "x1")
    @@ "rat0h" :> Phi("rat0", {"q1"}, "h1")
    @@ "rat1r" :> Plain("rat1", {"h1"}, MCNoVar)

SmallNames ==
       "m1" :> "m" @@ "own_ren" :> "owner" @@ "a1" :> "a" @@ "own_chk" :> "owner"
    @@ "b1" :> "b" @@ "n1" :> "n" @@ "i1" :> "i" @@ "i2" :> "i"
    @@ "s1" :> "s" @@ "s2" :> "s" @@ "q1" :> "q" @@ "h1" :> "h" @@ "tmp1" :> "tmp"
    @@ "tot1" :> "total" @@ "tot2" :> "total" @@ "x1" :> "x"

SmallHomes ==
       "m1" :> "rename" @@ "own_ren" :> "rename" @@ "a1" :> "check"
    @@ "own_chk" :> "check" @@ "b1" :> "sum" @@ "n1" :> "sum" @@ "i1" :> "sum"
    @@ "i2" :> "sum" @@ "s1" :> "sum" @@ "s2" :> "sum" @@ "q1" :> "levy"
    @@ "tmp1" :> "levy" @@ "tot1" :> "levy" @@ "tot2" :> "levy" @@ "x1" :> "levy"
    @@ "h1" :> "rate"

SmallFns == "rename" :> Function({"m"}) @@ "check" :> Function({"a"})
              @@ "sum" :> Function({"b"}) @@ "levy" :> Function({"q"})
              @@ "rate" :> Function({"h"})

SmallNode == DOMAIN SmallNodes
SmallOp == DOMAIN SmallOps
SmallVar == DOMAIN SmallNames

Small == [node |-> SmallNodes, op |-> SmallOps, fn |-> SmallFns,
          name |-> SmallNames, home |-> SmallHomes]

-----------------------------------------------------------------------------
(***************************************************************************)
(* A third, for what a forward slice leaves out.                           *)
(*                                                                         *)
(*   modifier limited { require(below(cap)); _; }                          *)
(*   function below(t) internal returns (bool) {                           *)
(*       lim = base * 2; ok = t < lim; return ok; }                        *)
(*   function push(a) external limited {                                   *)
(*       require(below(a) && tx.origin == msg.sender);                     *)
(*       b = a + 1; oracle.set(a, b); }                                    *)
(*   function enter(z) external limited { e = z + 1; gate(z, e); }         *)
(*   function gate(g, y) internal {                                        *)
(*       require(g == msg.sender);                                         *)
(*       if (y > 0) { fees = y + g; } gate(g, g); }                        *)
(*   function only(k) external {                                           *)
(*       if (below(k)) { x = k; if (x != msg.sender) revert(); cap = x; } } *)
(*   function mix(u) external {                                            *)
(*       i = 0; if (u > 0) { emit Put(u, i++); } total = i; }              *)
(*   modifier owned { auth(); _; }                                         *)
(*   function auth() internal { require(msg.sender == chief); }            *)
(*   function pay(q) external owned {                                      *)
(*       if (q > 0) { s = base; if (s > 0) { fees = 1; } } total = fees; } *)
(*   oracle: function set(c, d) external { last = c; feed = d; }           *)
(***************************************************************************)
RelayFn == {"limited", "below", "push", "enter", "gate", "mix", "pay", "only", "set",
            "owned", "auth"}
RelayStateVar == {"cap", "base", "fees", "total", "chief"}

RelayNodes ==
       "lim0" :> At("limited", "entrypoint", {})
    @@ "lim1" :> Touching(At("limited", "other", {}), {"cap"}, {})
    @@ "lim2" :> At("limited", "placeholder", {"lim1"})
    @@ "bel0" :> At("below", "entrypoint", {})
    @@ "bel1" :> Touching(At("below", "other", {}), {"base"}, {})
    @@ "bel2" :> At("below", "other", {})
    @@ "bel3" :> At("below", "return", {})
    @@ "pus0" :> At("push", "entrypoint", {})
    @@ "pus1" :> At("push", "other", {})
    @@ "pus2" :> At("push", "other", {"pus1"})
    @@ "pus3" :> At("push", "other", {"pus1"})
    @@ "ent0" :> At("enter", "entrypoint", {})
    @@ "ent1" :> At("enter", "other", {})
    @@ "ent2" :> At("enter", "other", {})
    @@ "own1" :> At("owned", "other", {})
    @@ "own2" :> At("owned", "placeholder", {})
    @@ "aut0" :> At("auth", "entrypoint", {})
    @@ "aut1" :> Touching(At("auth", "other", {}), {"chief"}, {})
    @@ "gat0" :> At("gate", "entrypoint", {})
    @@ "gat1" :> At("gate", "other", {})
    @@ "gat2" :> Branch("gate", {"gat1"})
    @@ "gat3" :> Touching(At("gate", "other", {"gat2"}), {}, {"fees"})
    @@ "gat4" :> At("gate", "other", {"gat1"})
    @@ "mix0" :> At("mix", "entrypoint", {})
    @@ "mix1" :> At("mix", "other", {})
    @@ "mix2" :> Branch("mix", {})
    @@ "mix3" :> At("mix", "other", {"mix2"})
    @@ "mix4" :> Touching(At("mix", "other", {}), {}, {"total"})
    @@ "pay0" :> At("pay", "entrypoint", {})
    @@ "pay1" :> Branch("pay", {})
    @@ "pay2" :> Touching(At("pay", "other", {"pay1"}), {"base"}, {})
    @@ "pay3" :> Branch("pay", {"pay1"})
    @@ "pay4" :> Touching(At("pay", "other", {"pay3"}), {}, {"fees"})
    @@ "pay5" :> Touching(At("pay", "other", {}), {"fees"}, {"total"})
    @@ "onl0" :> At("only", "entrypoint", {})
    @@ "onl1" :> Branch("only", {})
    @@ "onl2" :> At("only", "other", {"onl1"})
    @@ "onl3" :> Branch("only", {"onl1"})
    @@ "onl4" :> At("only", "other", {"onl3"})
    @@ "onl5" :> Touching(At("only", "other", {"onl3"}), {}, {"cap"})
    @@ "set0" :> At("set", "entrypoint", {})
    @@ "set1" :> At("set", "other", {})
    @@ "set2" :> At("set", "other", {})

RelayOps ==
       "lim0c" :> StateMerge("lim0", {"cap1"}, "cap_lim")
    @@ "lim1c" :> Call("lim1", "internal", "below", "t" :> "cap_lim", "tmp1")
    @@ "lim1r" :> Plain("lim1", {"tmp1"}, MCNoVar)
    @@ "bel0t" :> Phi("bel0", {"cap_lim", "a1", "k1"}, "t1")
    @@ "bel1l" :> Plain("bel1", {"base_bel"}, "lim1")
    @@ "bel2o" :> Plain("bel2", {"t1", "lim1"}, "ok1")
    @@ "bel3r" :> Plain("bel3", {"ok1"}, MCNoVar)
    @@ "pus0a" :> Phi("pus0", {}, "a1")
    @@ "pus1c" :> Call("pus1", "internal", "below", "t" :> "a1", "tmp3")
    @@ "pus1r" :> Plain("pus1", {"tmp3"}, MCNoVar)
    @@ "pus2b" :> Plain("pus2", {"a1"}, "b1")
    @@ "pus3s" :> Call("pus3", "external", "set", "c" :> "a1" @@ "d" :> "b1", MCNoVar)
    @@ "ent0z" :> Phi("ent0", {}, "z1")
    @@ "ent1e" :> Plain("ent1", {"z1"}, "e1")
    @@ "ent2c" :> Call("ent2", "internal", "gate", "g" :> "z1" @@ "y" :> "e1", MCNoVar)
    @@ "own1c" :> Call("own1", "internal", "auth", NoArgs, MCNoVar)
    @@ "aut1r" :> Plain("aut1", {"chi_aut"}, MCNoVar)
    @@ "gat0g" :> Phi("gat0", {"z1", "g1"}, "g1")
    @@ "gat0y" :> Phi("gat0", {"e1", "g1"}, "y1")
    @@ "gat1r" :> Plain("gat1", {"g1"}, MCNoVar)
    @@ "gat2i" :> Plain("gat2", {"y1"}, MCNoVar)
    @@ "gat3f" :> StateWrite("gat3", {"y1", "g1"}, "fees1")
    @@ "gat4c" :> Call("gat4", "internal", "gate", "g" :> "g1" @@ "y" :> "g1", MCNoVar)
    @@ "mix0u" :> Phi("mix0", {}, "u1")
    @@ "mix1i" :> Plain("mix1", {}, "i1")
    @@ "mix2i" :> Plain("mix2", {"u1"}, MCNoVar)
    @@ "mix3i" :> Plain("mix3", {"i1"}, "i2")
    @@ "mix3e" :> Plain("mix3", {"u1", "i1"}, MCNoVar)
    @@ "mix4p" :> Phi("mix4", {"i1", "i2"}, "i3")
    @@ "mix4t" :> StateWrite("mix4", {"i3"}, "tot_mix")
    @@ "pay0q" :> Phi("pay0", {}, "q1")
    @@ "pay1i" :> Plain("pay1", {"q1"}, MCNoVar)
    @@ "pay2s" :> Plain("pay2", {"base_pay"}, "s1")
    @@ "pay3i" :> Plain("pay3", {"s1"}, MCNoVar)
    @@ "pay4f" :> StateWrite("pay4", {}, "fees2")
    @@ "pay5p" :> Phi("pay5", {"fees_pay", "fees2"}, "fees3")
    @@ "pay5t" :> StateWrite("pay5", {"fees3"}, "tot_pay")
    @@ "onl0k" :> Phi("onl0", {}, "k1")
    @@ "onl1c" :> Call("onl1", "internal", "below", "t" :> "k1", "tmp4")
    @@ "onl1i" :> Plain("onl1", {"tmp4"}, MCNoVar)
    @@ "onl2x" :> Plain("onl2", {"k1"}, "x1")
    @@ "onl3i" :> Plain("onl3", {"x1"}, MCNoVar)
    @@ "onl5w" :> StateWrite("onl5", {"x1"}, "cap1")
    @@ "set0c" :> Phi("set0", {}, "c1")
    @@ "set0d" :> Phi("set0", {}, "d1")
    @@ "set1l" :> StateWrite("set1", {"c1"}, "last1")
    @@ "set2f" :> StateWrite("set2", {"d1"}, "feed1")

RelayNames ==
       "cap_lim" :> "cap" @@ "tmp1" :> "tmp" @@ "ok1" :> "ok" @@ "tmp3" :> "tmp"
    @@ "t1" :> "t" @@ "lim1" :> "lim" @@ "base_bel" :> "base" @@ "a1" :> "a"
    @@ "b1" :> "b" @@ "g1" :> "g" @@ "y1" :> "y" @@ "fees1" :> "fees"
    @@ "u1" :> "u" @@ "i1" :> "i" @@ "i2" :> "i" @@ "i3" :> "i"
    @@ "tot_mix" :> "total" @@ "c1" :> "c" @@ "d1" :> "d" @@ "last1" :> "last"
    @@ "feed1" :> "feed" @@ "q1" :> "q" @@ "base_pay" :> "base" @@ "s1" :> "s"
    @@ "fees2" :> "fees" @@ "fees_pay" :> "fees" @@ "fees3" :> "fees"
    @@ "tot_pay" :> "total" @@ "k1" :> "k" @@ "tmp4" :> "tmp" @@ "x1" :> "x"
    @@ "cap1" :> "cap" @@ "z1" :> "z" @@ "e1" :> "e"
    @@ "chi_aut" :> "chief"

RelayHomes ==
       "cap_lim" :> "limited" @@ "tmp1" :> "limited" @@ "ok1" :> "below"
    @@ "tmp3" :> "push" @@ "t1" :> "below" @@ "lim1" :> "below"
    @@ "base_bel" :> "below" @@ "a1" :> "push" @@ "b1" :> "push" @@ "g1" :> "gate"
    @@ "y1" :> "gate" @@ "fees1" :> "gate" @@ "u1" :> "mix" @@ "i1" :> "mix"
    @@ "i2" :> "mix" @@ "i3" :> "mix" @@ "tot_mix" :> "mix" @@ "c1" :> "set"
    @@ "d1" :> "set" @@ "last1" :> "set" @@ "feed1" :> "set"
    @@ "q1" :> "pay" @@ "base_pay" :> "pay" @@ "s1" :> "pay" @@ "fees2" :> "pay"
    @@ "fees_pay" :> "pay" @@ "fees3" :> "pay" @@ "tot_pay" :> "pay"
    @@ "k1" :> "only" @@ "tmp4" :> "only" @@ "x1" :> "only" @@ "cap1" :> "only"
    @@ "z1" :> "enter" @@ "e1" :> "enter" @@ "chi_aut" :> "auth"

RelayFns ==
       "limited" :> Function({}) @@ "below" :> Function({"t"})
    @@ "push" :> [Function({"a"}) EXCEPT !.modifiers = {"limited"}]
    @@ "enter" :> [Function({"z"}) EXCEPT !.modifiers = {"limited"}]
    @@ "owned" :> Function({}) @@ "auth" :> Function({})
    @@ "gate" :> Function({"g", "y"}) @@ "mix" :> Function({"u"})
    @@ "pay" :> [Function({"q"}) EXCEPT !.modifiers = {"owned"}] @@ "only" :> Function({"k"})
    @@ "set" :> [Function({"c", "d"}) EXCEPT !.inScope = FALSE]

RelayNode == DOMAIN RelayNodes
RelayOp == DOMAIN RelayOps
RelayVar == DOMAIN RelayNames

Relay == [node |-> RelayNodes, op |-> RelayOps, fn |-> RelayFns,
          name |-> RelayNames, home |-> RelayHomes]

\* What the nodes do besides: `require', `revert' and msg.sender.
RelayChecks ==
    [n \in RelayNode |->
        [requires       |-> n \in {"lim1", "pus1", "gat1", "aut1"},
         isIf           |-> n \in {"gat2", "mix2", "pay1", "pay3", "onl1", "onl3"},
         aborts         |-> n \in {"lim1", "pus1", "gat1", "aut1", "onl4"},
         sons           |-> IF n = "onl3" THEN {"onl4", "onl5"}
                            ELSE IF n = "onl1" THEN {"onl2"} ELSE {},
         comparesCaller |-> n \in {"pus1", "gat1", "onl3", "aut1"},
         listsCaller    |-> FALSE,
         asksChecker    |-> FALSE,
         readsCaller    |-> n \in {"pus1", "gat1", "onl3", "aut1"}]]
=============================================================================
