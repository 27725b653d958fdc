------------------------------ MODULE MCAgentRun ------------------------------
(***************************************************************************)
(* A contract with two state variables over three versions: a proxy that   *)
(* writes `total' in two functions and guards a delegatecall with it.  The *)
(* first edit moves one of the writes into a new function, and the second  *)
(* leaves sources that do not compile.                                     *)
(***************************************************************************)
EXTENDS AgentRunProperties

MCNodeId == {"init", "add", "move", "exec", "guard"}
MCName == {"total", "owner", "nonsense"}
MCSynthetic == {"init"}

Slices == [n \in MCNodeId |->
              IF n = "exec" THEN {"exec", "guard"}
              ELSE IF n = "guard" THEN {"guard", "exec"} ELSE {n}]

Before == [compiles |-> TRUE, declared |-> {"total", "owner"},
           nodes |-> {"init", "add", "exec", "guard"}, sites |-> {"exec"},
           slice |-> Slices,
           writers |-> [x \in MCName |-> IF x = "total" THEN {"init", "add", "exec"} ELSE {}],
           readers |-> [x \in MCName |-> IF x = "total" THEN {"guard"} ELSE {}]]

After == [Before EXCEPT !.nodes = MCNodeId \ {"add"}, !.writers["total"] = {"move", "exec"}]

Broken == [compiles |-> FALSE, declared |-> {}, nodes |-> {}, sites |-> {},
           slice |-> [n \in MCNodeId |-> {}],
           writers |-> [x \in MCName |-> {}], readers |-> [x \in MCName |-> {}]]

MCVersion == 0..2
MCEngine == [v \in MCVersion |-> CASE v = 0 -> Before [] v = 1 -> After [] v = 2 -> Broken]

Reply(status, dispositions, cited) ==
    [form |-> "verdict", status |-> status, dispositions |-> dispositions, cited |-> cited]

Each(N, d) == {<<n, d>> : n \in N}

\* All writers of either version, one too few, one too many, one of them twice,
\* none at all; evidence inside and outside of what the versions have.
MCReplies ==
    {Reply("checked", Each({"add", "exec"}, "holds"), {}),
     Reply("checked", Each({"add", "exec"}, "holds"), {"add", "guard"}),
     Reply("partial", Each({"add", "exec"}, "violates"), {"exec", "move"}),
     Reply("checked", Each({"add", "exec"}, "holds") \cup Each({"add"}, "violates"), {"exec"}),
     Reply("checked", Each({"move", "exec"}, "underconstrained"), {"move"}),
     Reply("checked", Each({"exec"}, "holds"), {}),
     Reply("checked", Each({"add", "exec", "guard"}, "holds"), {}),
     Reply("invariant-unknown", {}, {}),
     Reply("invariant-unknown", {}, {"add"}),
     Reply("resolved", {}, {"exec"}),
     Reply("unresolved", {}, {})}
=============================================================================
