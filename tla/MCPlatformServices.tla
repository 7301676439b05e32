-------------------------- MODULE MCPlatformServices --------------------------
(* Model-checking instance of PlatformServices.  The services share the tasks   *)
(* a1, a2, a3, so that one small symmetry serves them all.                       *)
EXTENDS PlatformServices, TLC

CONSTANTS a1, a2, a3, b1, b2, bundle, thing, admin, q1, q2, c1, c2, d1

MCTasks == {a1, a2}
MCNames == {b1, b2}
MCTimes == 0 .. 1

\* The history: two readers with different windows, two generations.
MCReaders      == {q1, q2}
MCCoordinators == {c1, c2}
MCMessages     == 1 .. 2
MCHome  == [x \in MCReaders \cup MCMessages |-> IF x = q1 \/ x = 1 THEN c1 ELSE c2]
MCLimit == [r \in MCReaders |-> IF r = q1 THEN 2 ELSE 1]

\* Both requests belong to one user.
MCUserOf == [r \in MCTasks |-> 1]

\* Tool 3 needs tool 1; tools 1 and 2 may run side by side.
MCRoundTools == 1 .. 3
MCGraphs == [needs : {{<<3, 1>>}}, beside : {{{1, 2}}}]

MCCalled  == [tool : {"n"}, args : {1, 2}] \cup [tool : {"p", "r", "s"}, args : {1}]
MCRouteOf == "n" :> "plugin" @@ "p" :> "protocol" @@ "r" :> "read" @@ "s" :> "read"

\* A plugin that needs a custom tool that needs an MCP tool and the search; both
\* its features are hidden.
MCToolNames == {"n", "c", "m", "p", "w"}
MCNothing   == [x \in MCToolNames |-> {}]
MCRow(n, hidden) == [of |-> n, hidden |-> hidden]
MCInventory ==
  [plugins |-> {"n"}, registered |-> {"c"}, file |-> {}, generated |-> {}, mcp |-> {"m"},
   super |-> {"c"}, mutating |-> {"n", "m"}, extra |-> MCNothing,
   needs |-> [MCNothing EXCEPT !["n"] = {"c"}, !["c"] = {"m", "w"}],
   rows |-> <<MCRow("n", TRUE), MCRow("n", TRUE), MCRow("c", FALSE), MCRow("m", FALSE),
              MCRow("p", FALSE), MCRow("w", FALSE)>>]
MCInventories == <<MCInventory, [MCInventory EXCEPT !.file = {"c"}]>>
MCSelectors   == [c |-> {"c"}]
MCSettings ==
  {[tools |-> TRUE, search |-> TRUE, barred |-> {}, residents |-> {"w"}, cutover |-> TRUE],
   [tools |-> FALSE, search |-> FALSE, barred |-> {"c"}, residents |-> {}, cutover |-> FALSE]}
MCSelections ==
  {[names |-> {"p", "c", "bogus"}, able |-> TRUE], [names |-> {"m"}, able |-> FALSE]}
MCProfiles ==
  {[super |-> FALSE, scope |-> [of |-> "u", tools |-> {"p"}], suppressed |-> {"p"}],
   [super |-> TRUE, scope |-> [of |-> "v", tools |-> {"p"}], suppressed |-> {}]}

\* One model for each of three skills; the middle one is degraded.
MCModels == 1 .. 3
MCAbout ==
  <<[caps |-> {"json", "tools"}, fits |-> TRUE, up |-> "available", quality |-> 1,
     latency |-> 1, cost |-> 2, trusted |-> TRUE],
    [caps |-> {"json", "vision"}, fits |-> TRUE, up |-> "degraded", quality |-> 2,
     latency |-> 1, cost |-> 1, trusted |-> TRUE],
    [caps |-> {"json", "tools", "vision"}, fits |-> TRUE, up |-> "available", quality |-> 2,
     latency |-> 2, cost |-> 3, trusted |-> TRUE]>>
MCLists == {{1, 2}, {1, 2, 3}}
MCFiles ==
  {[roles |-> [selected |-> 1, category |-> 2, vision |-> 3, moe |-> 2],
    moe |-> TRUE, tools |-> TRUE, degraded |-> TRUE, mode |-> m] :
     m \in {"off", "fixed_only", "fixed_preferred", "capability"}}

MCRuns == {a1, a2, a3}
MCTool(how, mutating, caps, generated) ==
  [how |-> how, mutating |-> mutating, caps |-> caps, generated |-> generated]
MCGenerated == MCTool("isolated", TRUE, {}, TRUE)
MCProgram   == MCTool("isolated", FALSE, {"process", "host_filesystem"}, FALSE)
\* Three calls for the one slot, and the other ways to be executed beside one.
MCLoads ==
  {[r \in MCRuns |-> IF r = a3 THEN MCProgram ELSE MCGenerated]} \cup
  {[r \in MCRuns |-> IF r = a3 THEN MCGenerated ELSE MCTool("thread", m[r], {}, FALSE)] :
     m \in [MCTasks -> BOOLEAN]} \cup
  {[r \in MCRuns |-> IF r = a3 THEN MCTool("await", TRUE, {}, FALSE) ELSE MCProgram]}

MCSymmetry == Permutations(MCTasks)
=============================================================================
