---------------------------- MODULE MCTaskQueue ----------------------------
(* Small instances of TaskQueue: four task objects of three IDs and two      *)
(* roles.  a2 is a second object of a1's ID (a resumed task); b depends on a, *)
(* and so does c.  MaxDone = 2 makes the third completion evict the oldest ID. *)
EXTENDS TaskQueue

CONSTANTS a1, a2, b, c, A, B, C, arch, code

MCTasks  == {a1, a2, b, c}
MCIds    == {A, B, C}
MCRoles  == {arch, code}
MCIdOf   == [t \in MCTasks |-> CASE t \in {a1, a2} -> A [] t = b -> B [] t = c -> C]
MCRoleOf == [t \in MCTasks |-> IF t \in {a1, a2} THEN arch ELSE code]
MCPriOf  == [t \in MCTasks |-> IF t = c THEN 80 ELSE 50]
MCDepsOf == [t \in MCTasks |-> CASE t \in {a1, a2} -> {} [] t = b -> {A} [] t = c -> {A}]
=============================================================================
