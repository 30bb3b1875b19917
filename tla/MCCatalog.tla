------------------------------ MODULE MCCatalog ------------------------------
(***************************************************************************)
(* Small instances of the version graph, the registries, and the creation  *)
(* of tasks over both.  The graph and the registries share no state, so    *)
(* each is explored by itself from the empty database; the creation of     *)
(* tasks starts with one project and registries in place.                  *)
(***************************************************************************)
EXTENDS TaskCreation, TLC

VARIABLE focus  \* which of the three this behaviour explores

catalogVars == <<creationVars, focus>>

Short == <<"from", "run">>
Long == <<"from", "copy", "cmd">>
ContentSet == {Short, Long, <<"run">>}

Input(pull, push, dpull, dpush, secret) ==
    [pull |-> pull, push |-> push, defaultPull |-> dpull, defaultPush |-> dpush,
     secret |-> secret]

\* Both defaults with a password, no default, and a default the registry does
\* not allow.
Everything == Input(TRUE, TRUE, TRUE, TRUE, TRUE)
PullOnly == Input(TRUE, FALSE, FALSE, FALSE, FALSE)
InputSet == {Everything, PullOnly, Input(TRUE, FALSE, FALSE, TRUE, FALSE)}

\* Which unused identifier a row gets does not matter: the instances use numbers
\* and give them out in order.
Prefix(S) == \A x \in S : \A y \in 1..x : y \in S
InOrder == /\ Prefix({p \in Projects : FindProject(p)})
           /\ Prefix({b \in Branches : branch[b].status # "absent"})
           /\ Prefix({n \in Nodes : node[n].status # "absent"})
           /\ Prefix({r \in Registries : registry[r].exists \/ \E a \in Admins :
                                            saving[a].step = "insert" /\ saving[a].id = r})
           /\ Prefix(credential)
           /\ Prefix({t \in Builds : task[t].exists})

\* Contents are told apart by DiffNodes alone: only the first node changes its own.
FewContents == /\ \A n \in Nodes \ {1} : node[n].file \in {None, Short}
               /\ \A c \in Maintainers : viewing[c].step = "insert" => viewing[c].file = Short

\* A state of a running system: a project with its root node, a registry that is
\* both defaults, and one the project names as its own.
Seeded ==
    LET row == [NoRegistry EXCEPT !.exists = TRUE, !.pull = TRUE, !.push = TRUE]
    IN /\ project = [p \in Projects |->
                       IF p = 1 THEN [status |-> "active", latest |-> 1, registry |-> 2] ELSE NoProject]
       /\ branch = [b \in Branches |->
                      IF b = 1 THEN [status |-> "active", project |-> 1, start |-> 1, head |-> 1]
                      ELSE NoBranch]
       /\ node = [n \in Nodes |->
                    IF n = 1 THEN [status |-> "active", project |-> 1, branch |-> 1, parent |-> None,
                                   file |-> Short, hash |-> Hash(Short), at |-> 1]
                    ELSE NoNode]
       /\ inserted = 1
       /\ viewing = [c \in Maintainers |-> Idle]
       /\ registry = [r \in Registries |->
                        CASE r = 1 -> [row EXCEPT !.defaultPull = TRUE, !.defaultPush = TRUE]
                          [] r = 2 -> [row EXCEPT !.at = 1]
                          [] OTHER -> NoRegistry]
       /\ credential = {}
       /\ saving = [a \in Admins |-> Resting]
       /\ torn = FALSE

\* What maintainers and administrators do while tasks are created: the changes
\* of rows that the requests look up.
Meanwhile ==
    \/ /\ \/ \E p \in Projects : ArchiveProject(p)
          \/ \E p \in Projects, n \in Nodes : UpdateNode(p, n, Long, "archived")
       /\ UNCHANGED <<registryVars, taskVars, asking>>
    \/ /\ \E r \in Registries : SetStatus(r, "disabled") \/ DeleteRegistry(r)
       /\ UNCHANGED <<graphVars, taskVars, asking>>

CatalogInit == /\ TaskInit
               /\ \/ focus \in {"graph", "registries"} /\ GraphInit /\ RegistryInit
                  \/ focus = "tasks" /\ Seeded

CatalogNext ==
    /\ \/ /\ focus = "graph"
          /\ GraphNext /\ FewContents'
          /\ UNCHANGED <<registryVars, taskVars, asking>>
       \/ /\ focus = "registries"
          /\ ~torn /\ RegistryNext
          /\ UNCHANGED <<graphVars, taskVars, asking>>
       \/ focus = "tasks" /\ (TaskNext \/ Meanwhile)
    /\ InOrder'
    /\ UNCHANGED focus

CatalogSpec == CatalogInit /\ [][CatalogNext]_catalogVars

CatalogPerms == Permutations(Maintainers) \union Permutations(Admins)

=============================================================================
