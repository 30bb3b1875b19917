---------------------------- MODULE VersionGraph ----------------------------
(***************************************************************************)
(* Image projects and their version graph: the image_projects,             *)
(* image_branches and image_version_nodes rows and the requests of         *)
(* maintainers on them.                                                    *)
(*                                                                         *)
(* No row of the three tables is ever deleted, so a row that was found     *)
(* stays there: a lookup that only checks that a row exists is part of the *)
(* step that uses it.  A lookup whose content is used later, and every     *)
(* query of a request that makes several, is a step of its own.            *)
(***************************************************************************)
EXTENDS Naturals

CONSTANTS Projects, Branches, Nodes,  \* identifiers id.New may return
          Maintainers,                \* requests in flight at one time
          Dockerfiles,                \* contents: sequences of lines
          FromLines,                  \* the lines that are FROM instructions
          ProjectRegistries,          \* default registries a project may be given
          InputStatuses,              \* statuses a node may be given
          None

ASSUME NoneIsNoId == None \notin Projects \union Branches \union Nodes

VARIABLES
    project,  \* image_projects rows
    branch,   \* image_branches rows
    node,     \* image_version_nodes rows
    inserted, \* number of nodes inserted so far: the order of created_at
    viewing   \* what each request has read, until it is answered

graphRows == <<project, branch, node, inserted>>
graphVars == <<graphRows, viewing>>

RowStatuses == {"absent", "active", "archived"}
NodeStatuses == {"absent", "draft", "active", "archived"}

ASSUME StatusesAreValid == InputStatuses \subseteq NodeStatuses \ {"absent"}

Hash(f) == <<"sha256", f>>

\* The rows of the three tables, with what the requests tell apart.
ProjectRow == [status : RowStatuses, latest : Nodes \union {None},
               registry : ProjectRegistries \union {None}]
BranchRow == [status : RowStatuses, project : Projects \union {None},
              start : Nodes \union {None}, head : Nodes \union {None}]
NodeRow == [status : NodeStatuses, project : Projects \union {None},
            branch : Branches \union {None}, parent : Nodes \union {None},
            file : Dockerfiles \union {None}, hash : {Hash(f) : f \in Dockerfiles \union {None}},
            at : Nat]

NoProject == [status |-> "absent", latest |-> None, registry |-> None]
NoBranch == [status |-> "absent", project |-> None, start |-> None, head |-> None]
NoNode == [status |-> "absent", project |-> None, branch |-> None, parent |-> None,
           file |-> None, hash |-> Hash(None), at |-> 0]

Idle == [step |-> "idle"]

\* mutant: the row is looked up by its identifier alone
FindNodeAnywhere(p, n) == n \in Nodes /\ node[n].status # "absent"

\* FindNode: the row must be of the project the request names.
FindNode(p, n) == /\ n \in Nodes
                  /\ node[n].status # "absent"
                  /\ node[n].project = p

FindProject(p) == project[p].status # "absent"
FindBranch(p, b) == branch[b].status # "absent" /\ branch[b].project = p

NodesOf(p) == {n \in Nodes : FindNode(p, n)}
BranchesOf(p) == {b \in Branches : FindBranch(p, b)}

\* normalizeNodeInput: one line at least is a FROM instruction.
ValidDockerfile(f) == \E i \in DOMAIN f : f[i] \in FromLines

-----------------------------------------------------------------------------
(* Writes *)

\* insertNode
InsertNode(n, p, b, parent, f, s) ==
    /\ node[n].status = "absent"
    /\ node' = [node EXCEPT ![n] =
                  [status |-> s, project |-> p, branch |-> b, parent |-> parent,
                   file |-> f, hash |-> Hash(f), at |-> inserted + 1]]
    /\ inserted' = inserted + 1

\* insertBranch
InsertBranch(b, p, start, head) ==
    /\ branch[b].status = "absent"
    /\ branch' = [branch EXCEPT ![b] = [status |-> "active", project |-> p,
                                        start |-> start, head |-> head]]

\* updateBranchHead: the start node stays once it is set.
HeadMoved(row, start, head) == [row EXCEPT !.head = head,
                                           !.start = IF @ = None THEN start ELSE @]

\* CreateProjectWithInitial: the project, its main branch and its root node, in
\* one transaction.
CreateProjectWithInitial(p, b, n, f, r) ==
    /\ project[p].status = "absent"
    /\ branch[b].status = "absent"
    /\ InsertNode(n, p, b, None, f, "active")
    /\ branch' = [branch EXCEPT ![b] = HeadMoved([status |-> "active", project |-> p,
                                                  start |-> None, head |-> None], n, n)]
    /\ project' = [project EXCEPT ![p] = [status |-> "active", latest |-> n, registry |-> r]]

\* CreateProject: the content of the root node is FROM the root image.
CreateProject(p, b, n, f, r) == /\ ValidDockerfile(f)
                                /\ CreateProjectWithInitial(p, b, n, f, r)
                                /\ UNCHANGED viewing

\* mutant: the whole row is written, as normalizeProjectInput makes it
UpdateWholeRow(p, r) == project' = [project EXCEPT ![p].registry = r, ![p].status = "active"]

\* The UPDATE of UpdateProject writes neither the status nor the latest version.
UpdateProjectRow(p, r) == project' = [project EXCEPT ![p].registry = r]

\* The service copies both from the row it has read, to no effect.
UpdateProject(p, r) == /\ FindProject(p)
                       /\ UpdateProjectRow(p, r)
                       /\ UNCHANGED <<branch, node, inserted, viewing>>

ArchiveProject(p) == /\ FindProject(p)
                     /\ project' = [project EXCEPT ![p].status = "archived"]
                     /\ UNCHANGED <<branch, node, inserted, viewing>>

\* CreateBranch from any node of the project, archived or not.
CreateBranch(p, b, n) ==
    /\ FindProject(p)
    /\ FindNode(p, n)
    /\ InsertBranch(b, p, n, n)
    /\ UNCHANGED <<project, node, inserted, viewing>>

ArchiveBranch(p, b) == /\ FindBranch(p, b)
                       /\ branch' = [branch EXCEPT ![b].status = "archived"]
                       /\ UNCHANGED <<project, node, inserted, viewing>>

\* CreateNode reads the branch: the parent is the one the request names, else
\* the head of the branch at this time.  An archived branch is as good.
CreateNode(c, p, b, named, f) ==
    LET parent == IF named = None THEN branch[b].head ELSE named
    IN /\ viewing[c] = Idle
       /\ FindBranch(p, b)
       /\ ValidDockerfile(f)
       /\ FindNode(p, parent)
       /\ viewing' = [viewing EXCEPT ![c] = [step |-> "insert", project |-> p,
                                             branch |-> b, parent |-> parent, file |-> f]]
       /\ UNCHANGED graphRows

\* mutant: the head moves on the branch the parent is on
CreateNodeTxParentBranch(c, n, s) ==
    LET v == viewing[c]
    IN /\ v.step = "insert"
       /\ InsertNode(n, v.project, v.branch, v.parent, v.file, s)
       /\ branch' = [branch EXCEPT ![node[v.parent].branch] = HeadMoved(@, None, n)]
       /\ project' = [project EXCEPT ![v.project].latest = n]
       /\ viewing' = [viewing EXCEPT ![c] = Idle]

\* The transaction of Repository.CreateNode: the row, updateBranchHead and
\* updateProjectLatest.
CreateNodeTx(c, n, s) ==
    LET v == viewing[c]
    IN /\ v.step = "insert"
       /\ InsertNode(n, v.project, v.branch, v.parent, v.file, s)
       /\ branch' = [branch EXCEPT ![v.branch] = HeadMoved(@, None, n)]
       /\ project' = [project EXCEPT ![v.project].latest = n]
       /\ viewing' = [viewing EXCEPT ![c] = Idle]

\* mutant: the content is stored in place of its hash
UpdateNodeRowUnhashed(n, f, s) ==
    node' = [node EXCEPT ![n].file = f, ![n].hash = f, ![n].status = s]

\* The UPDATE of UpdateNode: content, hash and status in one statement.
UpdateNodeRow(n, f, s) ==
    node' = [node EXCEPT ![n].file = f, ![n].hash = Hash(f), ![n].status = s]

\* UpdateNode rewrites a node in place, built or not.
UpdateNode(p, n, f, s) == /\ FindNode(p, n)
                          /\ ValidDockerfile(f)
                          /\ UpdateNodeRow(n, f, s)
                          /\ UNCHANGED <<project, branch, inserted, viewing>>

-----------------------------------------------------------------------------
(* Reads: Graph *)

\* Graph finds the project ...
GraphProject(c, p) ==
    /\ viewing[c] = Idle
    /\ FindProject(p)
    /\ viewing' = [viewing EXCEPT ![c] = [step |-> "branches", project |-> p,
                                          latest |-> project[p].latest]]
    /\ UNCHANGED graphRows

\* ... lists its branches ...
GraphBranches(c) ==
    LET v == viewing[c]
    IN /\ v.step = "branches"
       /\ viewing' = [viewing EXCEPT ![c] =
            [step |-> "nodes", project |-> v.project, latest |-> v.latest,
             tips |-> UNION {{branch[b].start, branch[b].head} : b \in BranchesOf(v.project)}]]
       /\ UNCHANGED graphRows

\* mutant: the list is cut to a page, the oldest nodes first
GraphNodesPage(c) ==
    LET v == viewing[c]
        listed == {n \in NodesOf(v.project) : node[n].at <= 2}
    IN /\ v.step = "nodes"
       /\ viewing' = [viewing EXCEPT ![c] =
            [step |-> "graph", latest |-> v.latest, tips |-> v.tips, nodes |-> listed,
             edges |-> {<<node[n].parent, n>> : n \in {m \in listed : node[m].parent # None}}]]
       /\ UNCHANGED graphRows

\* ... then its nodes, here without a filter, and an edge to each from its parent.
GraphNodes(c) ==
    LET v == viewing[c]
        listed == NodesOf(v.project)
    IN /\ v.step = "nodes"
       /\ viewing' = [viewing EXCEPT ![c] =
            [step |-> "graph", latest |-> v.latest, tips |-> v.tips, nodes |-> listed,
             edges |-> {<<node[n].parent, n>> : n \in {m \in listed : node[m].parent # None}}]]
       /\ UNCHANGED graphRows

-----------------------------------------------------------------------------
(* Reads: DiffNodes *)

\* unifiedDiff compares line by line at the same position: the lines of the
\* result with their positions and their marks.
UnifiedDiff(l, r) ==
    LET same == {i \in DOMAIN l \intersect DOMAIN r : l[i] = r[i]}
    IN {<<i, " ", l[i]>> : i \in same}
         \union {<<i, "-", l[i]>> : i \in DOMAIN l \ same}
         \union {<<i, "+", r[i]>> : i \in DOMAIN r \ same}

\* DiffNodes reads the left node, then the right one.
DiffLeft(c, p, n) ==
    /\ viewing[c] = Idle
    /\ FindNode(p, n)
    /\ viewing' = [viewing EXCEPT ![c] = [step |-> "right", project |-> p,
                                          left |-> node[n].file]]
    /\ UNCHANGED graphRows

DiffRight(c, n) ==
    LET v == viewing[c]
    IN /\ v.step = "right"
       /\ FindNode(v.project, n)
       /\ viewing' = [viewing EXCEPT ![c] =
            [step |-> "diff", left |-> v.left, right |-> node[n].file,
             lines |-> UnifiedDiff(v.left, node[n].file)]]
       /\ UNCHANGED graphRows

\* The request is answered, or its client is gone.
Answer(c) == /\ viewing[c] # Idle
             /\ viewing' = [viewing EXCEPT ![c] = Idle]
             /\ UNCHANGED graphRows

-----------------------------------------------------------------------------

GraphInit == /\ project = [p \in Projects |-> NoProject]
             /\ branch = [b \in Branches |-> NoBranch]
             /\ node = [n \in Nodes |-> NoNode]
             /\ inserted = 0
             /\ viewing = [c \in Maintainers |-> Idle]

GraphWrite ==
    \/ \E p \in Projects, b \in Branches, n \in Nodes, f \in Dockerfiles :
          \E r \in ProjectRegistries : CreateProject(p, b, n, f, r)
    \/ \E p \in Projects, r \in ProjectRegistries : UpdateProject(p, r)
    \/ \E p \in Projects : ArchiveProject(p)
    \/ \E p \in Projects, b \in Branches : ArchiveBranch(p, b)
    \/ \E p \in Projects, b \in Branches, n \in Nodes : CreateBranch(p, b, n)
    \/ \E c \in Maintainers, p \in Projects, b \in Branches, f \in Dockerfiles :
          \E n \in Nodes \union {None} : CreateNode(c, p, b, n, f)
    \/ \E c \in Maintainers, n \in Nodes, s \in InputStatuses : CreateNodeTx(c, n, s)
    \/ \E p \in Projects, n \in Nodes, f \in Dockerfiles, s \in InputStatuses :
          UpdateNode(p, n, f, s)

GraphRead ==
    \/ \E c \in Maintainers, p \in Projects : GraphProject(c, p)
    \/ \E c \in Maintainers : GraphBranches(c) \/ GraphNodes(c) \/ Answer(c)
    \/ \E c \in Maintainers, p \in Projects, n \in Nodes : DiffLeft(c, p, n)
    \/ \E c \in Maintainers, n \in Nodes : DiffRight(c, n)

GraphNext == GraphWrite \/ GraphRead
GraphSpec == GraphInit /\ [][GraphNext]_graphVars

-----------------------------------------------------------------------------
(* Properties *)

GraphTypeOK == /\ project \in [Projects -> ProjectRow]
               /\ branch \in [Branches -> BranchRow]
               /\ node \in [Nodes -> NodeRow]
               /\ inserted \in Nat
               /\ DOMAIN viewing = Maintainers

\* The nodes without a parent: the root nodes CreateProject inserts.
Roots(p) == {n \in NodesOf(p) : node[n].parent = None}

\* Every version of a project descends from its one root by parents of the same
\* project, whatever requests create nodes at the same time: a set of nodes that
\* holds the root and the children of its members holds all (CreateNode's lookup
\* of the parent by project and node).
GraphConnected ==
    \A p \in Projects : FindProject(p) =>
        \E root \in NodesOf(p) :
            /\ Roots(p) = {root}
            /\ \A S \in SUBSET NodesOf(p) :
                 (root \in S /\ \A n \in NodesOf(p) : node[n].parent \in S => n \in S)
                     => S = NodesOf(p)

\* The head of a branch is the node inserted last on it, or its start while it
\* has none, and the latest version of a project is the node inserted last in
\* it, in whatever order the transactions of CreateNode commit (updateBranchHead
\* and updateProjectLatest).
HeadsAreLast ==
    /\ \A b \in Branches : branch[b].status # "absent" =>
          LET own == {n \in NodesOf(branch[b].project) : node[n].branch = b}
          IN IF own = {} THEN branch[b].head = branch[b].start
                         ELSE /\ branch[b].head \in own
                              /\ \A n \in own : node[n].at <= node[branch[b].head].at
    /\ \A p \in Projects : FindProject(p) =>
          /\ project[p].latest \in NodesOf(p)
          /\ \A n \in NodesOf(p) : node[n].at <= node[project[p].latest].at

\* A graph served while others write to it has no dangling reference: the
\* latest version, the start and the head of every branch and both ends of
\* every edge are among its nodes (the order of the three queries of Graph).
GraphIsClosed ==
    \A c \in Maintainers : viewing[c].step = "graph" =>
        /\ viewing[c].latest \in viewing[c].nodes
        /\ viewing[c].tips \subseteq viewing[c].nodes
        /\ viewing[c].edges \subseteq viewing[c].nodes \X viewing[c].nodes

Kept(lines, marks) == {<<l[1], l[3]>> : l \in {k \in lines : k[2] \in marks}}
Numbered(f) == {<<i, f[i]>> : i \in DOMAIN f}

\* The kept and removed lines of a diff are the left Dockerfile, the kept and
\* added ones the right (unifiedDiff).
DiffReconstructs ==
    \A c \in Maintainers : viewing[c].step = "diff" =>
        /\ Kept(viewing[c].lines, {" ", "-"}) = Numbered(viewing[c].left)
        /\ Kept(viewing[c].lines, {" ", "+"}) = Numbered(viewing[c].right)

\* What maintainers are served, the graph and the diff, fits together, though each
\* is read in several queries while others write (Graph, DiffNodes).
AnswersAreSound == GraphIsClosed /\ DiffReconstructs

\* Nothing brings an archived project or branch back: an update or a new node
\* that overlaps the archiving does not undo it (UpdateProject, updateBranchHead).
ArchiveIsFinal ==
    [][/\ \A p \in Projects : project[p].status = "archived" => project'[p].status = "archived"
       /\ \A b \in Branches : branch[b].status = "archived" => branch'[b].status = "archived"]_graphVars

=============================================================================
