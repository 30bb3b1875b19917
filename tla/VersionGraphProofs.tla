-------------------------- MODULE VersionGraphProofs --------------------------
(***************************************************************************)
(* The version graph stays in one piece, for any number of projects,       *)
(* branches, nodes and requests: every version descends from its root,     *)
(* heads are the newest, and what is served fits together.                 *)
(***************************************************************************)
EXTENDS VersionGraph, TLAPS

-----------------------------------------------------------------------------
(* The invariant *)

Node(n) == node[n].status # "absent"
Branch(b) == branch[b].status # "absent"

\* A node belongs to a project and to one of its branches, and its parent to the
\* same project.
NodeInv ==
    \A n \in Nodes : Node(n) =>
        /\ node[n].project \in Projects /\ FindProject(node[n].project)
        /\ node[n].branch \in Branches /\ FindBranch(node[n].project, node[n].branch)
        /\ node[n].parent # None => node[n].parent \in NodesOf(node[n].project)
        /\ node[n].at <= inserted

\* The start and the head of a branch are nodes of its project.
BranchInv ==
    \A b \in Branches : Branch(b) =>
        /\ branch[b].project \in Projects /\ FindProject(branch[b].project)
        /\ branch[b].start \in NodesOf(branch[b].project)
        /\ branch[b].head \in NodesOf(branch[b].project)

\* Of the nodes on a branch the head is the newest.
HeadRight(b) ==
    /\ \A n \in Nodes : Node(n) /\ node[n].branch = b =>
          /\ node[branch[b].head].branch = b
          /\ node[n].at <= node[branch[b].head].at
    /\ \/ branch[b].head = branch[b].start
       \/ node[branch[b].head].branch = b

\* Of the nodes of a project the latest version is the newest.
LatestRight(p) == /\ FindNode(p, project[p].latest)
                  /\ \A n \in Nodes : FindNode(p, n) => node[n].at <= node[project[p].latest].at

\* A set of nodes that holds the root and the children of its members.
Grown(S, p, root) == root \in S /\ \A n \in NodesOf(p) : node[n].parent \in S => n \in S

\* One node of a project is its root and reaches all.
Reaches(p, root) == /\ root \in NodesOf(p) /\ node[root].parent = None
                    /\ \A n \in NodesOf(p) : node[n].parent = None => n = root
                    /\ \A S \in SUBSET NodesOf(p) : Grown(S, p, root) => S = NodesOf(p)

RowInv == /\ NodeInv
          /\ BranchInv
          /\ \A b \in Branches : Branch(b) => HeadRight(b)
          /\ \A p \in Projects : FindProject(p) => LatestRight(p)
          /\ \A p \in Projects : FindProject(p) => \E root \in Nodes : Reaches(p, root)

\* What a request has read is still there: no row is ever deleted.
InsertInv ==
    \A c \in Maintainers : viewing[c].step = "insert" =>
        /\ viewing[c].project \in Projects /\ viewing[c].branch \in Branches
        /\ FindProject(viewing[c].project)
        /\ FindBranch(viewing[c].project, viewing[c].branch)
        /\ FindNode(viewing[c].project, viewing[c].parent)
        /\ viewing[c].file \in Dockerfiles

GraphInv == GraphTypeOK /\ RowInv /\ InsertInv

-----------------------------------------------------------------------------
(* Steps that write no reference *)

\* Which rows there are, and what refers to what, stays as it is.
SameShape ==
    /\ \A p \in Projects : /\ project'[p].status = "absent" <=> project[p].status = "absent"
                           /\ project'[p].latest = project[p].latest
    /\ \A b \in Branches : /\ branch'[b].status = "absent" <=> branch[b].status = "absent"
                           /\ branch'[b].project = branch[b].project
                           /\ branch'[b].start = branch[b].start
                           /\ branch'[b].head = branch[b].head
    /\ \A n \in Nodes : /\ node'[n].status = "absent" <=> node[n].status = "absent"
                        /\ node'[n].project = node[n].project
                        /\ node'[n].branch = node[n].branch
                        /\ node'[n].parent = node[n].parent
                        /\ node'[n].at = node[n].at
    /\ inserted' = inserted

\* Lookups find the same rows then,
LEMMA ShapeFinds ==
    ASSUME SameShape
    PROVE  /\ \A p \in Projects : FindProject(p)' <=> FindProject(p)
           /\ \A p, b : b \in Branches => (FindBranch(p, b)' <=> FindBranch(p, b))
           /\ \A p, n : FindNode(p, n)' <=> FindNode(p, n)
           /\ \A p : NodesOf(p)' = NodesOf(p)
<1>1. /\ \A p \in Projects : FindProject(p)' <=> FindProject(p)
      /\ \A p, b : b \in Branches => (FindBranch(p, b)' <=> FindBranch(p, b))
      /\ \A p, n : FindNode(p, n)' <=> FindNode(p, n)
  BY DEF SameShape, FindProject, FindBranch, FindNode
<1>2. \A p : NodesOf(p)' = NodesOf(p)
  BY <1>1 DEF NodesOf
<1> QED BY <1>1, <1>2

\* and what holds of the references holds still.
LEMMA ShapeKeeps ==
    ASSUME RowInv, SameShape
    PROVE  RowInv'
<1> USE DEF RowInv
<1>1. NodeInv'
  BY ShapeFinds DEF NodeInv, SameShape, Node
<1>2. BranchInv'
  BY ShapeFinds DEF BranchInv, SameShape, Branch
<1>3. ASSUME NEW b \in Branches, Branch(b)' PROVE HeadRight(b)'
  <2>1. Branch(b) /\ HeadRight(b) /\ branch[b].head \in Nodes
    BY <1>3 DEF SameShape, Branch, BranchInv, NodesOf
  <2> QED BY <2>1 DEF SameShape, HeadRight, Node
<1>4. ASSUME NEW p \in Projects, FindProject(p)' PROVE LatestRight(p)'
  <2>1. FindProject(p) /\ LatestRight(p) /\ project[p].latest \in Nodes
    BY <1>4, ShapeFinds DEF LatestRight, FindNode
  <2> QED BY <2>1, ShapeFinds DEF SameShape, LatestRight
<1>5. ASSUME NEW p \in Projects, FindProject(p)' PROVE \E root \in Nodes : Reaches(p, root)'
  <2>1. PICK root \in Nodes : Reaches(p, root)
    BY <1>5, ShapeFinds
  <2>2. NodesOf(p)' = NodesOf(p) /\ \A n \in NodesOf(p) : node'[n].parent = node[n].parent
    BY ShapeFinds DEF SameShape, NodesOf
  <2>3. Reaches(p, root)'
    BY <2>1, <2>2 DEF Reaches, Grown
  <2> QED BY <2>3
<1> QED BY <1>1, <1>2, <1>3, <1>4, <1>5

\* The same for what the requests know, unless a request begins to insert.
LEMMA ShapeKeepsInserts ==
    ASSUME InsertInv, SameShape,
           \A c \in Maintainers : viewing'[c] = viewing[c] \/ viewing'[c].step # "insert"
    PROVE  InsertInv'
BY ShapeFinds DEF InsertInv

-----------------------------------------------------------------------------
(* The insertion of a node *)

Inserts(n, p, b, parent) ==
    /\ ~Node(n)
    /\ /\ Node(n)' /\ node'[n].project = p /\ node'[n].branch = b
       /\ node'[n].parent = parent /\ node'[n].at = inserted + 1
    /\ \A m \in Nodes \ {n} : node'[m] = node[m]
    /\ inserted' = inserted + 1

\* What insertNode does, and that its row is well typed.
LEMMA InsertNodeInserts ==
    ASSUME GraphTypeOK, NEW n \in Nodes, NEW p \in Projects, NEW b \in Branches,
           NEW parent \in Nodes \union {None}, NEW f \in Dockerfiles,
           NEW s \in NodeStatuses \ {"absent"}, InsertNode(n, p, b, parent, f, s)
    PROVE  /\ Inserts(n, p, b, parent)
           /\ node' \in [Nodes -> NodeRow]
           /\ inserted' \in Nat
<1> USE DEF GraphTypeOK
<1> DEFINE row == [status |-> s, project |-> p, branch |-> b, parent |-> parent,
                   file |-> f, hash |-> Hash(f), at |-> inserted + 1]
<1>1. row \in NodeRow
  BY DEF NodeRow
<1>2. node[n].status = "absent" /\ node' = [node EXCEPT ![n] = row] /\ inserted' = inserted + 1
  BY DEF InsertNode
<1>3. row.status # "absent" /\ row.project = p /\ row.branch = b /\ row.parent = parent
      /\ row.at = inserted + 1
  OBVIOUS
<1> HIDE DEF row
<1> QED BY <1>1, <1>2, <1>3 DEF Inserts, Node

\* Nothing is lost, and the one node is new.
LEMMA InsertFinds ==
    ASSUME NEW n \in Nodes, NEW p \in Projects, NEW b, NEW parent, Inserts(n, p, b, parent)
    PROVE  /\ \A q, m : FindNode(q, m) => m # n /\ FindNode(q, m)' /\ node'[m] = node[m]
           /\ \A q : NodesOf(q)' = IF q = p THEN NodesOf(p) \union {n} ELSE NodesOf(q)
           /\ \A q : n \notin NodesOf(q)
<1>1. \A q, m : FindNode(q, m)' <=> FindNode(q, m) \/ (m = n /\ q = p)
  BY DEF FindNode, Inserts, Node
<1>2. \A q : ~FindNode(q, n)
  BY DEF FindNode, Inserts, Node
<1>3. \A q, m : FindNode(q, m) => m # n /\ FindNode(q, m)' /\ node'[m] = node[m]
  BY <1>1, <1>2 DEF FindNode, Inserts
<1>4. \A q : NodesOf(q)' = IF q = p THEN NodesOf(p) \union {n} ELSE NodesOf(q)
  BY <1>1 DEF NodesOf
<1> QED BY <1>2, <1>3, <1>4 DEF NodesOf

\* A new node whose parent is in the project is reached through it.
LEMMA InsertReaches ==
    ASSUME NEW n \in Nodes, NEW p \in Projects, NEW b, NEW parent \in NodesOf(p),
           Inserts(n, p, b, parent), NEW root \in Nodes, Reaches(p, root)
    PROVE  Reaches(p, root)'
<1>1. /\ NodesOf(p)' = NodesOf(p) \union {n} /\ n \notin NodesOf(p)
      /\ \A m \in NodesOf(p) : node'[m].parent = node[m].parent
      /\ node'[n].parent = parent /\ parent # None
  BY InsertFinds, NoneIsNoId DEF NodesOf, Inserts
<1>2. /\ root \in NodesOf(p)' /\ node'[root].parent = None
      /\ \A m \in NodesOf(p)' : node'[m].parent = None => m = root
  BY <1>1 DEF Reaches
<1>3. ASSUME NEW S \in SUBSET (NodesOf(p)'), root \in S,
             \A m \in NodesOf(p)' : node'[m].parent \in S => m \in S
      PROVE  S = NodesOf(p)'
  <2>1. Grown(S \ {n}, p, root)
    BY <1>1, <1>3 DEF Grown, Reaches
  <2>2. S \ {n} \in SUBSET NodesOf(p)
    BY <1>1
  <2>3. S \ {n} = NodesOf(p)
    BY <2>1, <2>2 DEF Reaches
  <2>4. n \in S
    BY <1>1, <1>3, <2>3
  <2> QED BY <1>1, <2>3, <2>4
<1> QED BY <1>2, <1>3 DEF Reaches, Grown

\* A project whose nodes do not change stays in one piece.
LEMMA OthersReach ==
    ASSUME NEW q, NEW root \in Nodes, Reaches(q, root), NodesOf(q)' = NodesOf(q),
           \A m \in NodesOf(q) : node'[m] = node[m]
    PROVE  Reaches(q, root)'
BY DEF Reaches, Grown

\* updateBranchHead and updateProjectLatest, as the references see them.
Moves(n, p, b) ==
    /\ \A q \in Projects : /\ project'[q].status = project[q].status
                           /\ project'[q].latest = IF q = p THEN n ELSE project[q].latest
    /\ \A c \in Branches : /\ branch'[c].status = branch[c].status
                           /\ branch'[c].project = branch[c].project
                           /\ branch'[c].start = branch[c].start
                           /\ branch'[c].head = IF c = b THEN n ELSE branch[c].head

\* What CreateNodeTx does, from what its request has found before.
LEMMA CreateNodeTxMoves ==
    ASSUME GraphInv, NEW c \in Maintainers, NEW n \in Nodes, NEW s \in InputStatuses,
           CreateNodeTx(c, n, s)
    PROVE  LET v == viewing[c]
           IN /\ GraphTypeOK'
              /\ v.project \in Projects /\ v.branch \in Branches
              /\ FindProject(v.project) /\ FindBranch(v.project, v.branch)
              /\ v.parent \in NodesOf(v.project)
              /\ Inserts(n, v.project, v.branch, v.parent)
              /\ Moves(n, v.project, v.branch)
              /\ \A d \in Maintainers : viewing'[d] = viewing[d] \/ viewing'[d].step # "insert"
<1> USE DEF GraphInv
<1> DEFINE v == viewing[c]
<1>1. /\ v.project \in Projects /\ v.branch \in Branches /\ v.file \in Dockerfiles
      /\ FindProject(v.project) /\ FindBranch(v.project, v.branch)
      /\ v.parent \in NodesOf(v.project) /\ v.parent \in Nodes
  BY DEF CreateNodeTx, InsertInv, FindNode, NodesOf
<1>2. /\ InsertNode(n, v.project, v.branch, v.parent, v.file, s)
      /\ branch' = [branch EXCEPT ![v.branch] = HeadMoved(branch[v.branch], None, n)]
      /\ project' = [project EXCEPT ![v.project] = [project[v.project] EXCEPT !.latest = n]]
      /\ viewing' = [viewing EXCEPT ![c] = Idle]
  BY DEF CreateNodeTx
<1> HIDE DEF v
<1>3. s \in NodeStatuses \ {"absent"}
  BY StatusesAreValid
<1>4. /\ Inserts(n, v.project, v.branch, v.parent)
      /\ node' \in [Nodes -> NodeRow] /\ inserted' \in Nat
  BY <1>1, <1>2, <1>3, InsertNodeInserts
<1>5. /\ HeadMoved(branch[v.branch], None, n) \in BranchRow
      /\ HeadMoved(branch[v.branch], None, n) = [branch[v.branch] EXCEPT !.head = n]
  BY <1>1 DEF HeadMoved, GraphTypeOK, BranchRow
<1>6. [project[v.project] EXCEPT !.latest = n] \in ProjectRow
  BY <1>1 DEF GraphTypeOK, ProjectRow
<1>7. GraphTypeOK'
  BY <1>2, <1>4, <1>5, <1>6 DEF GraphTypeOK
<1>8. Moves(n, v.project, v.branch)
  BY <1>1, <1>2, <1>5 DEF Moves, GraphTypeOK, BranchRow, ProjectRow
<1>9. \A d \in Maintainers : viewing'[d] = viewing[d] \/ viewing'[d].step # "insert"
  BY <1>2 DEF Idle, GraphTypeOK
<1> QED BY <1>1, <1>4, <1>7, <1>8, <1>9 DEF v

\* The rows stay right when a node is inserted and the head and the latest version move.
LEMMA InsertionKeeps ==
    ASSUME GraphTypeOK, RowInv, NEW n \in Nodes, NEW p \in Projects, NEW b \in Branches,
           FindProject(p), FindBranch(p, b), NEW parent \in NodesOf(p),
           Inserts(n, p, b, parent), Moves(n, p, b)
    PROVE  RowInv'
<1> USE DEF RowInv
<1>1. /\ \A q \in Projects : FindProject(q)' <=> FindProject(q)
      /\ \A q, c : c \in Branches => (FindBranch(q, c)' <=> FindBranch(q, c))
      /\ \A c \in Branches : Branch(c)' <=> Branch(c)
  BY DEF Moves, FindProject, FindBranch, Branch
<1>2. \A m \in Nodes : Node(m)' <=> Node(m) \/ m = n
  BY DEF Inserts, Node
<1>3. n \in NodesOf(p)' /\ \A q : NodesOf(q) \subseteq NodesOf(q)'
  BY InsertFinds
<1>4. NodeInv'
  <2>1. ASSUME NEW m \in Nodes, Node(m)', m # n
        PROVE  /\ node'[m].project \in Projects /\ FindProject(node[m].project)'
               /\ node'[m].branch \in Branches /\ FindBranch(node[m].project, node[m].branch)'
               /\ node'[m].parent # None => node'[m].parent \in NodesOf(node[m].project)'
               /\ node'[m].at <= inserted' /\ node'[m] = node[m]
    <3>1. Node(m) /\ node'[m] = node[m]
      BY <1>2, <2>1 DEF Inserts
    <3>2. node[m].at \in Nat /\ inserted \in Nat /\ inserted' = inserted + 1
      BY DEF GraphTypeOK, NodeRow, Inserts
    <3> QED BY <1>1, <1>3, <3>1, <3>2 DEF NodeInv
  <2>2. /\ node'[n].project = p /\ FindProject(p)' /\ node'[n].branch = b /\ FindBranch(p, b)'
        /\ node'[n].parent \in NodesOf(p)' /\ node'[n].at <= inserted'
    BY <1>1, <1>3 DEF Inserts, GraphTypeOK
  <2> QED BY <2>1, <2>2 DEF NodeInv, FindProject, FindBranch, NodesOf, FindNode
<1>5. BranchInv'
  <2>1. ASSUME NEW c \in Branches, Branch(c)'
        PROVE  /\ branch'[c].project \in Projects /\ FindProject(branch[c].project)'
               /\ branch'[c].start \in NodesOf(branch[c].project)'
               /\ branch'[c].head \in NodesOf(branch[c].project)'
               /\ branch'[c].project = branch[c].project
    BY <1>1, <1>3, <2>1 DEF BranchInv, Moves, FindBranch
  <2> QED BY <2>1 DEF BranchInv, FindProject, NodesOf, FindNode
<1>6. ASSUME NEW c \in Branches, Branch(c)' PROVE HeadRight(c)'
  <2>1. Branch(c) /\ HeadRight(c)
    BY <1>1, <1>6
  <2>2. CASE c = b
    <3>1. branch'[c].head = n /\ node'[n].branch = b
      BY <2>2 DEF Moves, Inserts
    <3>2. \A m \in Nodes : Node(m)' => node'[m].at <= node'[n].at
      BY <1>2 DEF Inserts, NodeInv, GraphTypeOK, NodeRow
    <3> QED BY <2>2, <3>1, <3>2 DEF HeadRight
  <2>3. CASE c # b
    <3>1. /\ branch'[c].head = branch[c].head /\ branch'[c].start = branch[c].start
          /\ branch[c].head \in Nodes /\ branch[c].head # n
      BY <2>1, <2>3, InsertFinds DEF Moves, BranchInv, NodesOf
    <3>2. node'[n].branch # c /\ \A m \in Nodes \ {n} : node'[m] = node[m]
      BY <2>3 DEF Inserts
    <3> QED BY <1>2, <2>1, <3>1, <3>2 DEF HeadRight
  <2> QED BY <2>2, <2>3
<1>7. ASSUME NEW q \in Projects, FindProject(q)' PROVE LatestRight(q)'
  <2>1. CASE q = p
    <3>1. project'[q].latest = n /\ FindNode(p, n)'
      BY <1>3, <2>1 DEF Moves, NodesOf
    <3>2. \A m \in Nodes : Node(m)' => node'[m].at <= node'[n].at
      BY <1>2 DEF Inserts, NodeInv, GraphTypeOK, NodeRow
    <3> QED BY <2>1, <3>1, <3>2 DEF LatestRight, FindNode, Node
  <2>2. CASE q # p
    <3>1. LatestRight(q) /\ project'[q].latest = project[q].latest
      BY <1>1, <1>7, <2>2 DEF Moves
    <3>2. \A m : FindNode(q, m)' <=> FindNode(q, m)
      BY <2>2, InsertFinds DEF NodesOf, FindNode
    <3> QED BY <3>1, <3>2, InsertFinds DEF LatestRight
  <2> QED BY <2>1, <2>2
<1>8. ASSUME NEW q \in Projects, FindProject(q)' PROVE \E root \in Nodes : Reaches(q, root)'
  <2>1. PICK root \in Nodes : Reaches(q, root)
    BY <1>1, <1>8
  <2>2. CASE q = p
    BY <2>1, <2>2, InsertReaches
  <2>3. CASE q # p
    <3>1. NodesOf(q)' = NodesOf(q) /\ \A m \in NodesOf(q) : node'[m] = node[m]
      BY <2>3, InsertFinds DEF NodesOf
    <3> QED BY <2>1, <3>1, OthersReach
  <2> QED BY <2>2, <2>3
<1> QED BY <1>4, <1>5, <1>6, <1>7, <1>8

-----------------------------------------------------------------------------
(* New projects and branches *)

\* A project begins with one branch and one node, which is its root.
LEMMA CreateProjectKeeps ==
    ASSUME GraphInv, NEW p \in Projects, NEW b \in Branches, NEW n \in Nodes,
           NEW f \in Dockerfiles, NEW r \in ProjectRegistries, CreateProject(p, b, n, f, r)
    PROVE  GraphInv'
<1> USE DEF GraphInv, RowInv
<1> DEFINE first == [status |-> "active", project |-> p, start |-> None, head |-> None]
           row == [status |-> "active", latest |-> n, registry |-> r]
<1>1. /\ ~FindProject(p) /\ ~Branch(b) /\ InsertNode(n, p, b, None, f, "active")
      /\ branch' = [branch EXCEPT ![b] = HeadMoved(first, n, n)]
      /\ project' = [project EXCEPT ![p] = row]
      /\ UNCHANGED viewing
  BY DEF CreateProject, CreateProjectWithInitial, FindProject, Branch
<1>2. /\ Inserts(n, p, b, None)
      /\ node' \in [Nodes -> NodeRow] /\ inserted' \in Nat
  BY <1>1, InsertNodeInserts DEF NodeStatuses
<1>3. HeadMoved(first, n, n) = [status |-> "active", project |-> p, start |-> n, head |-> n]
  <2>1. first.start = None
    OBVIOUS
  <2>2. HeadMoved(first, n, n) = [[first EXCEPT !.head = n] EXCEPT !.start = n]
    BY <2>1 DEF HeadMoved
  <2>3. [first EXCEPT !.head = n] = [status |-> "active", project |-> p, start |-> None, head |-> n]
    OBVIOUS
  <2>4. [[status |-> "active", project |-> p, start |-> None, head |-> n] EXCEPT !.start = n]
          = [status |-> "active", project |-> p, start |-> n, head |-> n]
    OBVIOUS
  <2> HIDE DEF first
  <2> QED BY <2>2, <2>3, <2>4
<1>4. /\ branch'[b].status = "active" /\ branch'[b].project = p
      /\ branch'[b].start = n /\ branch'[b].head = n
      /\ \A c \in Branches \ {b} : branch'[c] = branch[c]
      /\ project'[p].status = "active" /\ project'[p].latest = n
      /\ \A q \in Projects \ {p} : project'[q] = project[q]
  BY <1>1, <1>3 DEF GraphTypeOK
<1>5. GraphTypeOK'
  <2>1. HeadMoved(first, n, n) \in BranchRow /\ row \in ProjectRow
    BY <1>3 DEF BranchRow, ProjectRow, RowStatuses
  <2> HIDE DEF first, row
  <2> QED BY <1>1, <1>2, <2>1 DEF GraphTypeOK
<1> HIDE DEF first, row
<1>6. /\ \A q \in Projects : FindProject(q) => q # p /\ FindProject(q)'
      /\ \A q, c : c \in Branches /\ FindBranch(q, c) => c # b /\ FindBranch(q, c)'
      /\ FindProject(p)' /\ FindBranch(p, b)'
  BY <1>1, <1>4 DEF FindProject, FindBranch, Branch
<1>7. \A m \in Nodes : Node(m) => m # n /\ node[m].project # p /\ node[m].branch # b
  BY <1>1, <1>2 DEF NodeInv, FindBranch, Branch, Inserts
<1>8. NodesOf(p)' = {n} /\ \A q : q # p => NodesOf(q)' = NodesOf(q)
  <2>1. NodesOf(p) = {}
    BY <1>7 DEF NodesOf, FindNode, Node
  <2> QED BY <1>2, <2>1, InsertFinds
<1>9. \A m \in Nodes : Node(m)' <=> Node(m) \/ m = n
  BY <1>2 DEF Inserts, Node
<1>10. NodeInv'
  <2>1. ASSUME NEW m \in Nodes, Node(m)', m # n
        PROVE  /\ node'[m].project \in Projects /\ FindProject(node[m].project)'
               /\ node'[m].branch \in Branches /\ FindBranch(node[m].project, node[m].branch)'
               /\ node'[m].parent # None => node'[m].parent \in NodesOf(node[m].project)'
               /\ node'[m].at <= inserted' /\ node'[m] = node[m]
    <3>1. Node(m) /\ node'[m] = node[m]
      BY <1>2, <1>9, <2>1 DEF Inserts
    <3>2. node[m].at \in Nat /\ inserted \in Nat /\ inserted' = inserted + 1
      BY <1>2 DEF GraphTypeOK, NodeRow, Inserts
    <3> QED BY <1>6, <1>7, <1>8, <3>1, <3>2 DEF NodeInv
  <2>2. /\ node'[n].project = p /\ node'[n].branch = b /\ node'[n].parent = None
        /\ node'[n].at <= inserted'
    BY <1>2 DEF Inserts, GraphTypeOK
  <2> QED BY <1>6, <2>1, <2>2 DEF NodeInv, FindProject, FindBranch, NodesOf, FindNode
<1>11. ASSUME NEW c \in Branches, Branch(c)', c # b
       PROVE  /\ Branch(c) /\ branch'[c] = branch[c]
              /\ branch[c].project \in Projects /\ branch[c].project # p
              /\ FindProject(branch[c].project)' /\ NodesOf(branch[c].project)' = NodesOf(branch[c].project)
              /\ branch[c].start \in NodesOf(branch[c].project)
              /\ branch[c].head \in NodesOf(branch[c].project)
              /\ branch[c].head \in Nodes \ {n}
  <2>1. Branch(c) /\ branch'[c] = branch[c]
    BY <1>4, <1>11 DEF Branch
  <2> QED BY <1>2, <1>6, <1>8, <2>1, InsertFinds DEF BranchInv, NodesOf
<1>12. BranchInv'
  <2>1. ASSUME NEW c \in Branches, Branch(c)'
        PROVE  /\ branch'[c].project \in Projects /\ FindProject(branch[c].project)'
               /\ branch'[c].start \in NodesOf(branch[c].project)'
               /\ branch'[c].head \in NodesOf(branch[c].project)'
    <3>1. CASE c = b
      <4>1. branch'[c].project = p /\ branch'[c].start \in {n} /\ branch'[c].head \in {n}
        BY <1>4, <3>1
      <4>2. NodesOf(branch[c].project)' = {n} /\ FindProject(branch[c].project)'
        BY <1>6, <1>8, <4>1 DEF NodesOf, FindNode, FindProject
      <4> QED BY <4>1, <4>2
    <3>2. CASE c # b
      BY <1>11, <2>1, <3>2
    <3> QED BY <3>1, <3>2
  <2> QED BY <2>1 DEF BranchInv
<1>13. ASSUME NEW c \in Branches, Branch(c)' PROVE HeadRight(c)'
  <2>1. CASE c = b
    <3>1. ASSUME NEW m \in Nodes, Node(m)', node'[m].branch = b PROVE m = n
      BY <1>2, <1>7, <1>9, <3>1 DEF Inserts
    <3>2. node'[n].branch = b /\ node'[n].at \in Nat
      BY <1>2 DEF Inserts, GraphTypeOK
    <3> QED BY <1>4, <2>1, <3>1, <3>2 DEF HeadRight
  <2>2. CASE c # b
    <3>1. Branch(c) /\ HeadRight(c) /\ branch'[c] = branch[c] /\ branch[c].head \in Nodes \ {n}
      BY <1>11, <1>13, <2>2
    <3>2. node'[n].branch # c /\ \A m \in Nodes \ {n} : node'[m] = node[m]
      BY <1>2, <2>2 DEF Inserts
    <3> QED BY <1>9, <3>1, <3>2 DEF HeadRight
  <2> QED BY <2>1, <2>2
<1>14. ASSUME NEW q \in Projects, FindProject(q)', q # p
       PROVE  FindProject(q) /\ project'[q] = project[q]
  BY <1>4, <1>14 DEF FindProject
<1>15. ASSUME NEW q \in Projects, FindProject(q)' PROVE LatestRight(q)'
  <2>1. CASE q = p
    <3>1. \A m : FindNode(p, m)' <=> m = n
      BY <1>8 DEF NodesOf, FindNode
    <3>2. node'[n].at \in Nat
      BY <1>2 DEF Inserts, GraphTypeOK
    <3> QED BY <1>4, <2>1, <3>1, <3>2 DEF LatestRight
  <2>2. CASE q # p
    <3>1. \A m : FindNode(q, m)' <=> FindNode(q, m)
      BY <1>8, <2>2 DEF NodesOf, FindNode
    <3>2. LatestRight(q) /\ project'[q] = project[q]
      BY <1>14, <1>15, <2>2
    <3> QED BY <1>2, <3>1, <3>2, InsertFinds DEF LatestRight
  <2> QED BY <2>1, <2>2
<1>16. ASSUME NEW q \in Projects, FindProject(q)' PROVE \E root \in Nodes : Reaches(q, root)'
  <2>1. CASE q = p
    <3>1. NodesOf(p)' = {n} /\ node'[n].parent = None
      BY <1>2, <1>8 DEF Inserts
    <3>2. Reaches(p, n)'
      BY <3>1 DEF Reaches, Grown
    <3> QED BY <2>1, <3>2
  <2>2. CASE q # p
    <3>1. PICK root \in Nodes : Reaches(q, root)
      BY <1>14, <1>16, <2>2
    <3>2. NodesOf(q)' = NodesOf(q) /\ \A m \in NodesOf(q) : node'[m] = node[m]
      BY <1>2, <1>8, <2>2, InsertFinds DEF NodesOf
    <3> QED BY <3>1, <3>2, OthersReach
  <2> QED BY <2>1, <2>2
<1>17. InsertInv'
  BY <1>1, <1>2, <1>6, InsertFinds DEF InsertInv
<1> QED BY <1>5, <1>10, <1>12, <1>13, <1>15, <1>16, <1>17

\* A new branch has its start as its head and no node.
LEMMA CreateBranchKeeps ==
    ASSUME GraphInv, NEW p \in Projects, NEW b \in Branches, NEW n \in Nodes,
           CreateBranch(p, b, n)
    PROVE  GraphInv'
<1> USE DEF GraphInv, RowInv
<1> DEFINE row == [status |-> "active", project |-> p, start |-> n, head |-> n]
<1>1. /\ FindProject(p) /\ FindNode(p, n) /\ ~Branch(b) /\ branch' = [branch EXCEPT ![b] = row]
      /\ UNCHANGED <<project, node, inserted, viewing>>
  BY DEF CreateBranch, InsertBranch, Branch
<1>2. row \in BranchRow
  BY DEF BranchRow, RowStatuses
<1>3. GraphTypeOK'
  <2> HIDE DEF row
  <2> QED BY <1>1, <1>2 DEF GraphTypeOK
<1>4. /\ branch'[b].status = "active" /\ branch'[b].project = p
      /\ branch'[b].start = n /\ branch'[b].head = n
      /\ \A c \in Branches \ {b} : branch'[c] = branch[c]
  BY <1>1 DEF GraphTypeOK
<1> HIDE DEF row
<1>5. /\ \A q \in Projects : FindProject(q)' <=> FindProject(q)
      /\ \A q, c : c \in Branches /\ FindBranch(q, c) => c # b /\ FindBranch(q, c)'
      /\ \A q, m : FindNode(q, m)' <=> FindNode(q, m)
      /\ \A q : NodesOf(q)' = NodesOf(q)
      /\ \A m \in Nodes : Node(m)' <=> Node(m)
  BY <1>1, <1>4 DEF FindProject, FindBranch, FindNode, NodesOf, Branch, Node
<1>6. NodeInv'
  BY <1>1, <1>5 DEF NodeInv
<1>7. BranchInv'
  <2>1. ASSUME NEW c \in Branches, Branch(c)'
        PROVE  /\ branch'[c].project \in Projects /\ FindProject(branch'[c].project)
               /\ branch'[c].start \in NodesOf(branch'[c].project)
               /\ branch'[c].head \in NodesOf(branch'[c].project)
    BY <1>1, <1>4, <2>1 DEF BranchInv, Branch, NodesOf
  <2> QED BY <1>1, <2>1 DEF BranchInv, FindProject, NodesOf, FindNode
<1>8. ASSUME NEW c \in Branches, Branch(c)' PROVE HeadRight(c)'
  <2>1. CASE c = b
    <3>1. \A m \in Nodes : Node(m) => node[m].branch # b
      BY <1>1 DEF NodeInv, FindBranch, Branch
    <3> QED BY <1>1, <1>4, <1>5, <2>1, <3>1 DEF HeadRight
  <2>2. CASE c # b
    <3>1. Branch(c) /\ HeadRight(c) /\ branch'[c] = branch[c]
      BY <1>4, <1>8, <2>2 DEF Branch
    <3> QED BY <1>1, <1>5, <3>1 DEF HeadRight
  <2> QED BY <2>1, <2>2
<1>9. ASSUME NEW q \in Projects, FindProject(q)' PROVE LatestRight(q)'
  BY <1>1, <1>5, <1>9 DEF LatestRight
<1>10. ASSUME NEW q \in Projects, FindProject(q)' PROVE \E root \in Nodes : Reaches(q, root)'
  BY <1>1, <1>5, <1>10, OthersReach
<1>11. InsertInv'
  BY <1>1, <1>5 DEF InsertInv
<1> QED BY <1>3, <1>6, <1>7, <1>8, <1>9, <1>10, <1>11

-----------------------------------------------------------------------------
(* Updates and reads *)

\* UpdateNode rewrites what no other row refers to.
LEMMA UpdatingKeepsShape ==
    ASSUME GraphTypeOK, NEW p \in Projects,
           \/ \E r \in ProjectRegistries : UpdateProject(p, r)
           \/ ArchiveProject(p)
           \/ \E b \in Branches : ArchiveBranch(p, b)
           \/ \E n \in Nodes, f \in Dockerfiles, s \in InputStatuses : UpdateNode(p, n, f, s)
    PROVE  GraphTypeOK' /\ SameShape /\ UNCHANGED viewing
<1> USE DEF GraphTypeOK
<1>1. ASSUME NEW r \in ProjectRegistries, UpdateProject(p, r)
      PROVE  GraphTypeOK' /\ SameShape /\ UNCHANGED viewing
  <2>1. project' = [project EXCEPT ![p] = [project[p] EXCEPT !.registry = r]]
        /\ UNCHANGED <<branch, node, inserted, viewing>>
    BY <1>1 DEF UpdateProject, UpdateProjectRow
  <2>2. [project[p] EXCEPT !.registry = r] \in ProjectRow
    BY DEF ProjectRow
  <2> QED BY <2>1, <2>2 DEF SameShape, ProjectRow
<1>2. ASSUME ArchiveProject(p)
      PROVE  GraphTypeOK' /\ SameShape /\ UNCHANGED viewing
  <2>1. /\ project' = [project EXCEPT ![p] = [project[p] EXCEPT !.status = "archived"]]
        /\ FindProject(p) /\ UNCHANGED <<branch, node, inserted, viewing>>
    BY <1>2 DEF ArchiveProject
  <2>2. [project[p] EXCEPT !.status = "archived"] \in ProjectRow
    BY DEF ProjectRow, RowStatuses
  <2> QED BY <2>1, <2>2 DEF SameShape, ProjectRow, FindProject
<1>3. ASSUME NEW b \in Branches, ArchiveBranch(p, b)
      PROVE  GraphTypeOK' /\ SameShape /\ UNCHANGED viewing
  <2>1. /\ branch' = [branch EXCEPT ![b] = [branch[b] EXCEPT !.status = "archived"]]
        /\ FindBranch(p, b) /\ UNCHANGED <<project, node, inserted, viewing>>
    BY <1>3 DEF ArchiveBranch
  <2>2. [branch[b] EXCEPT !.status = "archived"] \in BranchRow
    BY DEF BranchRow, RowStatuses
  <2> QED BY <2>1, <2>2 DEF SameShape, BranchRow, FindBranch
<1>4. ASSUME NEW n \in Nodes, NEW f \in Dockerfiles, NEW s \in InputStatuses, UpdateNode(p, n, f, s)
      PROVE  GraphTypeOK' /\ SameShape /\ UNCHANGED viewing
  <2> DEFINE row == [node[n] EXCEPT !.file = f, !.hash = Hash(f), !.status = s]
  <2>1. /\ node' = [node EXCEPT ![n] = row]
        /\ node[n].status # "absent" /\ UNCHANGED <<project, branch, inserted, viewing>>
    BY <1>4 DEF UpdateNode, UpdateNodeRow, FindNode
  <2>2. s \in NodeStatuses /\ s # "absent"
    BY StatusesAreValid
  <2>3. /\ row \in NodeRow /\ row.status = s /\ row.project = node[n].project
        /\ row.branch = node[n].branch /\ row.parent = node[n].parent /\ row.at = node[n].at
    BY <2>2 DEF NodeRow
  <2> HIDE DEF row
  <2> QED BY <2>1, <2>2, <2>3 DEF SameShape
<1> QED BY <1>1, <1>2, <1>3, <1>4

\* A step that writes no row leaves the shape of the graph alone.
LEMMA SameRows ==
    ASSUME UNCHANGED graphRows
    PROVE  SameShape
BY DEF graphRows, SameShape

\* CreateNode remembers rows that exist.
LEMMA CreateNodeKeeps ==
    ASSUME GraphInv, NEW c \in Maintainers, NEW p \in Projects, NEW b \in Branches,
           NEW f \in Dockerfiles, NEW m \in Nodes \union {None}, CreateNode(c, p, b, m, f)
    PROVE  GraphInv'
<1> USE DEF GraphInv
<1>1. PICK parent : /\ viewing' = [viewing EXCEPT ![c] = [step |-> "insert", project |-> p,
                                       branch |-> b, parent |-> parent, file |-> f]]
                    /\ FindBranch(p, b) /\ FindNode(p, parent) /\ UNCHANGED graphRows
  BY DEF CreateNode
<1>2. FindProject(p)
  BY <1>1 DEF RowInv, BranchInv, FindBranch, Branch
<1>3. SameShape /\ RowInv' /\ GraphTypeOK'
  BY <1>1, SameRows, ShapeKeeps DEF graphRows, GraphTypeOK
<1>4. InsertInv'
  BY <1>1, <1>2, <1>3, ShapeFinds DEF InsertInv, GraphTypeOK
<1> QED BY <1>3, <1>4

\* No read begins an insertion.
LEMMA ReadsKeep ==
    ASSUME GraphInv, GraphRead
    PROVE  GraphInv'
<1> USE DEF GraphInv
<1>1. UNCHANGED graphRows
  BY DEF GraphRead, GraphProject, GraphBranches, GraphNodes, Answer, DiffLeft, DiffRight
<1>2. \E c \in Maintainers : \E v : viewing' = [viewing EXCEPT ![c] = v] /\ v.step # "insert"
  BY DEF GraphRead, GraphProject, GraphBranches, GraphNodes, Answer, DiffLeft, DiffRight, Idle
<1>3. SameShape /\ RowInv' /\ GraphTypeOK'
  BY <1>1, <1>2, SameRows, ShapeKeeps DEF graphRows, GraphTypeOK
<1>4. \A d \in Maintainers : viewing'[d] = viewing[d] \/ viewing'[d].step # "insert"
  BY <1>2 DEF GraphTypeOK
<1> QED BY <1>3, <1>4, ShapeKeepsInserts

\* Every write keeps the invariant.
LEMMA WritesKeep ==
    ASSUME GraphInv, GraphWrite
    PROVE  GraphInv'
<1>1. ASSUME NEW p \in Projects,
             \/ \E r \in ProjectRegistries : UpdateProject(p, r)
             \/ ArchiveProject(p)
             \/ \E b \in Branches : ArchiveBranch(p, b)
             \/ \E n \in Nodes, f \in Dockerfiles, s \in InputStatuses : UpdateNode(p, n, f, s)
      PROVE  GraphInv'
  BY <1>1, UpdatingKeepsShape, ShapeKeeps, ShapeKeepsInserts DEF GraphInv
<1>2. ASSUME NEW c \in Maintainers, NEW n \in Nodes, NEW s \in InputStatuses, CreateNodeTx(c, n, s)
      PROVE  GraphInv'
  <2> DEFINE v == viewing[c]
  <2>1. /\ GraphTypeOK'
        /\ v.project \in Projects /\ v.branch \in Branches
        /\ FindProject(v.project) /\ FindBranch(v.project, v.branch)
        /\ v.parent \in NodesOf(v.project)
        /\ Inserts(n, v.project, v.branch, v.parent)
        /\ Moves(n, v.project, v.branch)
        /\ \A d \in Maintainers : viewing'[d] = viewing[d] \/ viewing'[d].step # "insert"
    BY <1>2, CreateNodeTxMoves
  <2> HIDE DEF v
  <2>2. RowInv'
    BY <2>1, InsertionKeeps DEF GraphInv
  <2>3. /\ \A q \in Projects : FindProject(q) => FindProject(q)'
        /\ \A q, b : b \in Branches /\ FindBranch(q, b) => FindBranch(q, b)'
        /\ \A q, m : FindNode(q, m) => FindNode(q, m)'
    <3>1. \A q, m : FindNode(q, m) => FindNode(q, m)'
      BY <2>1, InsertFinds
    <3> QED BY <2>1, <3>1 DEF Moves, FindProject, FindBranch
  <2>4. InsertInv'
    BY <2>1, <2>3 DEF GraphInv, InsertInv
  <2> QED BY <2>1, <2>2, <2>4 DEF GraphInv
<1> QED BY <1>1, <1>2, CreateProjectKeeps, CreateBranchKeeps, CreateNodeKeeps DEF GraphWrite

\* The graph is well formed in every reachable state.
THEOREM GraphInvHolds == GraphSpec => []GraphInv
<1>1. GraphInit => GraphInv
  <2> SUFFICES ASSUME GraphInit PROVE GraphInv
    OBVIOUS
  <2>1. GraphTypeOK
    BY DEF GraphInit, GraphTypeOK, ProjectRow, BranchRow, NodeRow, NoProject, NoBranch, NoNode,
           RowStatuses, NodeStatuses
  <2>2. /\ \A p \in Projects : ~FindProject(p)
        /\ \A b \in Branches : ~Branch(b)
        /\ \A n \in Nodes : ~Node(n)
    BY DEF GraphInit, FindProject, Branch, Node, NoProject, NoBranch, NoNode
  <2>3. InsertInv
    BY DEF GraphInit, InsertInv, Idle
  <2> QED BY <2>1, <2>2, <2>3 DEF GraphInv, RowInv, NodeInv, BranchInv
<1>2. GraphInv /\ [GraphNext]_graphVars => GraphInv'
  <2> SUFFICES ASSUME GraphInv, [GraphNext]_graphVars PROVE GraphInv'
    OBVIOUS
  <2>1. CASE UNCHANGED graphVars
    BY <2>1, SameRows, ShapeKeeps, ShapeKeepsInserts DEF graphVars, graphRows, GraphInv, GraphTypeOK
  <2> QED BY <2>1, ReadsKeep, WritesKeep DEF GraphNext
<1> QED BY <1>1, <1>2, PTL DEF GraphSpec

-----------------------------------------------------------------------------
(* Results *)

\* Every version descends from the one root of its project, whatever requests
\* insert at the same time.
THEOREM GraphStaysConnected == GraphSpec => []GraphConnected
<1>1. GraphInv => GraphConnected
  <2> SUFFICES ASSUME GraphInv, NEW p \in Projects, FindProject(p)
               PROVE  \E root \in NodesOf(p) :
                        /\ Roots(p) = {root}
                        /\ \A S \in SUBSET NodesOf(p) :
                             (root \in S /\ \A n \in NodesOf(p) : node[n].parent \in S => n \in S)
                                 => S = NodesOf(p)
    BY DEF GraphConnected
  <2>1. PICK root \in Nodes : Reaches(p, root)
    BY DEF GraphInv, RowInv
  <2>2. root \in NodesOf(p) /\ Roots(p) = {root}
    BY <2>1 DEF Reaches, Roots
  <2> QED BY <2>1, <2>2 DEF Reaches, Grown
<1> QED BY <1>1, GraphInvHolds, PTL

\* The head of a branch and the latest version of a project are the nodes
\* inserted last, in whatever order insertions commit.
THEOREM HeadsStayLast == GraphSpec => []HeadsAreLast
<1>1. GraphInv => HeadsAreLast
  <2> SUFFICES ASSUME GraphInv PROVE HeadsAreLast
    OBVIOUS
  <2> USE DEF GraphInv, RowInv
  <2>1. ASSUME NEW b \in Branches, branch[b].status # "absent"
        PROVE  LET own == {n \in NodesOf(branch[b].project) : node[n].branch = b}
               IN IF own = {} THEN branch[b].head = branch[b].start
                              ELSE /\ branch[b].head \in own
                                   /\ \A n \in own : node[n].at <= node[branch[b].head].at
    <3> DEFINE own == {n \in NodesOf(branch[b].project) : node[n].branch = b}
    <3>1. branch[b].head \in NodesOf(branch[b].project) /\ HeadRight(b)
      BY <2>1 DEF BranchInv, Branch
    <3>2. \A n \in own : n \in Nodes /\ Node(n) /\ node[n].branch = b
      BY DEF NodesOf, FindNode, Node
    <3>3. CASE own = {}
      BY <3>1, <3>3 DEF HeadRight
    <3>4. CASE own # {}
      <4>1. node[branch[b].head].branch = b
        BY <3>1, <3>2, <3>4 DEF HeadRight
      <4> QED BY <3>1, <3>2, <3>4, <4>1 DEF HeadRight
    <3> QED BY <3>3, <3>4
  <2>2. ASSUME NEW p \in Projects, FindProject(p)
        PROVE  /\ project[p].latest \in NodesOf(p)
               /\ \A n \in NodesOf(p) : node[n].at <= node[project[p].latest].at
    BY <2>2 DEF LatestRight, NodesOf, FindNode
  <2> QED BY <2>1, <2>2 DEF HeadsAreLast
<1> QED BY <1>1, GraphInvHolds, PTL

\* An update or an insertion that overlaps an archiving does not undo it.
THEOREM ArchivingIsFinal == GraphSpec => ArchiveIsFinal
<1>1. GraphInv /\ [GraphNext]_graphVars =>
        [/\ \A p \in Projects : project[p].status = "archived" => project'[p].status = "archived"
         /\ \A b \in Branches : branch[b].status = "archived" => branch'[b].status = "archived"]_graphVars
  <2> SUFFICES ASSUME GraphInv, GraphNext
               PROVE  /\ \A p \in Projects : project[p].status = "archived"
                                                => project'[p].status = "archived"
                      /\ \A b \in Branches : branch[b].status = "archived"
                                                => branch'[b].status = "archived"
    BY DEF graphVars
  <2> USE DEF GraphInv, GraphTypeOK
  <2> DEFINE Stays == /\ \A p \in Projects : project[p].status = "archived"
                                                => project'[p].status = "archived"
                      /\ \A b \in Branches : branch[b].status = "archived"
                                                => branch'[b].status = "archived"
  <2>1. ASSUME NEW p \in Projects, NEW b \in Branches, NEW n \in Nodes, NEW f \in Dockerfiles,
               NEW r \in ProjectRegistries, CreateProject(p, b, n, f, r)
        PROVE  Stays
    BY <2>1 DEF CreateProject, CreateProjectWithInitial
  <2>2. ASSUME NEW p \in Projects, NEW r \in ProjectRegistries, UpdateProject(p, r)
        PROVE  Stays
    BY <2>2 DEF UpdateProject, UpdateProjectRow, ProjectRow
  <2>3. ASSUME NEW p \in Projects, ArchiveProject(p)
        PROVE  Stays
    BY <2>3 DEF ArchiveProject, ProjectRow
  <2>4. ASSUME NEW p \in Projects, NEW b \in Branches, ArchiveBranch(p, b)
        PROVE  Stays
    BY <2>4 DEF ArchiveBranch, BranchRow
  <2>5. ASSUME NEW p \in Projects, NEW b \in Branches, NEW n \in Nodes, CreateBranch(p, b, n)
        PROVE  Stays
    BY <2>5 DEF CreateBranch, InsertBranch
  <2>6. ASSUME NEW c \in Maintainers, NEW n \in Nodes, NEW s \in InputStatuses, CreateNodeTx(c, n, s)
        PROVE  Stays
    BY <2>6, CreateNodeTxMoves DEF Moves
  <2>7. CASE UNCHANGED <<project, branch>>
    BY <2>7
  <2>8. GraphRead => UNCHANGED <<project, branch>>
    BY DEF GraphRead, GraphProject, GraphBranches, GraphNodes, Answer, DiffLeft, DiffRight, graphRows
  <2> QED BY <2>1, <2>2, <2>3, <2>4, <2>5, <2>6, <2>7, <2>8
          DEF GraphNext, GraphWrite, CreateNode, UpdateNode, graphRows
<1> QED BY <1>1, GraphInvHolds, PTL DEF GraphSpec, ArchiveIsFinal

-----------------------------------------------------------------------------
(* What is served *)

\* The parts of a graph that were read first are nodes, and stay so.
ReadInv ==
    \A c \in Maintainers :
        LET v == viewing[c]
        IN /\ v.step \in {"branches", "nodes"} => v.project \in Projects /\ v.latest \in NodesOf(v.project)
           /\ v.step = "nodes" => v.tips \subseteq NodesOf(v.project)
           /\ v.step = "graph" => /\ v.latest \in v.nodes
                                  /\ v.tips \subseteq v.nodes
                                  /\ v.edges \subseteq v.nodes \X v.nodes
           /\ v.step = "diff" => v.lines = UnifiedDiff(v.left, v.right)

\* unifiedDiff keeps or removes each line on the left, keeps or adds each on the right.
LEMMA DiffLines ==
    ASSUME NEW l, NEW r
    PROVE  /\ Kept(UnifiedDiff(l, r), {" ", "-"}) = Numbered(l)
           /\ Kept(UnifiedDiff(l, r), {" ", "+"}) = Numbered(r)
<1> DEFINE same == {i \in DOMAIN l \intersect DOMAIN r : l[i] = r[i]}
           kept == {<<i, " ", l[i]>> : i \in same}
           removed == {<<i, "-", l[i]>> : i \in DOMAIN l \ same}
           added == {<<i, "+", r[i]>> : i \in DOMAIN r \ same}
<1>1. UnifiedDiff(l, r) = kept \union removed \union added
  BY DEF UnifiedDiff
<1>2. /\ \A k \in kept : k[2] = " " /\ \E i \in same : k[1] = i /\ k[3] = l[i]
      /\ \A k \in removed : k[2] = "-" /\ \E i \in DOMAIN l \ same : k[1] = i /\ k[3] = l[i]
      /\ \A k \in added : k[2] = "+" /\ \E i \in DOMAIN r \ same : k[1] = i /\ k[3] = r[i]
  <2>1. ASSUME NEW k \in kept
        PROVE  k[2] = " " /\ \E i \in same : k[1] = i /\ k[3] = l[i]
    <3>1. PICK i \in same : k = <<i, " ", l[i]>>
      OBVIOUS
    <3> HIDE DEF kept, same
    <3> QED BY <3>1
  <2>2. ASSUME NEW k \in removed
        PROVE  k[2] = "-" /\ \E i \in DOMAIN l \ same : k[1] = i /\ k[3] = l[i]
    <3>1. PICK i \in DOMAIN l \ same : k = <<i, "-", l[i]>>
      OBVIOUS
    <3> HIDE DEF removed, same
    <3> QED BY <3>1
  <2>3. ASSUME NEW k \in added
        PROVE  k[2] = "+" /\ \E i \in DOMAIN r \ same : k[1] = i /\ k[3] = r[i]
    <3>1. PICK i \in DOMAIN r \ same : k = <<i, "+", r[i]>>
      OBVIOUS
    <3> HIDE DEF added, same
    <3> QED BY <3>1
  <2> HIDE DEF same, kept, removed, added
  <2> QED BY <2>1, <2>2, <2>3
<1>3. /\ \A i \in same : \E k \in kept : k[1] = i /\ k[3] = l[i]
      /\ \A i \in DOMAIN l \ same : \E k \in removed : k[1] = i /\ k[3] = l[i]
      /\ \A i \in DOMAIN r \ same : \E k \in added : k[1] = i /\ k[3] = r[i]
  <2>1. ASSUME NEW i \in same PROVE \E k \in kept : k[1] = i /\ k[3] = l[i]
    <3>1. <<i, " ", l[i]>> \in kept
      OBVIOUS
    <3> HIDE DEF kept
    <3> QED BY <3>1
  <2>2. ASSUME NEW i \in DOMAIN l \ same PROVE \E k \in removed : k[1] = i /\ k[3] = l[i]
    <3>1. <<i, "-", l[i]>> \in removed
      OBVIOUS
    <3> HIDE DEF removed
    <3> QED BY <3>1
  <2>3. ASSUME NEW i \in DOMAIN r \ same PROVE \E k \in added : k[1] = i /\ k[3] = r[i]
    <3>1. <<i, "+", r[i]>> \in added
      OBVIOUS
    <3> HIDE DEF added
    <3> QED BY <3>1
  <2> QED BY <2>1, <2>2, <2>3
<1>4. same \subseteq DOMAIN l \intersect DOMAIN r /\ \A i \in same : l[i] = r[i]
  OBVIOUS
<1> HIDE DEF same, kept, removed, added
<1>5. /\ {k \in UnifiedDiff(l, r) : k[2] \in {" ", "-"}} = kept \union removed
      /\ {k \in UnifiedDiff(l, r) : k[2] \in {" ", "+"}} = kept \union added
  <2>1. /\ \A k \in kept : k[2] = " "
        /\ \A k \in removed : k[2] = "-"
        /\ \A k \in added : k[2] = "+"
    BY <1>2
  <2>2. {k \in UnifiedDiff(l, r) : k[2] \in {" ", "-"}} = kept \union removed
    BY <1>1, <2>1
  <2>3. {k \in UnifiedDiff(l, r) : k[2] \in {" ", "+"}} = kept \union added
    BY <1>1, <2>1
  <2> QED BY <2>2, <2>3
<1>6. {<<k[1], k[3]>> : k \in kept \union removed} = Numbered(l)
  <2>1. ASSUME NEW k \in kept \union removed PROVE <<k[1], k[3]>> \in Numbered(l)
    BY <1>2, <1>4 DEF Numbered
  <2>2. ASSUME NEW i \in DOMAIN l PROVE \E k \in kept \union removed : k[1] = i /\ k[3] = l[i]
    BY <1>3
  <2> QED BY <2>1, <2>2 DEF Numbered
<1>7. {<<k[1], k[3]>> : k \in kept \union added} = Numbered(r)
  <2>1. ASSUME NEW k \in kept \union added PROVE <<k[1], k[3]>> \in Numbered(r)
    BY ZenonT(40), <1>2, <1>4 DEF Numbered
  <2>2. ASSUME NEW i \in DOMAIN r PROVE \E k \in kept \union added : k[1] = i /\ k[3] = r[i]
    BY <1>3, <1>4
  <2> QED BY <2>1, <2>2 DEF Numbered
<1> QED BY <1>5, <1>6, <1>7 DEF Kept

\* No step takes a node away from a project.
LEMMA NodesRemain ==
    ASSUME GraphInv, GraphNext
    PROVE  \A q : NodesOf(q) \subseteq NodesOf(q)'
<1>1. ASSUME SameShape PROVE \A q : NodesOf(q) \subseteq NodesOf(q)'
  BY <1>1, ShapeFinds
<1>2. ASSUME NEW n \in Nodes, NEW p \in Projects, NEW b, NEW parent, Inserts(n, p, b, parent)
      PROVE  \A q : NodesOf(q) \subseteq NodesOf(q)'
  BY <1>2, InsertFinds
<1>3. ASSUME NEW p \in Projects, NEW b \in Branches, NEW n \in Nodes, NEW f \in Dockerfiles,
             NEW r \in ProjectRegistries, CreateProject(p, b, n, f, r)
      PROVE  \A q : NodesOf(q) \subseteq NodesOf(q)'
  <2>1. InsertNode(n, p, b, None, f, "active")
    BY <1>3 DEF CreateProject, CreateProjectWithInitial
  <2>2. Inserts(n, p, b, None)
    BY <2>1, InsertNodeInserts DEF NodeStatuses, GraphInv
  <2> QED BY <1>2, <2>2
<1>4. ASSUME NEW p \in Projects, NEW b \in Branches, NEW n \in Nodes, CreateBranch(p, b, n)
      PROVE  \A q : NodesOf(q) \subseteq NodesOf(q)'
  BY <1>4 DEF CreateBranch, NodesOf, FindNode
<1>5. ASSUME NEW c \in Maintainers, NEW n \in Nodes, NEW s \in InputStatuses, CreateNodeTx(c, n, s)
      PROVE  \A q : NodesOf(q) \subseteq NodesOf(q)'
  BY <1>2, <1>5, CreateNodeTxMoves
<1>6. ASSUME NEW p \in Projects,
             \/ \E r \in ProjectRegistries : UpdateProject(p, r)
             \/ ArchiveProject(p)
             \/ \E b \in Branches : ArchiveBranch(p, b)
             \/ \E n \in Nodes, f \in Dockerfiles, s \in InputStatuses : UpdateNode(p, n, f, s)
      PROVE  \A q : NodesOf(q) \subseteq NodesOf(q)'
  BY <1>1, <1>6, UpdatingKeepsShape DEF GraphInv
<1>7. ASSUME UNCHANGED graphRows PROVE \A q : NodesOf(q) \subseteq NodesOf(q)'
  BY <1>1, <1>7, SameRows
<1>8. GraphRead => UNCHANGED graphRows
  BY DEF GraphRead, GraphProject, GraphBranches, GraphNodes, Answer, DiffLeft, DiffRight
<1> QED BY <1>3, <1>4, <1>5, <1>6, <1>7, <1>8 DEF GraphNext, GraphWrite, CreateNode

\* Every step keeps what reads have found.
LEMMA ReadInvKept ==
    ASSUME GraphInv, ReadInv, [GraphNext]_graphVars
    PROVE  ReadInv'
<1> USE DEF GraphInv, GraphTypeOK
<1>1. \A q : NodesOf(q) \subseteq NodesOf(q)'
  BY NodesRemain DEF graphVars, graphRows, NodesOf, FindNode
<1>2. ASSUME \A c \in Maintainers : \/ viewing'[c] = viewing[c]
                                    \/ viewing'[c].step \in {"idle", "insert", "right"}
      PROVE  ReadInv'
  BY <1>1, <1>2 DEF ReadInv
<1>3. ASSUME NEW c \in Maintainers, NEW v, viewing' = [viewing EXCEPT ![c] = v],
             v.step \in {"idle", "insert", "right"}
      PROVE  ReadInv'
  <2>1. \A d \in Maintainers : \/ viewing'[d] = viewing[d]
                              \/ viewing'[d].step \in {"idle", "insert", "right"}
    BY <1>3
  <2> QED BY <1>2, <2>1
<1>4. Idle.step = "idle"
  BY DEF Idle
<1>5. ASSUME NEW c \in Maintainers, NEW p \in Projects, GraphProject(c, p) PROVE ReadInv'
  <2>1. /\ viewing' = [viewing EXCEPT ![c] = [step |-> "branches", project |-> p,
                                             latest |-> project[p].latest]]
        /\ FindProject(p) /\ UNCHANGED graphRows
    BY <1>5 DEF GraphProject
  <2>2. project[p].latest \in NodesOf(p)
    BY <2>1 DEF RowInv, LatestRight, NodesOf, FindNode
  <2> QED BY <1>1, <2>1, <2>2 DEF ReadInv
<1>6. ASSUME NEW c \in Maintainers, GraphBranches(c) PROVE ReadInv'
  <2> DEFINE v == viewing[c]
             tips == UNION {{branch[b].start, branch[b].head} : b \in BranchesOf(v.project)}
  <2>1. /\ v.step = "branches" /\ UNCHANGED graphRows
        /\ viewing' = [viewing EXCEPT ![c] = [step |-> "nodes", project |-> v.project,
                                             latest |-> v.latest, tips |-> tips]]
    BY <1>6 DEF GraphBranches
  <2>2. v.project \in Projects /\ v.latest \in NodesOf(v.project)
    BY <2>1 DEF ReadInv
  <2>3. tips \subseteq NodesOf(v.project)
    BY DEF RowInv, BranchInv, BranchesOf, FindBranch, Branch
  <2> HIDE DEF v, tips
  <2> QED BY <1>1, <2>1, <2>2, <2>3 DEF ReadInv
<1>7. ASSUME NEW c \in Maintainers, GraphNodes(c) PROVE ReadInv'
  <2> DEFINE v == viewing[c]
             listed == NodesOf(v.project)
             edges == {<<node[n].parent, n>> : n \in {m \in listed : node[m].parent # None}}
  <2>1. /\ v.step = "nodes" /\ UNCHANGED graphRows
        /\ viewing' = [viewing EXCEPT ![c] = [step |-> "graph", latest |-> v.latest,
                                             tips |-> v.tips, nodes |-> listed, edges |-> edges]]
    BY <1>7 DEF GraphNodes
  <2>2. v.latest \in listed /\ v.tips \subseteq listed
    BY <2>1 DEF ReadInv
  <2>3. \A m \in listed : node[m].parent # None => node[m].parent \in listed
    BY DEF RowInv, NodeInv, NodesOf, FindNode, Node
  <2>4. edges \subseteq listed \X listed
    BY <2>3
  <2> HIDE DEF v, listed, edges
  <2> QED BY <1>1, <2>1, <2>2, <2>4 DEF ReadInv
<1>8. ASSUME NEW c \in Maintainers, NEW n \in Nodes, DiffRight(c, n) PROVE ReadInv'
  <2>1. viewing' = [viewing EXCEPT ![c] = [step |-> "diff", left |-> viewing[c].left,
                      right |-> node[n].file, lines |-> UnifiedDiff(viewing[c].left, node[n].file)]]
    BY <1>8 DEF DiffRight
  <2> QED BY <1>1, <2>1 DEF ReadInv
<1>9. ASSUME NEW c \in Maintainers, NEW p \in Projects, NEW n \in Nodes, DiffLeft(c, p, n)
      PROVE  ReadInv'
  BY <1>3, <1>9 DEF DiffLeft
<1>10. ASSUME NEW c \in Maintainers, Answer(c) PROVE ReadInv'
  BY <1>3, <1>4, <1>10 DEF Answer
<1>11. GraphRead => ReadInv'
  BY <1>5, <1>6, <1>7, <1>8, <1>9, <1>10 DEF GraphRead
<1>12. GraphWrite => ReadInv'
  <2>1. ASSUME UNCHANGED viewing PROVE ReadInv'
    BY <1>2, <2>1
  <2>2. ASSUME NEW c \in Maintainers, NEW p \in Projects, NEW b \in Branches, NEW f \in Dockerfiles,
               NEW n \in Nodes \union {None}, CreateNode(c, p, b, n, f)
        PROVE  ReadInv'
    BY <1>3, <2>2 DEF CreateNode
  <2>3. ASSUME NEW c \in Maintainers, NEW n \in Nodes, NEW s \in InputStatuses, CreateNodeTx(c, n, s)
        PROVE  ReadInv'
    BY <1>3, <1>4, <2>3 DEF CreateNodeTx
  <2> QED BY <2>1, <2>2, <2>3 DEF GraphWrite, CreateProject, UpdateProject, ArchiveProject,
                                  ArchiveBranch, CreateBranch, UpdateNode
<1>13. CASE UNCHANGED graphVars
  BY <1>2, <1>13 DEF graphVars
<1> QED BY <1>11, <1>12, <1>13 DEF GraphNext

\* A graph that is served refers to none but its own nodes, and a diff gives back
\* both of its sides, whatever is written between the queries.
THEOREM ServedIsSound == GraphSpec => []AnswersAreSound
<1>1. GraphInit => ReadInv
  BY DEF GraphInit, ReadInv, Idle
<1>2. ReadInv => AnswersAreSound
  <2> SUFFICES ASSUME ReadInv PROVE AnswersAreSound
    OBVIOUS
  <2>1. GraphIsClosed
    BY DEF ReadInv, GraphIsClosed
  <2>2. ASSUME NEW c \in Maintainers, viewing[c].step = "diff"
        PROVE  /\ Kept(viewing[c].lines, {" ", "-"}) = Numbered(viewing[c].left)
               /\ Kept(viewing[c].lines, {" ", "+"}) = Numbered(viewing[c].right)
    <3> DEFINE l == viewing[c].left
               r == viewing[c].right
    <3>1. viewing[c].lines = UnifiedDiff(l, r)
      BY <2>2 DEF ReadInv
    <3> HIDE DEF l, r
    <3>2. /\ Kept(UnifiedDiff(l, r), {" ", "-"}) = Numbered(l)
          /\ Kept(UnifiedDiff(l, r), {" ", "+"}) = Numbered(r)
      BY DiffLines
    <3> QED BY <3>1, <3>2 DEF l, r
  <2>3. DiffReconstructs
    BY <2>2 DEF DiffReconstructs
  <2> QED BY <2>1, <2>3 DEF AnswersAreSound
<1> QED BY <1>1, <1>2, ReadInvKept, GraphInvHolds, PTL DEF GraphSpec

=============================================================================
