-------------------------------- MODULE Tree --------------------------------
(***************************************************************************)
(* The connection tree of internal/domain/tree.go together with the        *)
(* commands of internal/app/commands.go that change its shape.  Every      *)
(* command runs under App.treeMu, so each is one atomic step.              *)
(*                                                                         *)
(* A node is an ID.  FolderNode.ParentID and ConnectionNode.ParentID are   *)
(* the function parent.  The two child indexes are kept apart from it, as  *)
(* in the code: Walk, Remove, Save and the views follow the indexes, Move  *)
(* and Ancestors follow the parent pointers.  Child lists are sets, since  *)
(* walkFrom sorts a list before it uses it.  Names, tags and settings are  *)
(* left out: no command reads them to decide what to do to the shape.      *)
(*                                                                         *)
(* A command that returns an error changes nothing and is a stuttering     *)
(* step.  A panic ends the process: nothing runs after it.                 *)
(***************************************************************************)
EXTENDS Naturals

CONSTANTS
  ID,      \* the identifiers domain.NewID can draw (random UUIDs)
  NilID    \* domain.NilID: the root, the parent of the top-level nodes

ASSUME NilIDAssumption == NilID \notin ID

VARIABLES
  folders,             \* Tree.folders: the ids of the folders
  connections,         \* Tree.connections: the ids of the connections
  parent,              \* ParentID of every node, NilID for ids not in the tree
  folderChildren,      \* Tree.folderChildren
  connectionChildren,  \* Tree.connectionChildren
  used,                \* ids NewID has returned; a UUID is never drawn twice
  panicked             \* a nil node was dereferenced

vars == <<folders, connections, parent, folderChildren, connectionChildren,
          used, panicked>>

Key == ID \cup {NilID}
Nodes == folders \cup connections
Fresh == ID \ used

(***************************************************************************)
(* isDescendantFolder(maybeChild, ancestor): the loop goes from maybeChild *)
(* up the parent pointers.  What it visits is the least set of folders     *)
(* that holds maybeChild and the parent of each of its members.            *)
(***************************************************************************)
UpClosed(S) == \A f \in S : parent[f] \in folders => parent[f] \in S

IsDescendantFolder(maybeChild, ancestor) ==
  /\ maybeChild # NilID
  /\ \A S \in SUBSET folders : maybeChild \in S /\ UpClosed(S) => ancestor \in S

(***************************************************************************)
(* The folders Remove deletes when called on a folder: its recursion goes  *)
(* down the folder index.                                                  *)
(***************************************************************************)
DownClosed(S) == \A f \in S : folderChildren[f] \subseteq S

FolderSubtree(id) ==
  {f \in ID : \A S \in SUBSET ID : id \in S /\ DownClosed(S) => f \in S}

(***************************************************************************)
(* What Walk visits, going down both indexes from the root.                *)
(***************************************************************************)
WalkedFolders ==
  {f \in ID : \A S \in SUBSET ID :
                folderChildren[NilID] \subseteq S /\ DownClosed(S) => f \in S}

\* Mutant: the recursion forgets the connections at the root.
WalkedConnectionsBelowRoot ==
  UNION {connectionChildren[p] : p \in WalkedFolders}

WalkedConnections ==
  UNION {connectionChildren[p] : p \in WalkedFolders \cup {NilID}}

\* The visitors dereference the node they are given; an id that is in an
\* index but not in the tree gives them a nil pointer.
WalkVisitsNil == \/ \E f \in WalkedFolders : f \notin folders
                 \/ \E c \in WalkedConnections : c \notin connections

\* The sort in walkFrom dereferences the nodes it compares, whatever the
\* visitor does; it compares only when a list has two elements.
SortVisitsNil ==
  \E p \in WalkedFolders \cup {NilID} : \E c \in connectionChildren[p] :
    c \notin connections /\ connectionChildren[p] # {c}

Init ==
  /\ folders = {}
  /\ connections = {}
  /\ parent = [n \in ID |-> NilID]
  /\ folderChildren = [p \in Key |-> {}]
  /\ connectionChildren = [p \in Key |-> {}]
  /\ used = {}
  /\ panicked = FALSE

-----------------------------------------------------------------------------
(* Commands                                                                *)

\* Mutant: AddFolder without the check of the parent.
CreateFolderUnchecked(id, p) ==
  /\ folders' = folders \cup {id}
  /\ parent' = [parent EXCEPT ![id] = p]
  /\ folderChildren' = [folderChildren EXCEPT ![p] = @ \cup {id}]
  /\ used' = used \cup {id}
  /\ UNCHANGED <<connections, connectionChildren, panicked>>

\* CreateFolder and Tree.AddFolder.
CreateFolder(id, p) ==
  /\ p \in folders \cup {NilID}
  /\ folders' = folders \cup {id}
  /\ parent' = [parent EXCEPT ![id] = p]
  /\ folderChildren' = [folderChildren EXCEPT ![p] = @ \cup {id}]
  /\ used' = used \cup {id}
  /\ UNCHANGED <<connections, connectionChildren, panicked>>

\* CreateConnection and Tree.AddConnection.
CreateConnection(id, p) ==
  /\ p \in folders \cup {NilID}
  /\ connections' = connections \cup {id}
  /\ parent' = [parent EXCEPT ![id] = p]
  /\ connectionChildren' = [connectionChildren EXCEPT ![p] = @ \cup {id}]
  /\ used' = used \cup {id}
  /\ UNCHANGED <<folders, folderChildren, panicked>>

\* Mutant: Move forgets removeID on the old parent's list.
ReindexedTwice(index, id, newParent) ==
  [index EXCEPT ![newParent] = @ \cup {id}]

\* Mutant: Move appends the new parent instead of the node.
ReindexedWrongID(index, id, newParent) ==
  [p \in Key |-> IF p = newParent THEN index[p] \cup {newParent}
                 ELSE IF p = parent[id] THEN index[p] \ {id}
                 ELSE index[p]]

\* removeID on the old parent's list, then append to the new parent's.
Reindexed(index, id, newParent) ==
  [p \in Key |-> IF p = newParent THEN index[p] \cup {id}
                 ELSE IF p = parent[id] THEN index[p] \ {id}
                 ELSE index[p]]

\* Mutant: Move checks that the new parent is not the node itself and no more.
MoveFolderUnchecked(id, newParent) ==
  /\ newParent \in folders \cup {NilID}
  /\ newParent # id
  /\ folderChildren' = Reindexed(folderChildren, id, newParent)
  /\ parent' = [parent EXCEPT ![id] = newParent]
  /\ UNCHANGED <<folders, connections, connectionChildren, used, panicked>>

\* MoveNode and Tree.Move on a folder.
MoveFolder(id, newParent) ==
  /\ newParent \in folders \cup {NilID}
  /\ newParent # id
  /\ ~IsDescendantFolder(newParent, id)
  /\ folderChildren' = Reindexed(folderChildren, id, newParent)
  /\ parent' = [parent EXCEPT ![id] = newParent]
  /\ UNCHANGED <<folders, connections, connectionChildren, used, panicked>>

\* MoveNode and Tree.Move on a connection.
MoveConnection(id, newParent) ==
  /\ newParent \in folders \cup {NilID}
  /\ connectionChildren' = Reindexed(connectionChildren, id, newParent)
  /\ parent' = [parent EXCEPT ![id] = newParent]
  /\ UNCHANGED <<folders, connections, folderChildren, used, panicked>>

\* Mutant: Remove does not go down into the folders below.
DeleteFolderShallow(id) ==
  /\ folders' = folders \ {id}
  /\ connections' = connections \ connectionChildren[id]
  /\ parent' = [n \in ID |-> IF n = id \/ n \in connectionChildren[id]
                             THEN NilID ELSE parent[n]]
  /\ folderChildren' = [p \in Key |-> IF p = id THEN {} ELSE folderChildren[p] \ {id}]
  /\ connectionChildren' = [connectionChildren EXCEPT ![id] = {}]
  /\ UNCHANGED <<used, panicked>>

\* DeleteNode and Tree.Remove on a folder: the connections listed under every
\* folder of the subtree go, their lists go, and the subtree's root leaves
\* its parent's list.
DeleteFolder(id) ==
  LET gone == FolderSubtree(id)
      goneConnections == UNION {connectionChildren[f] : f \in gone}
  IN  /\ folders' = folders \ gone
      /\ connections' = connections \ goneConnections
      /\ parent' = [n \in ID |-> IF n \in gone \cup goneConnections
                                 THEN NilID ELSE parent[n]]
      /\ folderChildren' = [p \in Key |-> IF p \in gone THEN {}
                                          ELSE folderChildren[p] \ gone]
      /\ connectionChildren' = [p \in Key |-> IF p \in gone THEN {}
                                              ELSE connectionChildren[p]]
      /\ UNCHANGED <<used, panicked>>

\* DeleteNode and Tree.Remove on a connection.  The index is only updated
\* when the parent is not the root.
DeleteConnection(id) ==
  /\ connections' = connections \ {id}
  /\ connectionChildren' =
       [p \in Key |-> IF p # NilID /\ p = parent[id]
                      THEN connectionChildren[p] \ {id}
                      ELSE connectionChildren[p]]
  /\ parent' = [parent EXCEPT ![id] = NilID]
  /\ UNCHANGED <<folders, folderChildren, used, panicked>>

\* The nodes DuplicateNode copies: the walk meets a folder before what is
\* under it, so idMap holds the parent of every node below id.
Subtree(id) ==
  IF id \in connections THEN {id}
  ELSE FolderSubtree(id) \cup UNION {connectionChildren[f] : f \in FolderSubtree(id)}

Injections(S, T) == {m \in [S -> T] : \A x, y \in S : m[x] = m[y] => x = y}

\* DuplicateNode: idMap gives every node of the subtree a new id.  A copy has
\* the copy of its parent as parent, the copy of id has id's.  The walk goes
\* over the whole tree, so a stale index entry anywhere is a nil node to it.
DuplicateNode(id, idMap) ==
  LET sub == Subtree(id)
      copies == {idMap[n] : n \in sub}
      original(c) == CHOOSE n \in sub : idMap[n] = c
      copyParent(c) == IF original(c) = id THEN parent[id]
                       ELSE idMap[parent[original(c)]]
      newFolders == {idMap[n] : n \in sub \cap folders}
      newConnections == {idMap[n] : n \in sub \cap connections}
  IN  /\ ~WalkVisitsNil
      /\ folders' = folders \cup newFolders
      /\ connections' = connections \cup newConnections
      /\ parent' = [n \in ID |-> IF n \in copies THEN copyParent(n) ELSE parent[n]]
      /\ folderChildren' =
           [p \in Key |-> folderChildren[p] \cup {c \in newFolders : copyParent(c) = p}]
      /\ connectionChildren' =
           [p \in Key |-> connectionChildren[p]
                            \cup {c \in newConnections : copyParent(c) = p}]
      /\ used' = used \cup copies
      /\ UNCHANGED panicked

\* ImportMRemoteNG: the importer's own Tree, with ids of its own, is merged
\* parent first.  up gives the parent of every imported node.
ImportMRemoteNG(newFolders, newConnections, up) ==
  /\ newFolders \cap newConnections = {}
  /\ \A S \in SUBSET newFolders : S # {} => \E f \in S : up[f] \notin S
  /\ folders' = folders \cup newFolders
  /\ connections' = connections \cup newConnections
  /\ parent' = [n \in ID |-> IF n \in newFolders \cup newConnections
                             THEN up[n] ELSE parent[n]]
  /\ folderChildren' =
       [p \in Key |-> folderChildren[p] \cup {f \in newFolders : up[f] = p}]
  /\ connectionChildren' =
       [p \in Key |-> connectionChildren[p] \cup {c \in newConnections : up[c] = p}]
  /\ used' = used \cup newFolders \cup newConnections
  /\ UNCHANGED panicked

\* ListTree, ListFavorites and Search only read the tree, but like DuplicateNode
\* and the sort under Save they dereference the nil node of a stale index entry.
VisitNilNode ==
  /\ ~panicked
  /\ WalkVisitsNil
  /\ panicked' = TRUE
  /\ UNCHANGED <<folders, connections, parent, folderChildren,
                 connectionChildren, used>>

\* Store.Save and, after a restart or a restore, Store.Load: encodeInventory
\* writes what Walk visits, a stale entry as null; decodeInventory skips nulls
\* and rebuilds both indexes with AddFolder and AddConnection, which must find
\* the parent of every node.
Decodes(fs, cs) ==
  /\ \A n \in fs \cup cs : parent[n] \in fs \cup {NilID}
  /\ \A S \in SUBSET fs : S # {} => \E f \in S : parent[f] \notin S

SaveAndReload ==
  LET fs == WalkedFolders \cap folders
      cs == WalkedConnections \cap connections
  IN  /\ ~panicked
      /\ ~SortVisitsNil
      /\ Decodes(fs, cs)
      /\ folders' = fs
      /\ connections' = cs
      /\ parent' = [n \in ID |-> IF n \in fs \cup cs THEN parent[n] ELSE NilID]
      /\ folderChildren' = [p \in Key |-> {f \in fs : parent[f] = p}]
      /\ connectionChildren' = [p \in Key |-> {c \in cs : parent[c] = p}]
      /\ UNCHANGED <<used, panicked>>

Create ==
  /\ ~panicked
  /\ \E id \in Fresh, p \in Key : CreateFolder(id, p) \/ CreateConnection(id, p)

MoveNode ==
  /\ ~panicked
  /\ \/ \E id \in folders, p \in Key : MoveFolder(id, p)
     \/ \E id \in connections, p \in Key : MoveConnection(id, p)

DeleteNode ==
  /\ ~panicked
  /\ \/ \E id \in folders : DeleteFolder(id)
     \/ \E id \in connections : DeleteConnection(id)

Duplicate ==
  /\ ~panicked
  /\ \E id \in Nodes : \E idMap \in Injections(Subtree(id), Fresh) :
       DuplicateNode(id, idMap)

Import ==
  /\ ~panicked
  /\ \E fs, cs \in SUBSET Fresh : \E up \in [fs \cup cs -> fs \cup {NilID}] :
       ImportMRemoteNG(fs, cs, up)

Next == Create \/ MoveNode \/ DeleteNode \/ Duplicate \/ Import
          \/ VisitNilNode \/ SaveAndReload

Spec == Init /\ [][Next]_vars

-----------------------------------------------------------------------------
(* Properties                                                              *)

\* Type invariant of the tree's maps and of the ids drawn so far.
TypeOK ==
  /\ folders \subseteq ID
  /\ connections \subseteq ID
  /\ parent \in [ID -> Key]
  /\ folderChildren \in [Key -> SUBSET ID]
  /\ connectionChildren \in [Key -> SUBSET ID]
  /\ used \subseteq ID
  /\ panicked \in BOOLEAN

\* Every parent is the root or a folder that is still there: no command leaves
\* a node under a deleted folder or under a connection.
ParentsAreFolders == \A n \in Nodes : parent[n] \in folders \cup {NilID}

\* The parent pointers of the folders have no cycle: every set of folders has
\* a member whose parent is outside it.  Ancestors and Walk rely on it to end.
FoldersAcyclic == \A S \in SUBSET folders : S # {} => \E f \in S : parent[f] \notin S

\* The child indexes and the parent pointers say the same thing, whatever
\* sequence of commands kept them: exactly so for folders and below a folder; the
\* root's connection list may also hold ids that are no longer in the tree.
IndexesMatchParents ==
  \A p \in Key :
    /\ folderChildren[p] = {f \in folders : parent[f] = p}
    /\ connectionChildren[p] \cap connections = {c \in connections : parent[c] = p}
    /\ p # NilID => connectionChildren[p] \subseteq connections

\* Walk visits every folder and every connection of the tree, so the views show
\* all of it and Save writes all of it.
WalkReachesEverything ==
  folders \subseteq WalkedFolders /\ connections \subseteq WalkedConnections

\* A restart never loses, adds or moves a node: loading what Save wrote gives
\* the tree that was saved, although Save follows the indexes and Load rebuilds
\* them from the parents.
ReloadKeepsTree ==
  [][SaveAndReload => /\ folders' = folders
                      /\ connections' = connections
                      /\ \A n \in Nodes : parent'[n] = parent[n]]_vars

\* BUG_FIXES.md on Tree.Remove: "Prevents potential panics when removing
\* root-level connections."  The connection index of the root keeps the removed
\* id, and the next walk dereferences a nil node.
NoNilNodeVisited == ~panicked
=============================================================================
