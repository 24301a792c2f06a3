----------------------------- MODULE TreeProofs -----------------------------
(***************************************************************************)
(* Proofs about the connection tree, for every set of ids.  The child      *)
(* indexes, the parent pointers and the two node maps are kept by          *)
(* different lines of tree.go; TreeInv is the relation between them that   *)
(* every command preserves and that the promises of the tree follow from.  *)
(***************************************************************************)
EXTENDS Tree, TLAPS

(* No id is both a folder and a connection, and every id in the tree or in  *)
(* the root's connection list, stale ones included, has been drawn: a fresh *)
(* id can then meet no stale entry.                                         *)
IdsDistinct ==
  /\ folders \cap connections = {}
  /\ Nodes \subseteq used
  /\ connectionChildren[NilID] \subseteq used \ folders

TreeInv ==
  /\ TypeOK
  /\ IdsDistinct
  /\ ParentsAreFolders
  /\ FoldersAcyclic
  /\ IndexesMatchParents

(* Initially the tree is empty.                                            *)
LEMMA InitTreeInv == Init => TreeInv
BY NilIDAssumption DEF Init, TreeInv, TypeOK, IdsDistinct, Nodes, ParentsAreFolders, FoldersAcyclic,
   IndexesMatchParents, Key

(* Tree.Move's cycle check is enough: what the loop of isDescendantFolder   *)
(* does not reach from newParent is a set of folders that holds newParent,  *)
(* is closed under parents, and does not hold id.  A cycle made by the move *)
(* would, cut down to that set, have been a cycle before it.                *)
LEMMA MoveKeepsAcyclic ==
  ASSUME TreeInv, NEW id \in folders, NEW p \in folders \cup {NilID},
         ~IsDescendantFolder(p, id), p # id,
         parent' = [parent EXCEPT ![id] = p], folders' = folders
  PROVE  FoldersAcyclic'
<1> SUFFICES ASSUME NEW S \in SUBSET folders, S # {}, \A f \in S : parent'[f] \in S
             PROVE  FALSE
  BY DEF FoldersAcyclic
<1>a. folders \subseteq ID /\ parent \in [ID -> Key] /\ NilID \notin ID
  BY NilIDAssumption DEF TreeInv, TypeOK
<1>b. \A f \in S : f # id => parent[f] \in S
  BY <1>a
<1>1. CASE id \notin S
  BY <1>1, <1>b DEF TreeInv, FoldersAcyclic
<1>2. CASE id \in S
  <2>1. p \in S
    BY <1>2, <1>a
  <2>2. p # NilID
    BY <2>1, <1>a
  <2>3. PICK T \in SUBSET folders : p \in T /\ UpClosed(T) /\ id \notin T
    BY <2>2 DEF IsDescendantFolder
  <2>4. \A f \in S \cap T : parent[f] \in S \cap T
    BY <2>3, <1>b DEF UpClosed
  <2>5. S \cap T # {} /\ S \cap T \in SUBSET folders
    BY <2>1, <2>3
  <2> QED
    BY <2>4, <2>5 DEF TreeInv, FoldersAcyclic
<1> QED
  BY <1>1, <1>2

(* AddFolder and AddConnection preserve the invariant.                      *)
LEMMA CreatePreserves == TreeInv /\ Create => TreeInv'
<1> SUFFICES ASSUME TreeInv, NEW id \in Fresh, NEW p \in Key,
                    CreateFolder(id, p) \/ CreateConnection(id, p)
             PROVE  TreeInv'
  BY DEF Create
<1>a. TypeOK /\ IdsDistinct /\ ParentsAreFolders /\ FoldersAcyclic /\ IndexesMatchParents
  BY DEF TreeInv
<1>b. id \in ID /\ id \notin used /\ NilID \notin ID /\ id \notin folders /\ id \notin connections
  BY <1>a, NilIDAssumption DEF Fresh, IdsDistinct, Nodes
<1>c. \A n \in Nodes : parent[n] # id
  BY <1>a, <1>b DEF ParentsAreFolders, Nodes
<1>1. CASE CreateFolder(id, p)
  <2>1. TypeOK'
    BY <1>1, <1>a, <1>b DEF CreateFolder, TypeOK, Key
  <2>2. IdsDistinct'
    BY <1>1, <1>a, <1>b DEF CreateFolder, TypeOK, IdsDistinct, Nodes
  <2>3. ParentsAreFolders'
    BY <1>1, <1>a, <1>b DEF CreateFolder, TypeOK, ParentsAreFolders, Nodes
  <2>4. FoldersAcyclic'
    <3> SUFFICES ASSUME NEW S \in SUBSET folders', S # {}, \A f \in S : parent'[f] \in S
                 PROVE  FALSE
      BY DEF FoldersAcyclic
    <3>1. p # id
      BY <1>1, <1>b DEF CreateFolder
    <3>2. \A f \in S \ {id} : parent'[f] = parent[f] /\ parent[f] \in S \ {id}
      BY <1>1, <1>a, <1>c DEF CreateFolder, TypeOK, Nodes
    <3>3. S \ {id} \in SUBSET folders
      BY <1>1 DEF CreateFolder
    <3>4. S \ {id} # {}
      BY <1>1, <1>a, <1>b, <3>1 DEF CreateFolder, TypeOK
    <3> QED
      BY <3>2, <3>3, <3>4, <1>a DEF FoldersAcyclic
  <2>5. IndexesMatchParents'
    <3> SUFFICES ASSUME NEW q \in Key
                 PROVE  /\ folderChildren'[q] = {f \in folders' : parent'[f] = q}
                        /\ connectionChildren'[q] \cap connections'
                             = {c \in connections' : parent'[c] = q}
                        /\ q # NilID => connectionChildren'[q] \subseteq connections'
      BY DEF IndexesMatchParents
    <3>1. folderChildren[q] = {f \in folders : parent[f] = q}
      BY <1>a DEF IndexesMatchParents
    <3>2. folderChildren'[q] = IF q = p THEN folderChildren[q] \cup {id} ELSE folderChildren[q]
      BY <1>1, <1>a DEF CreateFolder, TypeOK
    <3>3. {f \in folders' : parent'[f] = q} =
             IF q = p THEN {f \in folders : parent[f] = q} \cup {id}
             ELSE {f \in folders : parent[f] = q}
      BY <1>1, <1>a, <1>b DEF CreateFolder, TypeOK
    <3>4. {c \in connections' : parent'[c] = q} = {c \in connections : parent[c] = q}
      BY <1>1, <1>a, <1>b DEF CreateFolder, TypeOK
    <3> QED
      BY <1>1, <1>a, <3>1, <3>2, <3>3, <3>4 DEF CreateFolder, IndexesMatchParents
  <2> QED
    BY <2>1, <2>2, <2>3, <2>4, <2>5 DEF TreeInv
<1>2. CASE CreateConnection(id, p)
  <2>1. TypeOK'
    BY <1>2, <1>a, <1>b DEF CreateConnection, TypeOK, Key
  <2>2. IdsDistinct'
    BY <1>2, <1>a, <1>b DEF CreateConnection, TypeOK, IdsDistinct, Nodes
  <2>3. ParentsAreFolders'
    BY <1>2, <1>a, <1>b DEF CreateConnection, TypeOK, ParentsAreFolders, Nodes
  <2>4. FoldersAcyclic'
    BY <1>2, <1>a, <1>b DEF CreateConnection, TypeOK, FoldersAcyclic
  <2>5. IndexesMatchParents'
    <3> SUFFICES ASSUME NEW q \in Key
                 PROVE  /\ folderChildren'[q] = {f \in folders' : parent'[f] = q}
                        /\ connectionChildren'[q] \cap connections'
                             = {c \in connections' : parent'[c] = q}
                        /\ q # NilID => connectionChildren'[q] \subseteq connections'
      BY DEF IndexesMatchParents
    <3>1. connectionChildren[q] \cap connections = {c \in connections : parent[c] = q}
      BY <1>a DEF IndexesMatchParents
    <3>2. connectionChildren'[q] =
             IF q = p THEN connectionChildren[q] \cup {id} ELSE connectionChildren[q]
      BY <1>2, <1>a DEF CreateConnection, TypeOK
    <3>3. {c \in connections' : parent'[c] = q} =
             IF q = p THEN {c \in connections : parent[c] = q} \cup {id}
             ELSE {c \in connections : parent[c] = q}
      BY <1>2, <1>a, <1>b DEF CreateConnection, TypeOK
    <3>4. {f \in folders' : parent'[f] = q} = {f \in folders : parent[f] = q}
      BY <1>2, <1>a, <1>b DEF CreateConnection, TypeOK
    <3>5. q # p => id \notin connectionChildren[q]
      BY <1>a, <1>b, NilIDAssumption DEF IndexesMatchParents, IdsDistinct, Key
    <3> QED
      BY <1>2, <1>a, <1>b, <3>1, <3>2, <3>3, <3>4, <3>5 DEF CreateConnection, IndexesMatchParents
  <2> QED
    BY <2>1, <2>2, <2>3, <2>4, <2>5 DEF TreeInv
<1> QED
  BY <1>1, <1>2

(* What IndexesMatchParents asks of one list, so that a step can be checked *)
(* list by list.                                                            *)
ListsMatch(q) ==
  /\ folderChildren[q] = {f \in folders : parent[f] = q}
  /\ connectionChildren[q] \cap connections = {c \in connections : parent[c] = q}
  /\ q # NilID => connectionChildren[q] \subseteq connections

(* Tree.Move preserves the invariant.                                       *)
LEMMA MovePreserves == TreeInv /\ MoveNode => TreeInv'
<1> SUFFICES ASSUME TreeInv, MoveNode
             PROVE  TreeInv'
  OBVIOUS
<1>a. TypeOK /\ IdsDistinct /\ ParentsAreFolders /\ FoldersAcyclic /\ IndexesMatchParents
  BY DEF TreeInv
<1>b. NilID \notin ID
  BY NilIDAssumption
<1>1. ASSUME NEW id \in folders, NEW p \in Key, MoveFolder(id, p)
      PROVE  TreeInv'
  <2>1. TypeOK'
    BY <1>1, <1>a, <1>b DEF MoveFolder, Reindexed, TypeOK, Key
  <2>2. IdsDistinct'
    BY <1>1, <1>a, <1>b DEF MoveFolder, TypeOK, IdsDistinct, Nodes
  <2>3. ParentsAreFolders'
    BY <1>1, <1>a, <1>b DEF MoveFolder, TypeOK, ParentsAreFolders, Nodes
  <2>4. FoldersAcyclic'
    BY <1>1, MoveKeepsAcyclic DEF MoveFolder
  <2>5. ASSUME NEW q \in Key
        PROVE  ListsMatch(q)'
    <3>1. ListsMatch(q)
      BY <1>a DEF IndexesMatchParents, ListsMatch
    <3>2. folderChildren'[q] = IF q = p THEN folderChildren[q] \cup {id}
                               ELSE IF q = parent[id] THEN folderChildren[q] \ {id}
                               ELSE folderChildren[q]
      BY <1>1 DEF MoveFolder, Reindexed
    <3>3. {f \in folders' : parent'[f] = q} =
             IF q = p THEN {f \in folders : parent[f] = q} \cup {id}
             ELSE {f \in folders : parent[f] = q} \ {id}
      BY <1>1, <1>a DEF MoveFolder, TypeOK
    <3>4. {c \in connections' : parent'[c] = q} = {c \in connections : parent[c] = q}
      BY <1>1, <1>a DEF MoveFolder, TypeOK, IdsDistinct
    <3> QED
      BY <1>1, <3>1, <3>2, <3>3, <3>4 DEF MoveFolder, ListsMatch
  <2> QED
    BY <2>1, <2>2, <2>3, <2>4, <2>5 DEF TreeInv, IndexesMatchParents, ListsMatch
<1>2. ASSUME NEW id \in connections, NEW p \in Key, MoveConnection(id, p)
      PROVE  TreeInv'
  <2>1. TypeOK'
    BY <1>2, <1>a, <1>b DEF MoveConnection, Reindexed, TypeOK, Key
  <2>2. IdsDistinct'
    BY <1>2, <1>a, <1>b DEF MoveConnection, Reindexed, TypeOK, IdsDistinct, Nodes, Key
  <2>3. ParentsAreFolders'
    BY <1>2, <1>a, <1>b DEF MoveConnection, TypeOK, ParentsAreFolders, Nodes
  <2>4. FoldersAcyclic'
    BY <1>2, <1>a, <1>b DEF MoveConnection, TypeOK, IdsDistinct, FoldersAcyclic
  <2>5. ASSUME NEW q \in Key
        PROVE  ListsMatch(q)'
    <3>1. ListsMatch(q)
      BY <1>a DEF IndexesMatchParents, ListsMatch
    <3>2. connectionChildren'[q] = IF q = p THEN connectionChildren[q] \cup {id}
                                   ELSE IF q = parent[id] THEN connectionChildren[q] \ {id}
                                   ELSE connectionChildren[q]
      BY <1>2 DEF MoveConnection, Reindexed
    <3>3. {c \in connections' : parent'[c] = q} =
             IF q = p THEN {c \in connections : parent[c] = q} \cup {id}
             ELSE {c \in connections : parent[c] = q} \ {id}
      BY <1>2, <1>a DEF MoveConnection, TypeOK
    <3>4. {f \in folders' : parent'[f] = q} = {f \in folders : parent[f] = q}
      BY <1>2, <1>a DEF MoveConnection, TypeOK, IdsDistinct
    <3> QED
      BY <1>2, <3>1, <3>2, <3>3, <3>4 DEF MoveConnection, ListsMatch
  <2> QED
    BY <2>1, <2>2, <2>3, <2>4, <2>5 DEF TreeInv, IndexesMatchParents, ListsMatch
<1> QED
  BY <1>1, <1>2 DEF MoveNode

(* What Remove deletes with a folder: the folder itself, folders only, and   *)
(* with a folder every folder whose parent it is.                           *)
LEMMA SubtreeFacts ==
  ASSUME TreeInv, NEW id \in folders
  PROVE  /\ id \in FolderSubtree(id)
         /\ FolderSubtree(id) \subseteq folders
         /\ DownClosed(FolderSubtree(id))
         /\ \A f \in folders : parent[f] \in FolderSubtree(id) => f \in FolderSubtree(id)
         /\ \A f \in FolderSubtree(id) : f = id \/ parent[f] \in FolderSubtree(id)
<1>a. TypeOK /\ IndexesMatchParents /\ NilID \notin ID
  BY NilIDAssumption DEF TreeInv
<1>b. id \in ID /\ folders \subseteq ID
  BY <1>a DEF TypeOK
<1>1. id \in FolderSubtree(id)
  BY <1>b DEF FolderSubtree
<1>2. DownClosed(folders)
  BY <1>a DEF DownClosed, IndexesMatchParents, TypeOK, Key
<1>3. FolderSubtree(id) \subseteq folders
  BY <1>2, <1>b DEF FolderSubtree
<1>4. DownClosed(FolderSubtree(id))
  <2> SUFFICES ASSUME NEW f \in FolderSubtree(id), NEW g \in folderChildren[f]
               PROVE  g \in FolderSubtree(id)
    BY DEF DownClosed
  <2>1. g \in ID
    BY <1>a, <1>3, <1>b DEF TypeOK, Key
  <2>2. ASSUME NEW S \in SUBSET ID, id \in S, DownClosed(S)
        PROVE  g \in S
    <3>1. f \in S
      BY <2>2 DEF FolderSubtree
    <3> QED
      BY <2>2, <3>1 DEF DownClosed
  <2> QED
    BY <2>1, <2>2 DEF FolderSubtree
<1>5. \A f \in folders : parent[f] \in FolderSubtree(id) => f \in FolderSubtree(id)
  <2> SUFFICES ASSUME NEW f \in folders, parent[f] \in FolderSubtree(id)
               PROVE  f \in FolderSubtree(id)
    OBVIOUS
  <2>1. parent[f] \in Key
    BY <1>3, <1>b DEF Key
  <2>2. f \in folderChildren[parent[f]]
    BY <1>a, <2>1 DEF IndexesMatchParents
  <2> QED
    BY <2>2, <1>4 DEF DownClosed
<1>6. ASSUME NEW g \in FolderSubtree(id)
      PROVE  g = id \/ parent[g] \in FolderSubtree(id)
  <2> DEFINE S == {f \in FolderSubtree(id) : f = id \/ parent[f] \in FolderSubtree(id)}
  <2>1. S \in SUBSET ID /\ id \in S
    BY <1>1, <1>3, <1>b
  <2>2. DownClosed(S)
    <3> SUFFICES ASSUME NEW f \in S, NEW h \in folderChildren[f]
                 PROVE  h \in S
      BY DEF DownClosed
    <3>1. h \in FolderSubtree(id)
      BY <1>4 DEF DownClosed
    <3>2. parent[h] = f
      BY <1>a, <1>3, <1>b DEF IndexesMatchParents, Key
    <3> QED
      BY <3>1, <3>2
  <2>3. g \in S
    <3> HIDE DEF S
    <3> QED
      BY <2>1, <2>2 DEF FolderSubtree
  <2> QED
    BY <2>3
<1> QED
  BY <1>1, <1>3, <1>4, <1>5, <1>6

(* Tree.Remove preserves the invariant: the deleted folders are closed under *)
(* children, so no folder and no connection that stays had its parent among  *)
(* them.  On a connection the root's list is left as it was.                 *)
LEMMA DeletePreserves == TreeInv /\ DeleteNode => TreeInv'
<1> SUFFICES ASSUME TreeInv, DeleteNode
             PROVE  TreeInv'
  OBVIOUS
<1>a. TypeOK /\ IdsDistinct /\ ParentsAreFolders /\ FoldersAcyclic /\ IndexesMatchParents
  BY DEF TreeInv
<1>b. NilID \notin ID /\ folders \subseteq ID /\ connections \subseteq ID
  BY <1>a, NilIDAssumption DEF TypeOK
<1>1. ASSUME NEW id \in folders, DeleteFolder(id)
      PROVE  TreeInv'
  <2> DEFINE gone == FolderSubtree(id)
             goneC == UNION {connectionChildren[f] : f \in gone}
  <2>a. /\ id \in gone /\ gone \subseteq folders
        /\ \A f \in folders : parent[f] \in gone => f \in gone
        /\ \A f \in gone : f = id \/ parent[f] \in gone
    BY SubtreeFacts
  <2>b. /\ folders' = folders \ gone
        /\ connections' = connections \ goneC
        /\ parent' = [n \in ID |-> IF n \in gone \cup goneC THEN NilID ELSE parent[n]]
        /\ folderChildren' = [p \in Key |-> IF p \in gone THEN {} ELSE folderChildren[p] \ gone]
        /\ connectionChildren' = [p \in Key |-> IF p \in gone THEN {} ELSE connectionChildren[p]]
        /\ used' = used /\ panicked' = panicked
    BY <1>1 DEF DeleteFolder
  <2> HIDE DEF gone
  <2>c. goneC = {c \in connections : parent[c] \in gone}
    <3>1. ASSUME NEW f \in gone
          PROVE  connectionChildren[f] = {c \in connections : parent[c] = f}
      <4>1. f \in Key /\ f # NilID
        BY <2>a, <1>b DEF Key
      <4> QED
        BY <4>1, <1>a DEF IndexesMatchParents
    <3> QED
      BY <3>1
  <2> HIDE DEF goneC
  <2>1. TypeOK'
    BY <2>b, <1>a, <1>b DEF TypeOK, Key
  <2>2. IdsDistinct'
    <3>1. NilID \notin gone
      BY <2>a, <1>b
    <3> QED
      BY <3>1, <2>b, <1>a, <1>b DEF IdsDistinct, Nodes, Key
  <2>d. \A n \in Nodes' : n \in Nodes /\ parent'[n] = parent[n]
    BY <2>a, <2>b, <2>c, <1>a, <1>b DEF Nodes, IdsDistinct
  <2>3. ParentsAreFolders'
    <3> SUFFICES ASSUME NEW n \in Nodes'
                 PROVE  parent'[n] \in folders' \cup {NilID}
      BY DEF ParentsAreFolders
    <3>1. parent[n] \in folders \cup {NilID}
      BY <2>d, <1>a DEF ParentsAreFolders
    <3>2. parent[n] \notin gone
      BY <2>a, <2>b, <2>c DEF Nodes
    <3> QED
      BY <3>1, <3>2, <2>b, <2>d
  <2>4. FoldersAcyclic'
    BY <2>b, <2>d, <1>a DEF FoldersAcyclic, Nodes
  <2>5. ASSUME NEW q \in Key
        PROVE  ListsMatch(q)'
    <3>1. ListsMatch(q)
      BY <1>a DEF IndexesMatchParents, ListsMatch
    <3>2. CASE q \in gone
      BY <3>2, <2>a, <2>b, <2>c, <2>d DEF ListsMatch, Nodes
    <3>3. CASE q \notin gone
      <4>1. {f \in folders' : parent'[f] = q} = {f \in folders : parent[f] = q} \ gone
        BY <2>b, <2>d DEF Nodes
      <4>2. {c \in connections' : parent'[c] = q} = {c \in connections : parent[c] = q}
        BY <3>3, <2>b, <2>c, <2>d DEF Nodes
      <4>3. connectionChildren[q] \cap goneC = {}
        BY <3>1, <3>3, <2>c DEF ListsMatch
      <4> QED
        BY <3>1, <3>3, <2>b, <4>1, <4>2, <4>3 DEF ListsMatch
    <3> QED
      BY <3>2, <3>3
  <2> QED
    BY <2>1, <2>2, <2>3, <2>4, <2>5 DEF TreeInv, IndexesMatchParents, ListsMatch
<1>2. ASSUME NEW id \in connections, DeleteConnection(id)
      PROVE  TreeInv'
  <2>1. TypeOK'
    BY <1>2, <1>a, <1>b DEF DeleteConnection, TypeOK, Key
  <2>2. IdsDistinct'
    BY <1>2, <1>a, <1>b DEF DeleteConnection, TypeOK, IdsDistinct, Nodes, Key
  <2>d. \A n \in Nodes' : n \in Nodes /\ n # id /\ parent'[n] = parent[n]
    BY <1>2, <1>a, <1>b DEF DeleteConnection, Nodes, IdsDistinct, TypeOK
  <2>3. ParentsAreFolders'
    BY <1>2, <2>d, <1>a DEF DeleteConnection, ParentsAreFolders
  <2>4. FoldersAcyclic'
    BY <1>2, <2>d, <1>a DEF DeleteConnection, FoldersAcyclic, Nodes
  <2>5. ASSUME NEW q \in Key
        PROVE  ListsMatch(q)'
    <3>1. ListsMatch(q)
      BY <1>a DEF IndexesMatchParents, ListsMatch
    <3>2. connectionChildren'[q] = IF q # NilID /\ q = parent[id]
                                   THEN connectionChildren[q] \ {id}
                                   ELSE connectionChildren[q]
      BY <1>2 DEF DeleteConnection
    <3>3. {f \in folders' : parent'[f] = q} = {f \in folders : parent[f] = q}
      BY <1>2, <2>d DEF DeleteConnection, Nodes
    <3>4. {c \in connections' : parent'[c] = q} = {c \in connections : parent[c] = q} \ {id}
      BY <1>2, <2>d DEF DeleteConnection, Nodes
    <3> QED
      BY <1>2, <3>1, <3>2, <3>3, <3>4 DEF DeleteConnection, ListsMatch
  <2> QED
    BY <2>1, <2>2, <2>3, <2>4, <2>5 DEF TreeInv, IndexesMatchParents, ListsMatch
<1> QED
  BY <1>1, <1>2 DEF DeleteNode

(* A step that only adds nodes with fresh ids: the folders F and the         *)
(* connections C, whose parents, given by up, are the root, a folder of the  *)
(* tree or one of F, and no cycle among F.                                   *)
Adds(F, C, up) ==
  /\ F \subseteq Fresh /\ C \subseteq Fresh /\ F \cap C = {}
  /\ \A n \in F \cup C : up[n] \in folders \cup F \cup {NilID}
  /\ \A S \in SUBSET F : S # {} => \E f \in S : up[f] \notin S
  /\ folders' = folders \cup F
  /\ connections' = connections \cup C
  /\ parent' = [n \in ID |-> IF n \in F \cup C THEN up[n] ELSE parent[n]]
  /\ folderChildren' = [p \in Key |-> folderChildren[p] \cup {f \in F : up[f] = p}]
  /\ connectionChildren' =
       [p \in Key |-> connectionChildren[p] \cup {c \in C : up[c] = p}]
  /\ used' = used \cup F \cup C
  /\ panicked' = panicked

(* Such a step preserves the invariant.                                      *)
LEMMA AddingPreserves ==
  ASSUME TreeInv, NEW F, NEW C, NEW up, Adds(F, C, up)
  PROVE  TreeInv'
<1> USE DEF Adds
<1>a. TypeOK /\ IdsDistinct /\ ParentsAreFolders /\ FoldersAcyclic /\ IndexesMatchParents
  BY DEF TreeInv
<1>b. NilID \notin ID /\ folders \subseteq ID /\ connections \subseteq ID
  BY <1>a, NilIDAssumption DEF TypeOK
<1>c. F \subseteq ID /\ C \subseteq ID /\ (F \cup C) \cap used = {}
  BY DEF Fresh
<1>d. (F \cup C) \cap (folders \cup connections) = {}
  BY <1>a, <1>c DEF IdsDistinct, Nodes
<1>e. \A n \in folders \cup connections : parent'[n] = parent[n]
  BY <1>b, <1>d
<1>f. \A n \in F \cup C : parent'[n] = up[n]
  BY <1>c
<1>1. TypeOK'
  <2>1. parent' \in [ID -> Key]
    BY <1>a, <1>b, <1>c DEF TypeOK, Key
  <2> QED
    BY <2>1, <1>a, <1>b, <1>c DEF TypeOK
<1>2. IdsDistinct'
  BY <1>a, <1>b, <1>c, <1>d DEF IdsDistinct, Nodes, Key
<1>3. ParentsAreFolders'
  BY <1>a, <1>e, <1>f DEF ParentsAreFolders, Nodes
<1>4. FoldersAcyclic'
  <2> SUFFICES ASSUME NEW S \in SUBSET folders', S # {}, \A f \in S : parent'[f] \in S
               PROVE  FALSE
    BY DEF FoldersAcyclic
  <2>1. CASE S \cap folders = {}
    <3>1. S \in SUBSET F
      BY <2>1
    <3> QED
      BY <3>1, <1>f
  <2>2. CASE S \cap folders # {}
    <3>1. \A f \in S \cap folders : parent[f] \in S \cap folders
      BY <1>a, <1>b, <1>c, <1>e, SMTT(30) DEF ParentsAreFolders, Nodes
    <3> QED
      BY <2>2, <3>1, <1>a DEF FoldersAcyclic
  <2> QED
    BY <2>1, <2>2
<1>5. ASSUME NEW q \in Key
      PROVE  ListsMatch(q)'
  <2>1. ListsMatch(q)
    BY <1>a DEF IndexesMatchParents, ListsMatch
  <2>2. {f \in folders' : parent'[f] = q}
          = {f \in folders : parent[f] = q} \cup {f \in F : up[f] = q}
    BY <1>e, <1>f
  <2>3. {c \in connections' : parent'[c] = q}
          = {c \in connections : parent[c] = q} \cup {c \in C : up[c] = q}
    BY <1>e, <1>f
  <2>4. connectionChildren[q] \cap C = {}
    BY <2>1, <1>a, <1>c, <1>d DEF ListsMatch, IdsDistinct
  <2>5. {c \in C : up[c] = q} \cap connections = {}
    BY <1>d
  <2> QED
    BY <2>1, <2>2, <2>3, <2>4, <2>5 DEF ListsMatch
<1> QED
  BY <1>1, <1>2, <1>3, <1>4, <1>5 DEF TreeInv, IndexesMatchParents, ListsMatch

(* ImportMRemoteNG's merge preserves the invariant.                         *)
LEMMA ImportPreserves == TreeInv /\ Import => TreeInv'
<1> SUFFICES ASSUME TreeInv, NEW fs \in SUBSET Fresh, NEW cs \in SUBSET Fresh,
                    NEW up \in [fs \cup cs -> fs \cup {NilID}], ImportMRemoteNG(fs, cs, up)
             PROVE  TreeInv'
  BY DEF Import
<1>1. Adds(fs, cs, up)
  BY DEF ImportMRemoteNG, Adds
<1> QED
  BY <1>1, AddingPreserves

(* DuplicateNode preserves the invariant: the copies are a renaming of the   *)
(* subtree, so a cycle among them would be one among the originals.          *)
LEMMA DuplicatePreserves == TreeInv /\ Duplicate => TreeInv'
<1> SUFFICES ASSUME TreeInv, NEW id \in Nodes, NEW idMap \in Injections(Subtree(id), Fresh),
                    DuplicateNode(id, idMap)
             PROVE  TreeInv'
  BY DEF Duplicate
<1>a. TypeOK /\ IdsDistinct /\ ParentsAreFolders /\ FoldersAcyclic /\ IndexesMatchParents
  BY DEF TreeInv
<1>b. NilID \notin ID /\ folders \subseteq ID /\ connections \subseteq ID
  BY <1>a, NilIDAssumption DEF TypeOK
<1> DEFINE sub == Subtree(id)
           copies == {idMap[n] : n \in sub}
           original(c) == CHOOSE n \in sub : idMap[n] = c
           copyParent(c) == IF original(c) = id THEN parent[id] ELSE idMap[parent[original(c)]]
           F == {idMap[n] : n \in sub \cap folders}
           C == {idMap[n] : n \in sub \cap connections}
           up == [c \in copies |-> copyParent(c)]
<1>1. idMap \in [sub -> Fresh] /\ \A x, y \in sub : idMap[x] = idMap[y] => x = y
  BY DEF Injections
<1>2. \A n \in sub : original(idMap[n]) = n
  BY <1>1
<1>3. /\ sub \subseteq Nodes
      /\ \A n \in sub : n = id \/ (parent[n] \in sub /\ parent[n] \in folders)
  <2>1. CASE id \in connections
    BY <2>1 DEF Subtree, Nodes
  <2>2. CASE id \notin connections
    <3>1. id \in folders
      BY <2>2 DEF Nodes
    <3>2. sub = FolderSubtree(id) \cup UNION {connectionChildren[f] : f \in FolderSubtree(id)}
      BY <2>2 DEF Subtree
    <3>3. /\ FolderSubtree(id) \subseteq folders
          /\ \A f \in FolderSubtree(id) : f = id \/ parent[f] \in FolderSubtree(id)
      BY <3>1, SubtreeFacts
    <3>4. ASSUME NEW f \in FolderSubtree(id)
          PROVE  connectionChildren[f] = {c \in connections : parent[c] = f}
      <4>1. f \in Key /\ f # NilID
        BY <3>3, <1>b DEF Key
      <4> QED
        BY <4>1, <1>a DEF IndexesMatchParents
    <3> QED
      BY <3>2, <3>3, <3>4 DEF Nodes
  <2> QED
    BY <2>1, <2>2
<1>4. /\ folders' = folders \cup F
      /\ connections' = connections \cup C
      /\ parent' = [n \in ID |-> IF n \in copies THEN copyParent(n) ELSE parent[n]]
      /\ folderChildren' = [p \in Key |-> folderChildren[p] \cup {c \in F : copyParent(c) = p}]
      /\ connectionChildren' =
           [p \in Key |-> connectionChildren[p] \cup {c \in C : copyParent(c) = p}]
      /\ used' = used \cup copies
      /\ panicked' = panicked
  BY DEF DuplicateNode
<1>5. copies = F \cup C
  BY <1>3 DEF Nodes
<1>6. F \in SUBSET Fresh /\ C \in SUBSET Fresh
  BY <1>1
<1>7. F \cap C = {}
  BY <1>1, <1>a DEF IdsDistinct
<1>8. ASSUME NEW n \in sub
      PROVE  up[idMap[n]] = IF n = id THEN parent[id] ELSE idMap[parent[n]]
  <2>1. up[idMap[n]] = copyParent(idMap[n])
    <3> HIDE DEF copyParent, sub
    <3> QED
      OBVIOUS
  <2>2. original(idMap[n]) = n
    BY <1>2
  <2> HIDE DEF original, up
  <2> QED
    BY <2>1, <2>2
<1> HIDE DEF original, copyParent, up, sub
<1>9. \A n \in F \cup C : up[n] \in folders \cup F \cup {NilID}
  <2> SUFFICES ASSUME NEW n \in sub
               PROVE  up[idMap[n]] \in folders \cup F \cup {NilID}
    BY <1>3 DEF Nodes
  <2>1. CASE n = id
    BY <2>1, <1>8, <1>a DEF ParentsAreFolders
  <2>2. CASE n # id
    BY <2>2, <1>8, <1>3
  <2> QED
    BY <2>1, <2>2
<1>10. ASSUME NEW S \in SUBSET F, S # {}, \A f \in S : up[f] \in S
       PROVE  FALSE
  <2> DEFINE T == {n \in sub \cap folders : idMap[n] \in S}
  <2>1. T # {} /\ T \in SUBSET folders
    BY <1>10
  <2>2. ASSUME NEW n \in T
        PROVE  parent[n] \in T
    <3>1. up[idMap[n]] \in S
      BY <1>10
    <3>2. n # id
      <4>1. parent[id] \notin F
        BY <1>a, <1>6, <1>b DEF ParentsAreFolders, IdsDistinct, Nodes, Fresh
      <4> QED
        BY <4>1, <3>1, <1>8
    <3> QED
      BY <3>1, <3>2, <1>3, <1>8
  <2> QED
    BY <2>1, <2>2, <1>a DEF FoldersAcyclic
<1>11. /\ parent' = [n \in ID |-> IF n \in F \cup C THEN up[n] ELSE parent[n]]
       /\ folderChildren' = [p \in Key |-> folderChildren[p] \cup {c \in F : up[c] = p}]
       /\ connectionChildren' =
            [p \in Key |-> connectionChildren[p] \cup {c \in C : up[c] = p}]
       /\ used' = used \cup F \cup C
  <2>1. \A c \in copies : up[c] = copyParent(c)
    BY DEF up
  <2> HIDE DEF copies, F, C
  <2> QED
    BY <2>1, <1>4, <1>5
<1>12. Adds(F, C, up)
  <2> HIDE DEF copies, F, C
  <2> QED
    BY <1>4, <1>6, <1>7, <1>9, <1>10, <1>11 DEF Adds
<1> QED
  BY <1>12, AddingPreserves

(* Walk visits every folder: the folders it misses would all have a parent   *)
(* that it also misses.  It therefore visits every connection.               *)
LEMMA WalkFacts ==
  ASSUME TreeInv
  PROVE  WalkReachesEverything
<1>a. TypeOK /\ ParentsAreFolders /\ FoldersAcyclic /\ IndexesMatchParents /\ NilID \notin ID
  BY NilIDAssumption DEF TreeInv
<1>1. folders \subseteq WalkedFolders
  <2> DEFINE S == folders \ WalkedFolders
  <2> SUFFICES ASSUME S # {}
               PROVE  FALSE
    OBVIOUS
  <2>1. PICK f \in S : parent[f] \notin S
    BY <1>a DEF FoldersAcyclic
  <2>2. f \in ID /\ parent[f] \in Key /\ f \in folderChildren[parent[f]]
    BY <1>a DEF TypeOK, IndexesMatchParents
  <2>3. parent[f] = NilID \/ parent[f] \in WalkedFolders
    BY <2>1, <1>a DEF ParentsAreFolders, Nodes
  <2>4. ASSUME NEW T \in SUBSET ID, folderChildren[NilID] \subseteq T, DownClosed(T)
        PROVE  f \in T
    <3>1. CASE parent[f] = NilID
      BY <3>1, <2>2, <2>4
    <3>2. CASE parent[f] \in WalkedFolders
      BY <3>2, <2>2, <2>4 DEF WalkedFolders, DownClosed
    <3> QED
      BY <2>3, <3>1, <3>2
  <2>5. f \in WalkedFolders
    BY <2>2, <2>4 DEF WalkedFolders
  <2> QED
    BY <2>5
<1>2. connections \subseteq WalkedConnections
  <2> SUFFICES ASSUME NEW c \in connections
               PROVE  c \in WalkedConnections
    OBVIOUS
  <2>1. parent[c] \in Key /\ c \in connectionChildren[parent[c]]
    BY <1>a DEF TypeOK, IndexesMatchParents
  <2>2. parent[c] \in WalkedFolders \cup {NilID}
    BY <1>1, <1>a DEF ParentsAreFolders, Nodes
  <2> QED
    BY <2>1, <2>2 DEF WalkedConnections
<1> QED
  BY <1>1, <1>2 DEF WalkReachesEverything

(* Saving and loading gives back the nodes and their parents, and indexes    *)
(* rebuilt from the parents.                                                 *)
LEMMA ReloadFacts ==
  ASSUME TreeInv, SaveAndReload
  PROVE  /\ TreeInv'
         /\ folders' = folders /\ connections' = connections
         /\ \A n \in Nodes : parent'[n] = parent[n]
<1>a. TypeOK /\ IdsDistinct /\ ParentsAreFolders /\ FoldersAcyclic /\ IndexesMatchParents
  BY DEF TreeInv
<1>b. NilID \notin ID /\ folders \subseteq ID /\ connections \subseteq ID
  BY <1>a, NilIDAssumption DEF TypeOK
<1>c. WalkedFolders \cap folders = folders /\ WalkedConnections \cap connections = connections
  BY WalkFacts DEF WalkReachesEverything
<1>1. /\ folders' = folders /\ connections' = connections
      /\ parent' = [n \in ID |-> IF n \in folders \cup connections THEN parent[n] ELSE NilID]
      /\ folderChildren' = [p \in Key |-> {f \in folders : parent[f] = p}]
      /\ connectionChildren' = [p \in Key |-> {c \in connections : parent[c] = p}]
      /\ used' = used /\ panicked' = panicked
  BY <1>c DEF SaveAndReload
<1>2. \A n \in Nodes : parent'[n] = parent[n]
  BY <1>1, <1>b DEF Nodes
<1>3. TypeOK'
  BY <1>1, <1>a, <1>b DEF TypeOK, Key
<1>4. IdsDistinct'
  BY <1>1, <1>a, <1>b DEF IdsDistinct, Nodes, Key
<1>5. ParentsAreFolders' /\ FoldersAcyclic'
  BY <1>1, <1>2, <1>a DEF ParentsAreFolders, FoldersAcyclic, Nodes
<1>6. IndexesMatchParents'
  BY <1>1, <1>2, <1>b DEF IndexesMatchParents, Nodes
<1> QED
  BY <1>1, <1>2, <1>3, <1>4, <1>5, <1>6 DEF TreeInv

(* Every step preserves the invariant.                                       *)
LEMMA NextPreserves == TreeInv /\ [Next]_vars => TreeInv'
<1> SUFFICES ASSUME TreeInv, [Next]_vars
             PROVE  TreeInv'
  OBVIOUS
<1>1. CASE VisitNilNode
  BY <1>1 DEF VisitNilNode, TreeInv, TypeOK, IdsDistinct, Nodes, ParentsAreFolders,
     FoldersAcyclic, IndexesMatchParents
<1>2. CASE UNCHANGED vars
  BY <1>2 DEF vars, TreeInv, TypeOK, IdsDistinct, Nodes, ParentsAreFolders,
     FoldersAcyclic, IndexesMatchParents
<1> QED
  BY <1>1, <1>2, CreatePreserves, MovePreserves, DeletePreserves, DuplicatePreserves,
     ImportPreserves, ReloadFacts DEF Next

(* The tree of tree.go is well formed after every sequence of commands, for  *)
(* every set of ids: types, ids drawn once, parents that exist, no cycle,    *)
(* and indexes that agree with the parent pointers.                          *)
THEOREM TreeWellFormed == Spec => []TreeInv
BY InitTreeInv, NextPreserves, PTL DEF Spec

(* The variables keep their types.                                           *)
THEOREM TypesHold == Spec => []TypeOK
<1>1. TreeInv => TypeOK
  BY DEF TreeInv
<1> QED
  BY <1>1, TreeWellFormed, PTL

(* AddFolder, Move, Remove, DuplicateNode and ImportMRemoteNG never leave a   *)
(* node under something that is not a folder of the tree.                    *)
THEOREM ParentsExist == Spec => []ParentsAreFolders
<1>1. TreeInv => ParentsAreFolders
  BY DEF TreeInv
<1> QED
  BY <1>1, TreeWellFormed, PTL

(* No sequence of commands makes a cycle of folders, so Ancestors, Walk and   *)
(* isDescendantFolder end.                                                   *)
THEOREM NoCycle == Spec => []FoldersAcyclic
<1>1. TreeInv => FoldersAcyclic
  BY DEF TreeInv
<1> QED
  BY <1>1, TreeWellFormed, PTL

(* The indexes that Walk and Remove follow agree with the parent pointers     *)
(* that Move and Ancestors follow.                                           *)
THEOREM IndexesAgree == Spec => []IndexesMatchParents
<1>1. TreeInv => IndexesMatchParents
  BY DEF TreeInv
<1> QED
  BY <1>1, TreeWellFormed, PTL

(* Walk visits every node, so Save writes and ListTree shows all of the tree. *)
THEOREM WalkComplete == Spec => []WalkReachesEverything
<1>1. TreeInv => WalkReachesEverything
  BY WalkFacts
<1> QED
  BY <1>1, TreeWellFormed, PTL

(* Save followed by Load gives back every node under its parent.             *)
THEOREM ReloadLosesNothing == Spec => ReloadKeepsTree
<1>1. TreeInv /\ [Next]_vars =>
        [SaveAndReload => /\ folders' = folders
                          /\ connections' = connections
                          /\ \A n \in Nodes : parent'[n] = parent[n]]_vars
  BY ReloadFacts
<1> QED
  BY <1>1, TreeWellFormed, PTL DEF Spec, ReloadKeepsTree
=============================================================================
