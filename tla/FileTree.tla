------------------------------ MODULE FileTree ------------------------------
(***************************************************************************)
(* The node tree of fs.c and initrd.c, as a value: node k is t[k], node 1  *)
(* the root, Null the null pointer.  Nodes are never freed, so a node is   *)
(* the number of its allocation.  kids is the list first_child,            *)
(* next_sibling, ...; inode counts file headers from 1, the code from 0.   *)
(*                                                                         *)
(* A path is [abs, names]: whether it begins with a slash, and the names   *)
(* between its slashes.  Repeated and trailing slashes leave no trace in   *)
(* it because the code skips them.                                         *)
(***************************************************************************)
EXTENDS Integers, Sequences, SequencesExt

CONSTANTS
  MaxComponents,   \* MAX_PATH_COMPONENTS in initrd.c, components[] in get_path_fs: 32
  NameLength       \* bytes in each of the model's names

ASSUME MaxComponentsAssumption == MaxComponents \in Nat \ {0}
ASSUME NameLengthAssumption    == NameLength \in Nat \ {0}

Null == 0
Root == 1

Dot    == "."
DotDot == ".."
Empty  == ""                      \* no name in a path
Long   == "128 bytes or more"     \* a name that component[] cannot hold

-----------------------------------------------------------------------------
(* initrd.c: nodes and lists of children. *)

NewNode(name, type, inode, length) ==
  [name |-> name, type |-> type, parent |-> Null, kids |-> <<>>,
   inode |-> inode, length |-> length]

NewDirectory(name) == NewNode(name, "directory", 0, 0)

\* attach_child() of a node allocated just before.
AttachChild(t, parent, node) ==
  Append([t EXCEPT ![parent].kids = <<Len(t) + 1>> \o @],
         [node EXCEPT !.parent = parent])

\* find_child(): the first in the list with that name.
FindChild(t, dir, name) ==
  LET kids == t[dir].kids
      found == {i \in 1 .. Len(kids) : t[kids[i]].name = name}
  IN IF found = {} THEN Null ELSE kids[Min(found)]

-----------------------------------------------------------------------------
(* fs.c: lookup. *)

IsDir(t, n)  == n # Null /\ t[n].type = "directory"
IsFile(t, n) == n # Null /\ t[n].type = "regular"

FindDir(t, n, name) == IF IsDir(t, n) THEN FindChild(t, n, name) ELSE Null

(* The Bug_ definitions are seeded defects, see Tasks. *)
Bug_ReadDirFromOne(t, n, index) ==
  IF IsDir(t, n) /\ index + 1 < Len(t[n].kids) THEN t[n].kids[index + 2] ELSE Null

\* readdir_fs(): the child at a position of the list.
ReadDir(t, n, index) ==
  IF IsDir(t, n) /\ index < Len(t[n].kids) THEN t[n].kids[index + 1] ELSE Null

Bug_DescendPastRoot(t, n, name) ==
  IF n = Null \/ name = Long THEN Null
  ELSE IF name = Dot THEN n
  ELSE IF name = DotDot THEN t[n].parent
  ELSE FindDir(t, n, name)

\* One component of resolve_path_fs().  "." and ".." do not ask what node is.
Descend(t, n, name) ==
  IF n = Null \/ name = Long THEN Null
  ELSE IF name = Dot THEN n
  ELSE IF name = DotDot THEN IF n # Root /\ t[n].parent # Null THEN t[n].parent ELSE n
  ELSE FindDir(t, n, name)

Start(cwd, path) == IF path.abs THEN Root ELSE cwd

\* Walk(t, start, names)[k] is where the first k names lead from start.
Walk(t, start, names) ==
  LET node[k \in 0 .. Len(names)] ==
        IF k = 0 THEN start ELSE Descend(t, node[k - 1], names[k])
  IN node

\* resolve_path_fs()
ResolvePath(t, cwd, path) == Walk(t, Start(cwd, path), path.names)[Len(path.names)]

-----------------------------------------------------------------------------
(* fs.c: mkdir. *)

MkdirDescend(t, n, name) ==
  LET next == Descend(t, n, name) IN IF IsDir(t, next) THEN next ELSE Null

MkdirWalk(t, start, names) ==
  LET node[k \in 0 .. Len(names)] ==
        IF k = 0 THEN start ELSE MkdirDescend(t, node[k - 1], names[k])
  IN node

\* The directory in which mkdir_path_fs() creates the last name.
MkdirParent(t, cwd, path) ==
  MkdirWalk(t, Start(cwd, path), path.names)[Len(path.names) - 1]

Bug_MkdirDuplicates(t, parent, name) == IsDir(t, parent)

\* mkdir_fs() and initrd_mkdir() succeed.
MkdirSucceeds(t, parent, name) == IsDir(t, parent) /\ FindChild(t, parent, name) = Null

\* The tree after mkdir_path_fs(); the same tree when it returns -1.
MkdirPath(t, cwd, path) ==
  IF /\ path.names # <<>>
     /\ Last(path.names) \notin {Dot, DotDot, Long}
     /\ MkdirSucceeds(t, MkdirParent(t, cwd, path), Last(path.names))
  THEN AttachChild(t, MkdirParent(t, cwd, path), NewDirectory(Last(path.names)))
  ELSE t

-----------------------------------------------------------------------------
(* fs.c: the absolute path of a node. *)

ParentOf(t, n) == IF n = Null THEN Null ELSE t[n].parent

\* Ancestor(t, n)[k] is the node k levels above n.
Ancestor(t, n) ==
  LET up[k \in 0 .. MaxComponents] == IF k = 0 THEN n ELSE ParentOf(t, up[k - 1])
  IN up

NoPath == [abs |-> FALSE, names |-> <<>>]

PathBytes(depth) == IF depth = 0 THEN 2 ELSE depth * (NameLength + 1) + 1

Bug_GetPathOneShort(t, n, capacity) ==
  LET up == Ancestor(t, n)
      depths == {k \in 0 .. MaxComponents : up[k] = Root}
      depth == Min(depths)
  IN IF depths = {} \/ PathBytes(depth) > capacity THEN NoPath
     ELSE [abs |-> TRUE, names |-> [i \in 1 .. depth - 1 |-> t[up[depth - i]].name]]

\* get_path_fs(): NoPath stands for -1.
GetPath(t, n, capacity) ==
  LET up == Ancestor(t, n)
      depths == {k \in 0 .. MaxComponents : up[k] = Root}
      depth == Min(depths)
  IN IF depths = {} \/ PathBytes(depth) > capacity THEN NoPath
     ELSE [abs |-> TRUE, names |-> [i \in 1 .. depth |-> t[up[depth - i]].name]]

-----------------------------------------------------------------------------
(* The tree as a set of paths, against which lookups are checked. *)

\* The names from the root down to each node.
PathTo(t) ==
  LET path[n \in 1 .. Len(t)] ==
        IF n = Root THEN <<>> ELSE Append(path[t[n].parent], t[n].name)
  IN path

\* A path followed name by name on names instead of nodes.
Fails == <<Empty>>
FollowName(paths, at, name) ==
  IF at = Fails \/ name = Dot THEN at
  ELSE IF name = DotDot THEN IF at = <<>> THEN <<>> ELSE Front(at)
  ELSE IF Append(at, name) \in paths THEN Append(at, name) ELSE Fails

Follow(paths, from, names) ==
  LET at[k \in 0 .. Len(names)] ==
        IF k = 0 THEN from ELSE FollowName(paths, at[k - 1], names[k])
  IN at
=============================================================================
