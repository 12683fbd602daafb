------------------------------- MODULE Initrd -------------------------------
(***************************************************************************)
(* The boot archive: make_initrd.c packs files under image names, and      *)
(* initialise_initrd() turns the headers into a tree of nodes.  A failed   *)
(* ASSERT of the kernel is ok = FALSE.                                     *)
(*                                                                         *)
(* An image name is the sequence of strings between its slashes: a leading,*)
(* trailing or double slash is an Empty component.  A byte of file data is *)
(* its position in the archive, counted from the first one after the       *)
(* headers.                                                                *)
(***************************************************************************)
EXTENDS FileTree

CONSTANTS
  MaxFiles,      \* MAX_INITRD_FILES and INITRD_HEADER_SLOTS: 64
  MaxNameBytes,  \* sizeof(header.name) - 1: 63
  MaxImage       \* bytes of data that 32-bit offsets reach behind the headers

ASSUME MaxFilesAssumption == MaxFiles \in Nat /\ MaxNameBytes \in Nat /\ MaxImage \in Nat
\* A name that fits in a header has no more than MaxComponents components.
ASSUME NameBytesAssumption ==
  MaxNameBytes < (MaxComponents + 1) * (NameLength + 1) - 1

Dev == "dev"

PathStrings == [abs : BOOLEAN, names : Seq(STRING \ {Empty})]

NameBytes(name) == Len(name) * (NameLength + 1) - 1

-----------------------------------------------------------------------------
(* make_initrd.c *)

ValidImagePath(name) ==
  name # <<>> /\ \A i \in 1 .. Len(name) : name[i] \notin {Empty, Dot, DotDot}

\* DataEnd(files)[i] is where the data of the first i files ends.
DataEnd(files) ==
  LET end[i \in 0 .. Len(files)] == IF i = 0 THEN 0 ELSE end[i - 1] + files[i].length
  IN end

MakeInitrdAccepts(files) ==
  /\ Len(files) \in 1 .. MaxFiles
  /\ \A i \in 1 .. Len(files) :
       /\ NameBytes(files[i].name) <= MaxNameBytes
       /\ ValidImagePath(files[i].name)
       /\ \A j \in 1 .. i - 1 : files[j].name # files[i].name
       /\ DataEnd(files)[i] <= MaxImage

\* The header of each file: its data follows that of the files before it.
Headers(files) ==
  [i \in 1 .. Len(files) |->
    [name |-> files[i].name, length |-> files[i].length, offset |-> DataEnd(files)[i - 1]]]

ImageEnd(files) == DataEnd(files)[Len(files)]

-----------------------------------------------------------------------------
(* initrd.c at boot.  s is [tree, dir, ok]. *)

GetOrCreateDirectory(s, name) ==
  LET node == FindChild(s.tree, s.dir, name) IN
  IF ~s.ok THEN s
  ELSE IF node = Null
  THEN [tree |-> AttachChild(s.tree, s.dir, NewDirectory(name)), dir |-> Len(s.tree) + 1,
        ok |-> TRUE]
  ELSE [tree |-> s.tree, dir |-> node, ok |-> IsDir(s.tree, node)]

\* The directories of a name, from the root.
Directories(s, names) ==
  LET at[k \in 0 .. Len(names)] ==
        IF k = 0 THEN [s EXCEPT !.dir = Root] ELSE GetOrCreateDirectory(at[k - 1], names[k])
  IN at

(* The Bug_ definitions are seeded defects, see Tasks. *)
Bug_AddArchivedFileUnchecked(s, i, header) ==
  LET path == Directories(s, header.name)[Len(header.name) - 1]
      file == NewNode(Last(header.name), "regular", i, header.length)
  IN IF path.ok THEN [path EXCEPT !.tree = AttachChild(path.tree, path.dir, file)]
     ELSE path

\* add_archived_file(), with its assertions.
AddArchivedFile(s, i, header) ==
  LET path == Directories(s, header.name)[Len(header.name) - 1]
      file == NewNode(Last(header.name), "regular", i, header.length)
  IN IF /\ NameBytes(header.name) <= MaxNameBytes
        /\ \A k \in 1 .. Len(header.name) : header.name[k] \notin {Empty, Dot, DotDot}
        /\ Len(header.name) \in 1 .. MaxComponents
        /\ path.ok
        /\ FindChild(path.tree, path.dir, Last(header.name)) = Null
     THEN [path EXCEPT !.tree = AttachChild(path.tree, path.dir, file)]
     ELSE [s EXCEPT !.ok = FALSE]

InImage(header, end) == header.offset <= end /\ header.length <= end - header.offset

\* The root and /dev.
EmptyTree ==
  AttachChild(<<NewDirectory("initrd")>>, Root, NewDirectory(Dev))

AddHeader(s, i, header, end) ==
  IF s.ok /\ InImage(header, end) THEN AddArchivedFile(s, i, header)
  ELSE [s EXCEPT !.ok = FALSE]

\* initialise_initrd(): every archived file, in order.
Mounting(headers, end) ==
  LET at[i \in 0 .. Len(headers)] ==
        IF i = 0 THEN [tree |-> EmptyTree, dir |-> Root, ok |-> Len(headers) <= MaxFiles]
        ELSE AddHeader(at[i - 1], i, headers[i], end)
  IN at

InitialiseInitrd(headers, end) == Mounting(headers, end)[Len(headers)]

-----------------------------------------------------------------------------
(* initrd.c when the system is up. *)

\* initrd_read(): the bytes it copies.
InitrdRead(header, offset, size) ==
  IF offset >= header.length THEN <<>>
  ELSE [k \in 1 .. Min({size, header.length - offset}) |-> header.offset + offset + k - 1]

-----------------------------------------------------------------------------
(***************************************************************************)
(* What an archive must be for a tree to hold it: no file where another    *)
(* path needs a directory, and none in the place of /dev.                  *)
(***************************************************************************)
Mountable(files) ==
  \A i \in 1 .. Len(files) :
    /\ files[i].name # <<Dev>>
    /\ \A j \in 1 .. Len(files) : ~IsStrictPrefix(files[i].name, files[j].name)
=============================================================================
