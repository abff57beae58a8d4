----------------------------- MODULE FileScanner -----------------------------
(***************************************************************************)
(* scan_directory (platform/windows/file_scanner.cpp): the walk that turns *)
(* a folder of the disk into a ScanTree and a ScanProgress.                *)
(*                                                                         *)
(* The disk is constant.  What can go wrong with it is not: any folder may *)
(* fail to open and any enumeration may break off, and the entries of a    *)
(* folder come in any order.  An entry stands for its name and path; "."   *)
(* and "..", which the walk skips, are left out.                           *)
(*                                                                         *)
(* One step of the walk is one look at the stop token with what follows up *)
(* to the next look.                                                       *)
(***************************************************************************)
EXTENDS ScanTree, Sequences

CONSTANTS
  Items,        \* the entries on the disk
  Scanned,      \* the one that is the scanned folder
  Folders,      \* those with FILE_ATTRIBUTE_DIRECTORY
  Links,        \* those with FILE_ATTRIBUTE_REPARSE_POINT
  Contents,     \* Contents[i]: what is found in i when it is opened
  FileSize,     \* FileSize[i]: its bytes
  NameLength,   \* NameLength[i]: the characters of its name
  MaxNodes,     \* the most nodes a tree can have, 2^32-1 in the code
  MaxNames      \* the most characters its names can have, 2^32-1

\* A folder that is no link holds what no other such folder holds; what a
\* link shows is elsewhere.
ASSUME DiskAssumption ==
  /\ Scanned \in Folders \ Links
  /\ Folders \subseteq Items /\ Links \subseteq Items
  /\ Contents \in [Items -> SUBSET (Items \ {Scanned})]
  /\ \A i \in Items \ Folders : Contents[i] = {}
  /\ \A d, e \in Folders \ Links : d # e => Contents[d] \cap Contents[e] = {}
  /\ \A i \in Folders \ Links : i \notin Contents[i]
  /\ FileSize \in [Items -> 0 .. MaxBytes]
  /\ NameLength \in [Items -> Nat]

ASSUME LimitsAssumption ==
  /\ MaxBytes \in Nat /\ MaxNodes \in Nat \ {0} /\ MaxNames \in Nat
  /\ NameLength[Scanned] <= MaxNames

VARIABLES
  stop,        \* the stop token
  tree,        \* tree
  pending,     \* pending: folders to open, the last first
  folder,      \* work.node while its enumeration runs, or invalid_node
  left,        \* what the enumeration has yet to return
  progress,    \* progress
  published,   \* the progress the callback was told last
  totals,      \* what aggregate() computed
  completion   \* the completion of the result, or "None" before it

vars == <<stop, tree, pending, folder, left, progress, published, totals, completion>>

NoProgress ==
  [entries |-> 0, files |-> 0, directories |-> 0, logicalBytes |-> 0, errors |-> 0]

Init ==
  /\ stop = FALSE
  /\ tree = EmptyTree
  /\ pending = <<>>
  /\ folder = invalid_node
  /\ left = {}
  /\ progress = NoProgress
  /\ published = NoProgress
  /\ totals = EmptyTree
  /\ completion = "None"

\* ScanSession requests it while the walk runs.
RequestStop ==
  /\ completion = "None"
  /\ ~stop
  /\ stop' = TRUE
  /\ UNCHANGED <<tree, pending, folder, left, progress, published, totals, completion>>

-----------------------------------------------------------------------------
\* publish(progress, false): told now, or too soon after the last time.
Published == published' \in {published, progress'}

\* publish(progress, true)
LastPublished == published' = progress'

\* The walk ends with what it has: aggregate() and the last publication.
Returns(result) ==
  /\ completion' = result
  /\ totals' = Aggregated(tree)
  /\ UNCHANGED <<stop, tree, pending, folder, left, progress>>
  /\ LastPublished

AtStart == completion = "None" /\ tree = EmptyTree
Opening == completion = "None" /\ folder = invalid_node /\ pending # <<>>
Enumerating == completion = "None" /\ folder # invalid_node

\* Each place that looks at the stop token.  While a folder is enumerated
\* "." or ".." may be the entry before which it does.
Cancelled == stop /\ (AtStart \/ Opening \/ Enumerating) /\ Returns("Cancelled")

RootUnavailable ==
  /\ AtStart /\ ~stop
  /\ progress' = [progress EXCEPT !.errors = 1]
  /\ completion' = "RootUnavailable"
  /\ LastPublished
  /\ UNCHANGED <<stop, tree, pending, folder, left, totals>>

AddRoot ==
  /\ AtStart /\ ~stop
  /\ tree' = Appended(tree, invalid_node, Scanned, 0, {"Directory"})
  /\ pending' = <<[node |-> Root, item |-> Scanned]>>
  /\ UNCHANGED <<stop, folder, left, progress, published, totals, completion>>

-----------------------------------------------------------------------------
Work == pending[Len(pending)]
Popped == SubSeq(pending, 1, Len(pending) - 1)

Counted(field) == [progress EXCEPT ![field] = @ + 1]

OpenFails ==
  /\ Opening /\ ~stop
  /\ pending' = Popped
  /\ tree' = Flagged(tree, Work.node, {"Inaccessible", "Incomplete"})
  /\ progress' = Counted("errors")
  /\ Published
  /\ UNCHANGED <<stop, folder, left, totals, completion>>

OpenFolder ==
  /\ Opening /\ ~stop
  /\ pending' = Popped
  /\ folder' = Work.node
  /\ left' = Contents[Work.item]
  /\ UNCHANGED <<stop, tree, progress, published, totals, completion>>

NamesLength == MapThenFoldSet(+, 0, LAMBDA n : NameLength[tree[n].item],
                              LAMBDA S : CHOOSE n \in S : TRUE, DOMAIN tree)

\* append_node's limits.
Fits(i) ==
  /\ Cardinality(DOMAIN tree) < MaxNodes
  /\ NamesLength + NameLength[i] <= MaxNames

FlagsOf(i) == (IF i \in Folders THEN {"Directory"} ELSE {})
              \cup IF i \in Links THEN {"ReparsePoint"} ELSE {}

SizeOf(i) == IF i \in Folders THEN 0 ELSE FileSize[i]

\* A seeded fault: links are followed.
LinksOpenedLater(i) == i \in Folders

\* A seeded fault: whatever is not a link is opened.
FilesOpenedLater(i) == i \notin Links

OpenedLater(i) == i \in Folders \ Links

\* The progress after entry i.
CountedEntry(i) ==
  IF i \in Folders
  THEN [progress EXCEPT !.entries = @ + 1, !.directories = @ + 1]
  ELSE [progress EXCEPT !.entries = @ + 1, !.files = @ + 1,
                        !.logicalBytes = AddedBytes(@, SizeOf(i))]

AddEntry(i) ==
  /\ Enumerating /\ ~stop
  /\ i \in left /\ Fits(i)
  /\ left' = left \ {i}
  /\ tree' = Appended(tree, folder, i, SizeOf(i), FlagsOf(i))
  /\ pending' = IF OpenedLater(i)
                THEN Append(pending, [node |-> Cardinality(DOMAIN tree), item |-> i])
                ELSE pending
  /\ progress' = CountedEntry(i)
  /\ Published
  /\ UNCHANGED <<stop, folder, totals, completion>>

\* A seeded fault: an entry that does not fit is passed over.
PassedOver == UNCHANGED <<tree, progress>>

Missed ==
  /\ tree' = Flagged(tree, folder, {"Incomplete"})
  /\ progress' = Counted("errors")

DropEntry(i) ==
  /\ Enumerating /\ ~stop
  /\ i \in left /\ ~Fits(i)
  /\ left' = left \ {i}
  /\ Missed
  /\ UNCHANGED <<stop, pending, folder, published, totals, completion>>

\* The enumeration ends, with or without ERROR_NO_MORE_FILES.  What follows
\* looks at the stop token only when there is another folder to open.
EndFolder ==
  /\ Enumerating
  /\ left = {}
  /\ folder' = invalid_node
  /\ UNCHANGED <<stop, tree, pending, left, progress, published, totals, completion>>

BreakOff ==
  /\ Enumerating
  /\ folder' = invalid_node
  /\ left' = {}
  /\ Missed
  /\ UNCHANGED <<stop, pending, published, totals, completion>>

Complete ==
  /\ completion = "None" /\ tree # EmptyTree
  /\ folder = invalid_node /\ pending = <<>>
  /\ Returns("Completed")

-----------------------------------------------------------------------------
Walk == \/ Cancelled \/ RootUnavailable \/ AddRoot
        \/ OpenFails \/ OpenFolder
        \/ \E i \in left : AddEntry(i) \/ DropEntry(i)
        \/ EndFolder \/ BreakOff \/ Complete

\* The walk has returned.
Ended == completion # "None" /\ UNCHANGED vars

Next == RequestStop \/ Walk \/ Ended

Spec == Init /\ [][Next]_vars

-----------------------------------------------------------------------------
(***************************************************************************)
(* Properties.                                                             *)
(***************************************************************************)
Counts == [entries : 0 .. MaxNodes, files : 0 .. MaxNodes, directories : 0 .. MaxNodes,
           logicalBytes : 0 .. MaxBytes, errors : Nat]

TreeNodes == [parent : {invalid_node} \cup DOMAIN tree,
              firstChild : {invalid_node} \cup DOMAIN tree,
              nextSibling : {invalid_node} \cup DOMAIN tree,
              item : Items, size : 0 .. MaxBytes, flags : SUBSET Flags]

\* The values the variables range over.
TypeOK ==
  /\ stop \in BOOLEAN
  /\ Cardinality(DOMAIN tree) <= MaxNodes
  /\ tree \in [0 .. Cardinality(DOMAIN tree) - 1 -> TreeNodes]
  /\ pending \in Seq([node : DOMAIN tree, item : Folders])
  /\ folder \in {invalid_node} \cup Directories(tree)
  /\ left \subseteq Items
  /\ progress \in Counts
  /\ published \in Counts
  /\ completion \in {"None", "Completed", "Cancelled", "RootUnavailable"}

\* The children of a folder, which the chart walks from firstChild along
\* nextSibling, are exactly the nodes that name it as their parent: the walk
\* starts at the last of them and goes from each to the one before it.
ChildrenLinked ==
  \A n \in DOMAIN tree :
    /\ tree[n].firstChild \in Children(tree, n) \cup {invalid_node}
    /\ \A c \in Children(tree, n) : c <= tree[n].firstChild
    /\ LET before == {m \in Children(tree, tree[n].parent) : m < n} IN
         /\ tree[n].nextSibling \in before \cup {invalid_node}
         /\ \A m \in before : m <= tree[n].nextSibling

\* The result of a scan is a tree as the analyzer needs it, whatever failed
\* on the way and even when there are more bytes than a counter can hold.
ResultIsForest ==
  /\ ChildrenLinked
  /\ completion = "Completed" =>
       IsForest([n \in DOMAIN tree |-> tree[n].parent], Directories(tree),
                [n \in DOMAIN tree |-> totals[n].bytes])

TotalOf(field, nodes) ==
  MapThenFoldSet(+, 0, LAMBDA n : totals[n][field],
                 LAMBDA S : CHOOSE n \in S : TRUE, nodes)

\* The size and the counts of every folder are those of its children, and the
\* progress in the result, the progress published last and the root of the
\* tree say the same of the whole scan.
TotalsAgree ==
  completion \in {"Completed", "Cancelled"} =>
    /\ \A n \in Directories(tree) :
         LET children == Children(tree, n) IN
         /\ totals[n].bytes = TotalOf("bytes", children) % (MaxBytes + 1)
         /\ totals[n].files = TotalOf("files", children)
         /\ totals[n].directories = TotalOf("directories", children)
                                     + Cardinality(children \cap Directories(tree))
    /\ published = progress
    /\ tree # EmptyTree =>
         /\ progress.logicalBytes = totals[Root].bytes
         /\ progress.files = totals[Root].files
         /\ progress.directories = totals[Root].directories
         /\ progress.entries = Cardinality(DOMAIN tree) - 1

\* What a completed scan leaves out is marked: a folder of the tree without
\* the mark has everything that is in it on the disk, and the scan reports
\* errors if and only if a folder has the mark.
NothingMissedSilently ==
  /\ completion = "Completed" =>
       \A n \in Directories(tree) :
         tree[n].flags \cap {"ReparsePoint", "Incomplete"} = {} =>
           {tree[c].item : c \in Children(tree, n)} = Contents[tree[n].item]
  /\ completion # "RootUnavailable" =>
       (progress.errors = 0 <=> \A n \in DOMAIN tree : "Incomplete" \notin tree[n].flags)

\* No entry of the disk is counted twice, even when a link shows a folder
\* again, its own parent folders among them.
EntryOnce ==
  \A m, n \in DOMAIN tree : tree[m].item = tree[n].item => m = n

\* What the walk has not come across.
Unseen == Items \ {tree[n].item : n \in DOMAIN tree}

\* A step of the walk that does not end it brings in an entry that was not in
\* the tree, or opens or gives up a folder and leaves one fewer to open, or
\* gets ahead in the one that is open.  Only the disk bounds how often that
\* can be, so that the walk of a finite disk ends, also with links in circles;
\* this is what ScanSession assumes of the scan.
WalkShortens ==
  [][ \/ completion' # "None"
      \/ Unseen' \subseteq Unseen /\ Unseen' # Unseen
      \/ /\ Unseen' = Unseen
         /\ \/ Len(pending') < Len(pending)
            \/ /\ pending' = pending
               /\ \/ folder # invalid_node /\ folder' = invalid_node
                  \/ folder' = folder /\ left' \subseteq left /\ left' # left
    ]_<<tree, pending, folder, left, completion>>
=============================================================================
