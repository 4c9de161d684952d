----------------------------- MODULE MCVfsNames -----------------------------
(* Names of every sort: plain ones, one of the greatest length and one that *)
(* is longer, two that are not UTF-8 and become the same text, the name of  *)
(* an internal node, the control name, and ".".                             *)
EXTENDS VfsNames
CONSTANT h1

TextOf == [n \in {"a", "b", "c", "longest", "longer", "stats", "control", "dot", "raw1", "raw2"} |->
              IF n \in {"raw1", "raw2"} THEN "lossy" ELSE n]
ValidUtf8 == DOMAIN TextOf \ {"raw1", "raw2"}
ByteOrder == <<"dot", "control", "stats", "a", "longest", "longer", "b", "c", "lossy">>
Lengths == [t \in Range(ByteOrder) |-> CASE t = "longest" -> 3 [] t = "longer" -> 4 [] OTHER -> 1]
InternalNames == {"stats", "control"}
OneHandle == {h1}

Every == {"mknod", "mkdir", "create", "symlink", "link", "unlink", "rmdir", "rename",
          "forget", "remount"}

\* A process lists a directory in which others make, remove and move names.
Listing == [names |-> {"a", "b", "c"}, root |-> TRUE, plus |-> TRUE, handles |-> OneHandle,
            ops |-> {"create", "unlink", "rename"}]
\* All requests, in a directory below the root.
Below == [names |-> {"a", "longest", "longer", "stats", "raw1", "raw2"}, root |-> FALSE, plus |-> FALSE,
          handles |-> {}, ops |-> Every]
\* At the root nothing is moved onto the name of an internal node.
AtRoot == [names |-> {"a", "stats", "control", "dot", "raw1", "raw2"}, root |-> TRUE, plus |-> FALSE,
           handles |-> {}, ops |-> Every \ {"rename"}]
AllPlans == {Listing, Below, AtRoot}

\* Further plans, for one property each: see the README.
MoveOntoInternal == {[names |-> {"a", "stats"}, root |-> TRUE, plus |-> FALSE, handles |-> {},
                      ops |-> {"create", "rename"}]}
=============================================================================
