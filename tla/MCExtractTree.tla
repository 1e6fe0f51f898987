--------------------------- MODULE MCExtractTree ---------------------------
(* Instances of ExtractTree for TLC: images of three inodes and of four.   *)
EXTENDS ExtractTree

MCRef == 1..4

Item(name, ref) == [name |-> name, ref |-> ref]

Listings(names, refs) ==
  {<<>>} \cup {<<Item("x", r)>> : r \in refs}
         \cup {<<Item("x", r), Item(n, s)>> : r \in refs, n \in names, s \in refs}

Directories(types, numbers, listings) ==
  [type : types, number : numbers, entries : listings]

Leaves(types) == [type : types, number : {0}, entries : {<<>>}]

(* Every image of up to three inodes: cycles, directories reached twice,   *)
(* without a number or with that of another, damaged ones and leaves.      *)
Entangled ==
  LET all == Listings({"y"}, 1..3)
      few == Listings({"y"}, {1, 3})
      leaf == Leaves({"file", "badFile", "link", "special", "none"})
  IN {[root |-> 1, node |-> <<a, b, c>>] :
        a \in Directories({"dir"}, {0, 1}, Listings({"y"}, {2, 3})),
        b \in Directories({"dir", "badDir"}, {0, 1, 2}, all) \cup leaf,
        c \in Directories({"dir"}, {0, 2}, few) \cup leaf}

(* Trees: two levels below the root, names that are rejected among them.   *)
Trees ==
  {[root |-> 1, node |-> <<a, b, c, d>>] :
     a \in Directories({"dir"}, {1}, Listings({"y", "a..b"}, {2, 3, 4})),
     b \in Directories({"dir"}, {2}, Listings({"y", "a..b"}, {3, 4})),
     c \in Directories({"dir"}, {3}, Listings({"y"}, {4})) \cup
             Leaves({"file", "link"}),
     d \in Leaves({"file", "link"})}

(* A name listed twice, and once more: links, files and directories in the *)
(* place of one another, with something below them.                        *)
Doubled ==
  LET below == Directories({"dir"}, {0, 2}, Listings({"y"}, {4}))
      leaf == Leaves({"file", "badFile", "link"})
      double == <<Item("x", 2), Item("x", 3)>>
  IN {[root |-> 1, node |-> <<a, b, c, d>>] :
        a \in Directories({"dir"}, {1}, {double, Append(double, Item("x", 2)),
                                        Append(double, Item("y", 4))}),
        b \in below \cup leaf,
        c \in Directories({"dir"}, {3}, {<<Item("y", 4)>>}) \cup leaf,
        d \in leaf \cup Directories({"dir"}, {4}, {<<Item("x", 3)>>})}

(* No inode at all can be read, or the root is no directory. *)
Rootless ==
  {[root |-> 1, node |-> <<a>>] :
     a \in Leaves({"none", "file"}) \cup Directories({"badDir"}, {1}, {<<>>})}

MCImages == Entangled \cup Trees \cup Doubled \cup Rootless
MCPlain == {"x", "y"}
=============================================================================
