----------------------------- MODULE MCZipSource -----------------------------
(* A folder 1 with the file 2, a folder 3 with the file 4, a link 5 back   *)
(* to folder 1 and a link 6 to an empty file; a file 7; a folder 8 with a  *)
(* file 9 that has the name of 7 and, on the second disk, with a file 10   *)
(* whose name is not UTF-8.  Archives of up to four chunks of two bytes.   *)
EXTENDS ZipSource
MCArchiveSizes == 1 .. 9
MCNodes == 1 .. 10
MCParent == [n \in MCNodes |->
    CASE n \in {2, 3, 5, 6} -> 1 [] n = 4 -> 3 [] n \in {9, 10} -> 8 [] OTHER -> n]
MCName == [n \in MCNodes |-> IF n = 9 THEN 7 ELSE n]
MCSize == [n \in MCNodes |-> IF n = 6 THEN 0 ELSE 1]
MCDisk(last) == [n \in MCNodes |->
    CASE n \in {1, 3, 8} -> "dir" [] n = 5 -> "dirlink" [] n = 6 -> "filelink"
      [] n = 10 -> last [] OTHER -> "file"]
MCDisks == {MCDisk("none"), MCDisk("file")}
MCSelections ==
    {<<>>, <<1>>, <<5>>, <<6>>, <<7>>, <<7, 9>>, <<1, 7>>, <<2, 1>>, <<8, 9>>}
=============================================================================
