-------------------------------- MODULE MCExt2 --------------------------------
(* Directory 2 with up to four entries in its first sector and one in the      *)
(* second and in the fourth, of which one block of 1024 bytes has the first two; *)
(* below it a directory 3 with up to three.                                      *)
EXTENDS Ext2

E(i, n, f) == [inode |-> i, name |-> n, full |-> f, whole |-> TRUE]
Cut == [inode |-> 4, name |-> "cut", full |-> FALSE, whole |-> FALSE]
Dots == <<E(2, ".", FALSE), E(2, "..", FALSE)>>
Free == {<<>>, <<E(4, "a", FALSE)>>, <<E(4, "b", TRUE)>>, <<E(7, "c", FALSE)>>, <<E(6, "d", TRUE)>>,
         <<E(0, "e", FALSE)>>, <<E(5, "f", FALSE)>>, <<E(11, "g", FALSE)>>, <<E(5, "", FALSE)>>,
         <<E(4, "long", FALSE)>>, <<E(4, "most", FALSE)>>,
         <<E(4, "longer", FALSE)>>, <<Cut>>}
Below == {<<>>, <<E(3, "s", FALSE)>>, <<E(3, "s", TRUE)>>, <<E(3, "long", FALSE)>>}
Inode(t, s) == [type |-> t, sectors |-> s]

MCNames == {"", ".", "..", "a", "b", "c", "d", "e", "f", "g", "s", "z", "long", "most", "longer", "cut"}
MCLength ==
  [n \in MCNames |-> CASE n = "b" -> 8 [] n = "z" -> 31 [] n = "long" -> 32 [] n = "most" -> 64
                    [] n = "longer" -> 65 [] OTHER -> 1]

\* No name twice in a directory.
Apart(x, y) == x = <<>> \/ y = <<>> \/ x[1].name # y[1].name

MCDisks ==
  {[i \in {2, 3, 4, 6, 7} |->
      CASE i = 2 -> Inode("directory", <<Dots \o p[1] \o p[2], p[3], <<>>, <<E(4, "z", FALSE)>>>>)
        [] i = 3 -> Inode("directory", <<Dots \o p[4]>>)
        [] i = 4 -> Inode("file", <<>>)
        [] OTHER -> Inode("socket", <<>>)] :
     p \in {q \in Free \X Below \X Free \X Free :
              Apart(q[1], q[2]) /\ Apart(q[1], q[3]) /\ Apart(q[2], q[3])}}
=============================================================================
