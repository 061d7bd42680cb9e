-------------------------- MODULE MCSnapshotStore --------------------------
(* Instances of SnapshotStore; the scanners are interchangeable.           *)
EXTENDS SnapshotStore

(* An update of one driver, whose file is then listed in another case; two *)
(* drivers of one file name, of which one goes; a device and a cause that  *)
(* come and go.                                                            *)
Driver(name, version) == [name |-> name, version |-> version]

MCMachines ==
  {[drivers |-> <<Driver("a.sys", 1), Driver("b.sys", 1), Driver("b.sys", 2)>>,
    devices |-> {}, causes |-> {"c"}],
   [drivers |-> <<Driver("A.SYS", 2), Driver("b.sys", 1)>>, devices |-> {"d"}, causes |-> {}],
   [drivers |-> <<Driver("A.SYS", 1), Driver("c.sys", 1)>>, devices |-> {"d"}, causes |-> {"c"}]}

MCNames == {"a.sys", "A.SYS", "b.sys", "c.sys"}
MCLower == [n \in MCNames |-> IF n = "A.SYS" THEN "a.sys" ELSE n]

Symmetry == Permutations(Scanners)
=============================================================================
