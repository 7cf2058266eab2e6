---------------------------- MODULE MCBootPrompt ----------------------------
(* Two labels, the default and another; lines with every kind of name and  *)
(* argument; configurations that differ in password, restriction, time-out *)
(* and initrd.                                                             *)
EXTENDS BootPrompt

MCInitrdWords == [w \in {"initrd=a", "initrd=b"} |-> IF w = "initrd=a" THEN "a" ELSE "b"]

Conf(pw, restricted, initrd, timeout) ==
    [images |-> Labels, def |-> "linux", pw |-> pw, restricted |-> restricted,
     initrd |-> initrd, single |-> {"old"}, timeout |-> timeout]

MCConfigs ==
    {Conf(TRUE, {"linux"}, {"linux", "old"}, TRUE),
     Conf(TRUE, {NoName}, {"linux"}, FALSE),
     Conf(FALSE, {}, {NoName}, TRUE),
     Conf(FALSE, {}, {}, FALSE)}

Line(n, a) == [name |-> n, args |-> a]

MCLines ==
    {Line(n, Null) : n \in Labels \cup (Commands \ BlankedNames)
                                  \cup {NoName, "/vmlinux", "initrd=a"}}
    \cup {Line("old", "single"), Line("linux", "initrd=b"), Line("old", "initrd=b"),
          Line("initrd=a", "single"), Line("conf", "file=x")}

MCBootArgs == {NoLine, Line("old", Null), Line("old", "single")}

MCOnce == {NoName, "old"}
=============================================================================
