------------------------------ MODULE MCDevice ------------------------------
(* Paths to a plain device, to one with a comma in its name and to a       *)
(* network card, and disks with every kind of partition table.             *)
EXTENDS Device

MCTokens == {":", ",", "hd", "/pci/ADPT", "2930CU@2/@1", "/boot/vmlinux", "a", "b", "3", "enet",
             "bootp", "speed=", "100", "f", "5", "x", "10.0.0.1", "10.0.0.2", "0.0.0.0", "10.1"}

MCNumber == [t \in {"3", "0"} |-> IF t = "3" THEN 3 ELSE 0]

MCOctets ==
    [t \in {"10.0.0.1", "10.0.0.2", "0.0.0.0", "10.1"} |->
        CASE t = "10.0.0.1" -> <<10, 0, 0, 1>>
          [] t = "10.0.0.2" -> <<10, 0, 0, 2>>
          [] t = "0.0.0.0" -> <<0, 0, 0, 0>>
          [] t = "10.1" -> <<10, 1>>]

MCDevKind == [t \in {"hd", "/pci/ADPT", "enet"} |-> IF t = "enet" THEN "NET" ELSE "BLOCK"]

MCNas == NULL

hd == <<"hd">>
pci == <<"/pci/ADPT", ",", "2930CU@2/@1">>
kernel == <<"/boot/vmlinux">>

Local == [form : {"local"}, dev : {hd, pci}, part : {<<>>, <<"3">>},
          file : {NULL, kernel}, def : {NULL, hd, <<"hd", ":", "3">>}, packet : {{}}]

Bare == [form : {"bare"}, dev : {hd, pci}, part : {<<>>}, file : {kernel, <<"a", ",", "b">>},
         def : {hd, <<"hd", ":", "3">>, pci, pci \o <<":", "3">>}, packet : {{}}]

Packets == {{}} \cup
    {{p} : p \in [siaddr : {NULL, <<"10.0.0.1">>}, ciaddr : {NULL, <<"10.0.0.2">>},
                  yiaddr : {NULL, <<"10.0.0.1">>}, giaddr : {NULL, <<"10.0.0.2">>},
                  cookie : BOOLEAN,
                  options : {<<>>, <<[tag |-> "PAD", value |-> NULL],
                                     [tag |-> "NETMASK", value |-> <<"10.0.0.1">>],
                                     [tag |-> "ROUTERS", value |-> <<"10.0.0.1">>]>>}]}

Fields == {<<>>, <<"10.0.0.1">>, <<"10.0.0.2">>, <<"0.0.0.0">>, <<"10.1">>}

Args == {<<>>} \cup {<<s>> : s \in Fields}
            \cup {<<s, <<"f">>, c, g>> : s, c, g \in {<<>>, <<"10.0.0.2">>, <<"10.1">>}}

Net == [form : {"net"}, dev : {<<"enet">>},
        words : {<<>>, <<"bootp", ",">>, <<"bootp", ",", "speed=", "100", ",">>},
        args : Args, more : {<<>>, <<",", "5", ",", "5", ",", "10.0.0.1", ",", "x">>},
        part : {<<>>}, def : {NULL, <<"enet", ":">>}, packet : Packets]

(* A bare path keeps its device: the default one without its partition.    *)
MCInputs ==
    Local \cup {in \in Bare : IsPrefix(in.dev, in.def)}
          \cup {in \in Net : /\ in.def = NULL \/ in.packet = {}
                             /\ in.more = <<>> \/ Len(in.args) = 4}

At(b, sz) == [blksize |-> sz, blocks |-> b]

Apple(n, start, ok) ==
    [NoBlock EXCEPT !.sig = IF ok THEN "PM" ELSE "--", !.count = n, !.start = start]

(* At most one of the blocks is damaged.                                   *)
Goods(a, b) == {[i \in a .. b |-> i # bad] : bad \in {0} \cup a .. b}

Macs ==
    {At([b \in 0 .. m |-> IF b = 0 THEN [NoBlock EXCEPT !.sig = "ER", !.bsz = sz]
                          ELSE Apple(n[b], 10 * b, good[b])], 512) :
        m \in {3}, sz \in {512, 2048}, n \in [1 .. 3 -> {0, 1, 3, 4}], good \in Goods(1, 3)}

Fdisks == {At([b \in {0} |-> [NoBlock EXCEPT !.aa55 = TRUE, !.sys = s]], sz) :
             s \in [1 .. 4 -> {"native", "raid", "other"}], sz \in {0, 512}}

Isos == {At([b \in 0 .. m |-> [NoBlock EXCEPT !.iso = b \in v]], 2048) :
           m \in {1, 4}, v \in SUBSET {2, 3, 4}}

(* Amiga disks: the rigid disk block in block 0 or 1, three blocks with    *)
(* any links between them, also loops, and a limit below the last or not.  *)
Part(ok, next, b) == [NoBlock EXCEPT !.id = IF ok THEN "PART" ELSE "--", !.sum = ok,
                                     !.link = next, !.start = 10 * b]

Rdb(b, first, top) == [at |-> b, first |-> first, limit |-> top]

Amigas ==
    {At([b \in 0 .. 4 |-> IF b = rdb.at
                          THEN [NoBlock EXCEPT !.id = "RDSK", !.sum = TRUE, !.first = rdb.first,
                                                      !.limit = rdb.limit]
                          ELSE IF b < 2 THEN NoBlock ELSE Part(good[b], next[b], b)], sz) :
        rdb \in {Rdb(0, 2, 4), Rdb(1, 2, 4), Rdb(1, 2, 3), Rdb(0, AMIGA_END, 4), Rdb(9, 2, 4)},
        next \in [2 .. 4 -> {2, 3, 4, AMIGA_END}],
        good \in {[i \in 2 .. 4 |-> i # bad] : bad \in {0, 3}}, sz \in {512, 2048}}

MCDisks == Macs \cup Fdisks \cup Isos \cup Amigas \cup {At([b \in {0} |-> NoBlock], 4096)}
=============================================================================
