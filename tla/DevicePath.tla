----------------------------- MODULE DevicePath -----------------------------
(***************************************************************************)
(* Taking a boot path apart: parse_device_path and the network arguments   *)
(* (file.c, first part).                                                   *)
(*                                                                         *)
(* A string is a sequence of tokens; the separators ":" and "," are tokens *)
(* of their own, and so is every word strstr looks for, wherever it stands *)
(* in the string: a file name with "bootp" in it is several tokens.  What  *)
(* is between them is one token.  The number and the address a token       *)
(* spells are given by the constants Number and Octets.  The firmware      *)
(* answers with the kind of a device, and with the packet of the bootp     *)
(* reply, if there was one.                                                *)
(***************************************************************************)
EXTENDS Integers, Sequences, SequencesExt, FiniteSets

CONSTANTS
    Tokens,     \* the strings without separators, and the separators
    Number,     \* token -> the integer simple_strtol reads in it
    Octets,     \* token -> the numbers between its dots
    DevKind,    \* device name -> "BLOCK", "NET", ... (prom_get_devtype)
    NasDevice   \* /chosen/nas-bootdevice, NULL when it does not exist

NULL == <<"(null)">>

Missing(s) == s = NULL \/ s = <<>>

LastOf(s, c) == SelectLastInSeq(s, LAMBDA x : x = c)

FirstOf(s, c) == SelectInSeq(s, LAMBDA x : x = c)

Has(s, c) == \E i \in DOMAIN s : s[i] = c

From(s, i) == SubSeq(s, i, Len(s))

(* struct boot_fspec_t as a caller hands it in, all zero.                  *)
EmptySpec ==
    [dev |-> NULL, part |-> -1, file |-> NULL, siaddr |-> NULL, ciaddr |-> NULL,
     giaddr |-> NULL, bootp_retries |-> NULL, tftp_retries |-> NULL,
     subnetmask |-> NULL, addl_params |-> NULL, is_ipv6 |-> FALSE,
     dhcpv6 |-> NULL, blksize |-> NULL]

-----------------------------------------------------------------------------
(* A plausible IPv4 address or NULL: at least four numbers that fit a      *)
(* byte, and not the all-zero or all-ones address.                         *)
is_valid_ipv4_str(s) ==
    IF /\ Len(s) = 1 /\ s[1] \in DOMAIN Octets
       /\ Len(Octets[s[1]]) >= 4
       /\ \A i \in 1 .. 4 : Octets[s[1]][i] \in 0 .. 255
       /\ \E i \in 1 .. 4 : Octets[s[1]][i] # 0
       /\ \E i \in 1 .. 4 : Octets[s[1]][i] # 255
    THEN s ELSE NULL

(* A call of scopy returns what is in front of the next comma, NULL at the *)
(* end of the string, and leaves the string behind that comma.             *)
FieldEnd(s) == LET comma == FirstOf(s, ",") IN IF comma = 0 THEN Len(s) + 1 ELSE comma

scopy(s) == IF s = <<>> THEN NULL ELSE SubSeq(s, 1, FieldEnd(s) - 1)

Scopied(s) == From(s, FieldEnd(s) + 1)

(* At the first such word behind `at'; one that follows another word       *)
(* immediately is not taken.                                               *)
SkipWord(path, colon, at, word) ==
    LET found == {p \in DOMAIN path : p > at /\ path[p] = word}
    IN  IF found = {} \/ (at # colon /\ at + 1 \in found) THEN at ELSE Min(found)

(* The last of the optional words, or the last colon.                      *)
LastWord(path, colon) ==
    LET promiscuous == SkipWord(path, colon, colon, "promiscuous")
        speed == SkipWord(path, colon, promiscuous, "speed=")
        duplex == SkipWord(path, colon, speed, "duplex=")
        bootp == SkipWord(path, colon, duplex, "bootp")
    IN  SkipWord(path, colon, bootp, "rarp")

(* Where the obp-tftp arguments start, 0 if there are none: after the last *)
(* colon (at it, if another colon is in front of it), or after the comma   *)
(* that follows the last of the optional words.                            *)
Ipv4Start(path) ==
    LET colon == LastOf(path, ":")
        last == LastWord(path, colon)
        comma == FirstOf(From(path, last + 1), ",")
    IN  IF colon = 0 THEN 0
        ELSE IF last = colon
        THEN IF colon > 1 /\ path[colon - 1] = ":" THEN colon ELSE colon + 1
        ELSE IF comma = 0 THEN 0 ELSE last + comma + 1

extract_ipv4_args(path, r) ==
    LET at == Ipv4Start(path)
        siaddr == From(path, at)
        file == Scopied(siaddr)
        ciaddr == Scopied(file)
        giaddr == Scopied(ciaddr)
        bootp == Scopied(giaddr)
        tftp == Scopied(bootp)
        mask == Scopied(tftp)
        rest == Scopied(mask)
    IN  IF at = 0 THEN r
        ELSE [r EXCEPT !.siaddr = is_valid_ipv4_str(scopy(siaddr)), !.file = scopy(file),
                       !.ciaddr = is_valid_ipv4_str(scopy(ciaddr)),
                       !.giaddr = is_valid_ipv4_str(scopy(giaddr)),
                       !.bootp_retries = scopy(bootp), !.tftp_retries = scopy(tftp),
                       !.subnetmask = is_valid_ipv4_str(scopy(mask)),
                       !.addl_params = IF rest = <<>> THEN @ ELSE rest]

(* An IPv6 argument is copied with its keyword, from the first place the   *)
(* keyword occurs in up to the next comma.                                 *)
Keyword(path, key, old) ==
    LET at == FirstOf(path, key) IN IF at = 0 THEN old ELSE scopy(From(path, at))

extract_ipv6_args(path, r) ==
    [r EXCEPT !.is_ipv6 = TRUE, !.dhcpv6 = Keyword(path, "dhcpv6=", @),
              !.ciaddr = Keyword(path, "ciaddr=", @), !.giaddr = Keyword(path, "giaddr=", @),
              !.siaddr = Keyword(path, "siaddr=", @), !.file = Keyword(path, "filename=", @),
              !.tftp_retries = Keyword(path, "tftp-retries=", @),
              !.blksize = Keyword(path, "blksize=", @)]

(* An address the packet has fills a field that is still missing.          *)
FillIn(old, addr) == IF Missing(old) /\ addr # NULL THEN addr ELSE old

(* An option fills its field if no earlier one has: the first one with a   *)
(* value counts.                                                           *)
OptionValue(options, tag) ==
    LET n == SelectInSeq(options, LAMBDA o : o.tag = tag /\ o.value # NULL)
    IN  IF n = 0 THEN NULL ELSE options[n].value

extract_vendor_options(r, options) ==
    [r EXCEPT !.subnetmask = FillIn(@, OptionValue(options, "NETMASK")),
              !.giaddr = FillIn(@, OptionValue(options, "ROUTERS"))]

(* Mutant: the packet's addresses win.                                     *)
netinfo_overrides(r, packet) ==
    IF packet = {} THEN r
    ELSE LET p == CHOOSE q \in packet : TRUE
         IN  [r EXCEPT !.siaddr = IF p.siaddr # NULL THEN p.siaddr ELSE @]

(* `packet' is the set of bootp packets there are: none or one.  The       *)
(* server is the gateway of last resort.                                   *)
extract_netinfo_args(r, packet) ==
    IF packet = {} THEN r
    ELSE LET p == CHOOSE q \in packet : TRUE
             filled == [r EXCEPT !.siaddr = FillIn(@, p.siaddr),
                            !.ciaddr = FillIn(@, IF p.ciaddr # NULL THEN p.ciaddr ELSE p.yiaddr),
                            !.giaddr = FillIn(@, p.giaddr)]
             opts == IF p.cookie THEN extract_vendor_options(filled, p.options) ELSE filled
         IN  [opts EXCEPT !.giaddr = IF @ = NULL
                                     THEN IF p.siaddr = NULL THEN <<"0.0.0.0">> ELSE p.siaddr
                                     ELSE @]

extract_netboot_args(path, r, packet) ==
    extract_netinfo_args(IF Has(path, "ipv6") THEN extract_ipv6_args(path, r)
                         ELSE extract_ipv4_args(path, r), packet)

(* The device of a network path keeps its colon.                           *)
netdev_path_to_dev(path) ==
    IF Has(path, ":") THEN SubSeq(path, 1, FirstOf(path, ":")) ELSE path

-----------------------------------------------------------------------------
(* prom_get_devtype: the kind of the device a path starts with.            *)
prom_get_devtype(path) ==
    IF path # <<>> /\ path[1] \in DOMAIN DevKind THEN DevKind[path[1]] ELSE "NONE"

IsLocal(kind) == kind \notin {"NET", "ISCSI"}

(* The default device without what follows its last colon.                 *)
TrimDefault(dev, kind) ==
    IF dev # NULL /\ IsLocal(kind) /\ Has(dev, ":")
    THEN SubSeq(dev, 1, LastOf(dev, ":") - 1) ELSE dev

(* Mutant: the first comma of the path starts the file name.               *)
TrimFileFirst(path, kind) ==
    LET comma == FirstOf(path, ",")
    IN  IF IsLocal(kind) /\ Has(path, ":") /\ comma # 0 /\ LastOf(path, ":") < comma
        THEN [path |-> SubSeq(path, 1, comma - 1), file |-> From(path, comma + 1)]
        ELSE [path |-> path, file |-> NULL]

(* A file name follows the last comma, unless a colon comes after it.      *)
TrimFile(path, kind) ==
    LET comma == LastOf(path, ",")
    IN  IF IsLocal(kind) /\ Has(path, ":") /\ comma # 0 /\ LastOf(path, ":") < comma
        THEN [path |-> SubSeq(path, 1, comma - 1), file |-> From(path, comma + 1)]
        ELSE [path |-> path, file |-> NULL]

simple_strtol(s) == IF s # <<>> /\ s[1] \in DOMAIN Number THEN Number[s[1]] ELSE 0

(* The device, partition and file a path with its file trimmed names.      *)
NameDevice(path, def, kind, r, packet) ==
    LET colon == LastOf(path, ":")
        net == IF Has(path, ":") THEN extract_netboot_args(path, r, packet)
               ELSE [extract_netinfo_args(r, packet) EXCEPT !.file = path]
    IN  IF kind = "NET"
        THEN [net EXCEPT !.dev = IF def = NULL THEN netdev_path_to_dev(path) ELSE @]
        ELSE IF IsLocal(kind) /\ colon # 0
        THEN [r EXCEPT !.dev = SubSeq(path, 1, colon - 1),
                       !.part = IF colon = Len(path) THEN @
                                ELSE simple_strtol(From(path, colon + 1))]
        ELSE IF def = NULL THEN [r EXCEPT !.dev = path]
        ELSE [r EXCEPT !.file = path]

Failed == [EmptySpec EXCEPT !.dev = <<"(failed)">>]

(* The path that is parsed: the firmware's own boot device for iSCSI.      *)
EffectivePath(path) == IF Has(path, "iscsi") THEN NasDevice ELSE path

KindOf(path, def) ==
    IF def # NULL THEN prom_get_devtype(def)
    ELSE IF Has(path, "iscsi") THEN "ISCSI" ELSE prom_get_devtype(path)

parse_device_path(path, defdevice, defpart, deffile, packet) ==
    LET kind == KindOf(path, defdevice)
        def == TrimDefault(defdevice, kind)
        trim == TrimFile(EffectivePath(path), kind)
        named == NameDevice(trim.path, def, kind, [EmptySpec EXCEPT !.file = trim.file], packet)
        empty == trim.path = <<>> /\ kind # "NET" /\ def # NULL
    IN  IF path = NULL \/ EffectivePath(path) = NULL \/ empty
        THEN Failed
        ELSE [named EXCEPT !.dev = IF @ = NULL THEN def ELSE @,
                           !.part = IF @ < 0 THEN defpart ELSE @,
                           !.file = IF @ = NULL THEN deffile ELSE @]
=============================================================================
