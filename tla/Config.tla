------------------------------- MODULE Config -------------------------------
(***************************************************************************)
(* The configuration tables of second/cfg.c: cfg_parse fills a table of    *)
(* global options and a list of image sections, cfg_get_strg and           *)
(* cfg_get_default look things up in them, and load_config_file may point  *)
(* the default at the section labelled with the machine's MAC address.     *)
(*                                                                         *)
(* A configuration file is a sequence of items, [item, value] with value   *)
(* NULL for a flag, written out as tokens; at its end there may be tokens  *)
(* at which parsing fails.  "=" is the equals sign, Bad a token            *)
(* cfg_get_token rejects (an unterminated or too long string).  Spelling,  *)
(* quoting and comments are below this model.                              *)
(***************************************************************************)
EXTENDS Integers, Sequences

CONSTANTS
    cf_options,  \* the global table: function from item to "strg" or "flag"
    cf_image,    \* the same for an image section
    Words,       \* the tokens of a file that are accepted, but for "="
    Fold,        \* strcasecmp: words that differ in case fold to the same
    Base,        \* the file name of a path, without its directories
    Files,       \* Files[n]: what the n-th file may be: [items, ending, toks, at],
                 \* at[k] the place of item k in toks
    MaxFaults    \* bound: image sections malloc has no room for

NULL == "NULL"
Flag == "set"               \* &flag_set
Bad == "bad"
NoToken == ""
NoFile == [items |-> <<>>, ending |-> <<>>, toks |-> <<>>, at |-> <<1>>]

(* "image", "image[archs]" with one that matches this machine, and without.*)
ImageItems == {"image", "image[ours]", "image[other]"}

ASSUME TableAssumption ==
    /\ cf_options \in [DOMAIN cf_options -> {"strg", "flag"}]
    /\ cf_image \in [DOMAIN cf_image -> {"strg", "flag"}]
    /\ {"image", "label", "alias"} \subseteq DOMAIN cf_image
    /\ "default" \in DOMAIN cf_options /\ "label" \notin DOMAIN cf_options
    /\ cf_image["image"] = "strg" /\ cf_image["label"] = "strg"

ASSUME ValueAssumption ==
    /\ Words \cap {NULL, Flag, NoToken, "=", Bad} = {}
    /\ Fold \in [Words -> Words]
    /\ Base \in [Words -> Words]

Token == Words \cup {"=", Bad}

Item == [item : Words, value : Words \cup {NULL}]

(* cfg_next finds a value behind the first token, or an error.             *)
ValueNext(s) == Len(s) > 1 /\ s[2] = "="

Erroneous(s) ==
    /\ s # <<>>
    /\ \/ s[1] \in {"=", Bad}
       \/ Len(s) > 1 /\ s[2] = Bad
       \/ ValueNext(s) /\ (Len(s) > 2 => s[3] \in {"=", Bad})

(* The tokens of a file are its items, then its ending, which is in error  *)
(* also behind a flag.                                                     *)
Written(f) ==
    LET n == Len(f.items)
    IN  /\ f.items \in Seq(Item) /\ f.toks \in Seq(Token) /\ f.ending \in Seq(Token)
        /\ f.at \in [1 .. n + 1 -> 1 .. Len(f.toks) + 1] /\ f.at[1] = 1
        /\ \A k \in 1 .. n :
              /\ f.toks[f.at[k]] = f.items[k].item
              /\ IF f.items[k].value = NULL THEN f.at[k + 1] = f.at[k] + 1
                 ELSE /\ f.toks[f.at[k] + 1] = "=" /\ f.toks[f.at[k] + 2] = f.items[k].value
                      /\ f.at[k + 1] = f.at[k] + 3
        /\ Len(f.toks) + 1 = f.at[n + 1] + Len(f.ending)
        /\ \A i \in 1 .. Len(f.ending) : f.toks[f.at[n + 1] + i - 1] = f.ending[i]
        /\ f.ending \in {<<>>, <<"=">>} \/ (f.ending[1] # "=" /\ Erroneous(f.ending))

ASSUME FileAssumption ==
    /\ MaxFaults \in Nat
    /\ Len(Files) \in Nat
    /\ \A n \in 1 .. Len(Files) : \A f \in Files[n] : Written(f)

VARIABLES
    pc,          \* "idle", "parse", "mac", "done" or "failed"
    toks,        \* what is left of the buffer
    last_token,  \* the token cfg_next returned to the stream, or NoToken
    options,     \* cf_options[].data
    images,      \* the list of sections: [table, obsolete]
    curr_table,  \* 0 for cf_options, else an index into images
    mac,         \* the default is the MAC address
    file,        \* history: the file being parsed
    parses,      \* files parsed so far
    faults       \* history: sections malloc refused since cfg_parse began

vars == <<pc, toks, last_token, options, images, curr_table, mac, file, parses, faults>>

Data == Words \cup {NULL, Flag}

Section == [table : [DOMAIN cf_image -> Data], obsolete : BOOLEAN]

TypeOK ==
    /\ pc \in {"idle", "parse", "mac", "done", "failed"}
    /\ toks \in Seq(Token) /\ last_token \in Words \cup {NoToken}
    /\ options \in [DOMAIN cf_options -> Data]
    /\ images \in Seq(Section)
    /\ curr_table = Len(images)
    /\ mac \in BOOLEAN
    /\ parses \in 0 .. Len(Files) /\ faults \in 0 .. MaxFaults

(* A table as it is initialised: every item without data.                 *)
Empty(table) == [i \in DOMAIN table |-> NULL]

(* cfg_get_strg_i                                                          *)
Entry(table, item) == IF item \in DOMAIN table THEN table[item] ELSE NULL

(* The name check_for_obsolete compares: the label, else the whole path.   *)
LabelOrPath(s) == IF s.table["label"] # NULL THEN s.table["label"] ELSE s.table["image"]

(* The name cfg_get_strg compares: the label, else the file name.          *)
Name(s) == IF s.table["label"] # NULL THEN s.table["label"]
           ELSE IF s.table["image"] # NULL THEN Base[s.table["image"]] ELSE NULL

-----------------------------------------------------------------------------
Init ==
    /\ pc = "idle" /\ toks = <<>> /\ last_token = NoToken
    /\ options = Empty(cf_options) /\ images = <<>> /\ curr_table = 0
    /\ mac = FALSE /\ file = NoFile /\ parses = 0 /\ faults = 0

(* Mutant: the next item goes where the last one of the file before went.  *)
cfg_reset_list ==
    /\ images' = <<>> /\ options' = Empty(cf_options)
    /\ UNCHANGED curr_table

cfg_reset ==
    /\ images' = <<>> /\ curr_table' = 0
    /\ options' = Empty(cf_options)

(* cfg_parse up to its loop.  last_token is not reset.                     *)
cfg_parse ==
    /\ pc \in {"idle", "done", "failed"} /\ parses < Len(Files)
    /\ \E f \in Files[parses + 1] : file' = f /\ toks' = f.toks
    /\ cfg_reset
    /\ parses' = parses + 1
    /\ pc' = "parse" /\ mac' = FALSE /\ faults' = 0
    /\ UNCHANGED last_token

-----------------------------------------------------------------------------
(***************************************************************************)
(* cfg_next: an item, and its value if the token behind it is "=".         *)
(***************************************************************************)
Stream == IF last_token = NoToken THEN toks ELSE <<last_token>> \o toks

HasValue == ValueNext(Stream)

SyntaxError == Erroneous(Stream)

(* Mutant: the token behind a flag is dropped.                             *)
cfg_next_drops(item, value) ==
    /\ Stream # <<>> /\ ~SyntaxError
    /\ item = Stream[1]
    /\ value = (IF HasValue THEN Stream[3] ELSE NULL)
    /\ last_token' = NoToken
    /\ toks' = SubSeq(Stream, IF HasValue THEN 4 ELSE 3, Len(Stream))

cfg_next(item, value) ==
    /\ Stream # <<>> /\ ~SyntaxError
    /\ item = Stream[1]
    /\ value = (IF HasValue THEN Stream[3] ELSE NULL)
    /\ last_token' = (IF HasValue \/ Len(Stream) = 1 THEN NoToken ELSE Stream[2])
    /\ toks' = SubSeq(Stream, IF HasValue THEN 4 ELSE 3, Len(Stream))

(***************************************************************************)
(* cfg_set.                                                                *)
(***************************************************************************)
(* Section i goes by the label, in whatever case (strcasecmp).             *)
Bearing(imgs, i, label) ==
    LabelOrPath(imgs[i]) # NULL /\ Fold[LabelOrPath(imgs[i])] = Fold[label]

(* Mutant: the search ends at the first section of that name.              *)
check_for_obsolete_once(imgs, c, label) ==
    IF imgs[c].obsolete THEN imgs
    ELSE [i \in DOMAIN imgs |->
            IF /\ i # c /\ Bearing(imgs, i, label)
               /\ \A j \in DOMAIN imgs : j < i => ~Bearing(imgs, j, label)
            THEN [imgs[i] EXCEPT !.obsolete = TRUE] ELSE imgs[i]]

(* The sections whose name section c now takes become obsolete.            *)
check_for_obsolete(imgs, c, label) ==
    IF imgs[c].obsolete THEN imgs
    ELSE [i \in DOMAIN imgs |->
            IF i # c /\ Bearing(imgs, i, label)
            THEN [imgs[i] EXCEPT !.obsolete = TRUE] ELSE imgs[i]]

(* Mutant: every architecture is ours.                                     *)
NewImageAny(imgs, item) ==
    Append(imgs, [table |-> Empty(cf_image), obsolete |-> FALSE])

(* The list with an empty section added.                                   *)
NewImage(imgs, item) ==
    Append(imgs, [table |-> Empty(cf_image), obsolete |-> item = "image[other]"])

(* cfg_set_redo: a value for a string, none for a flag; a warning and no   *)
(* change otherwise, and for an item the current table does not have.      *)
Accepts(kinds, item, value) ==
    item \in DOMAIN kinds /\ (kinds[item] = "strg") = (value # NULL)

Datum(value) == IF value = NULL THEN Flag ELSE value

SetOption(item, value) ==
    /\ options' = IF Accepts(cf_options, item, value)
                  THEN [options EXCEPT ![item] = Datum(value)] ELSE options
    /\ UNCHANGED <<images, curr_table, faults>>

Assigned(imgs, c, item, value) ==
    IF ~Accepts(cf_image, item, value) THEN imgs
    ELSE LET seen == IF item = "label" THEN check_for_obsolete(imgs, c, value) ELSE imgs
         IN  [seen EXCEPT ![c].table[item] = Datum(value)]

SetImage(item, value) ==
    /\ images' = Assigned(images, curr_table, item, value)
    /\ UNCHANGED <<options, curr_table, faults>>

AddImage(item, value) ==
    LET more == NewImage(images, item)
    IN  /\ images' = Assigned(more, Len(more), "image", value)
        /\ curr_table' = Len(more)
        /\ UNCHANGED <<options, faults>>

(* malloc fails: cfg_set returns -1, which cfg_parse does not notice, and  *)
(* the items that follow go to the section before.                         *)
AddImageFails ==
    /\ faults < MaxFaults /\ faults' = faults + 1
    /\ UNCHANGED <<options, images, curr_table>>

cfg_set(item, value) ==
    \/ item \in ImageItems /\ AddImage(item, value)
    \/ item \in ImageItems /\ AddImageFails
    \/ item \notin ImageItems /\ curr_table = 0 /\ SetOption(item, value)
    \/ item \notin ImageItems /\ curr_table # 0 /\ SetImage(item, value)

ParseItem ==
    /\ pc = "parse" /\ Stream # <<>> /\ ~SyntaxError
    /\ \E item \in {Stream[1]}, value \in {NULL} \cup {Stream[i] : i \in DOMAIN Stream} :
          cfg_next(item, value) /\ cfg_set(item, value)
    /\ UNCHANGED <<pc, mac, file, parses>>

(* cfg_error longjmps out of cfg_parse; by then the token that was         *)
(* returned has been taken again.                                          *)
ParseFails ==
    /\ pc = "parse" /\ SyntaxError
    /\ pc' = "failed" /\ last_token' = NoToken
    /\ UNCHANGED <<toks, options, images, curr_table, mac, file, parses, faults>>

ParseEnds ==
    /\ pc = "parse" /\ Stream = <<>>
    /\ pc' = "mac"
    /\ UNCHANGED <<toks, last_token, options, images, curr_table, mac, file, parses, faults>>

(***************************************************************************)
(* load_config_file, on a network device: the MAC address a is the default *)
(* if some section, an obsolete one too, has it for its label.             *)
(***************************************************************************)
cfg_set_default_by_mac(a) ==
    /\ pc = "mac" /\ pc' = "done"
    /\ IF \E i \in DOMAIN images : images[i].table["label"] = a
       THEN options' = [options EXCEPT !["default"] = a] /\ mac' = TRUE
       ELSE UNCHANGED <<options, mac>>
    /\ UNCHANGED <<toks, last_token, images, curr_table, file, parses, faults>>

(* Not a network device.                                                   *)
NoMac ==
    /\ pc = "mac" /\ pc' = "done"
    /\ UNCHANGED <<toks, last_token, options, images, curr_table, mac, file, parses, faults>>

(* The prompt runs with these tables.                                      *)
InUse ==
    /\ pc \in {"done", "failed"} /\ parses = Len(Files)
    /\ UNCHANGED vars

Next ==
    \/ cfg_parse \/ ParseItem \/ ParseFails \/ ParseEnds
    \/ (\E a \in Words : cfg_set_default_by_mac(a)) \/ NoMac \/ InUse

Spec == Init /\ [][Next]_vars

-----------------------------------------------------------------------------
(***************************************************************************)
(* Looking things up.                                                      *)
(***************************************************************************)
Visible == {i \in DOMAIN images : ~images[i].obsolete}

Matches(s, image) == Name(s) = image \/ s.table["alias"] = image

First(S) == CHOOSE i \in S : \A j \in S : i <= j

(* An unlabelled section without a path, whose NULL name strcmp reads, is  *)
(* taken to match nothing.                                                 *)
cfg_get_strg(image, item) ==
    LET hits == {i \in Visible : Matches(images[i], image)}
    IN  IF hits = {} THEN NULL
        ELSE LET own == Entry(images[First(hits)].table, item)
             IN  IF own # NULL THEN own ELSE Entry(options, item)

(* Mutant: the first section is the default even if it is obsolete.        *)
cfg_get_default_first ==
    IF options["default"] # NULL THEN options["default"]
    ELSE IF images = <<>> THEN NULL ELSE Name(images[1])

cfg_get_default ==
    IF options["default"] # NULL THEN options["default"]
    ELSE IF Visible = {} THEN NULL ELSE Name(images[First(Visible)])

-----------------------------------------------------------------------------
(* What a file of the items its says.                                      *)
Starts(its) == {k \in DOMAIN its : its[k].item \in ImageItems}

(* The lines of the section that starts at k, and the global ones (k = 0). *)
Lines(its, k) == {n \in DOMAIN its : k <= n /\ \A j \in Starts(its) : j <= k \/ n < j}

Kinds(k) == IF k = 0 THEN cf_options ELSE cf_image

ItemAt(its, n) == IF its[n].item \in ImageItems THEN "image" ELSE its[n].item

Says(its, k, item) ==
    {n \in Lines(its, k) : ItemAt(its, n) = item /\ Accepts(Kinds(k), item, its[n].value)}

(* The last line of the section on this item counts.                       *)
Said(its, k, item) ==
    LET says == Says(its, k, item)
    IN  IF says = {} THEN NULL
        ELSE Datum(its[CHOOSE n \in says : \A m \in says : m <= n].value)

Applies(its, k) == its[k].item # "image[other]"

(* A later section for this machine claims the label l.  In another case   *)
(* too: there the code is less strict than yaboot.conf(5), for which       *)
(* values are case sensitive and both sections could be booted.            *)
Retaken(its, k, l) ==
    \E j \in Starts(its) : /\ j > k /\ Applies(its, j)
                           /\ \E n \in Says(its, j, "label") : Fold[its[n].value] = Fold[l]

(* Section k goes by the name l.                                           *)
Bears(its, k, l) ==
    \/ l \in {Said(its, k, "label"), Said(its, k, "alias")}
    \/ /\ Said(its, k, "label") = NULL /\ Said(its, k, "image") # NULL
       /\ Base[Said(its, k, "image")] = l

(* Two sections of which a boot could take either never share a label, at  *)
(* any point of any file.  (Labels that differ in case only are different  *)
(* ones to yaboot.conf(5) and to cfg_get_strg.)                            *)
UniqueLabels ==
    \A i, j \in DOMAIN images :
        i # j /\ ~images[i].obsolete /\ ~images[j].obsolete /\ images[i].table["label"] # NULL
        => images[i].table["label"] # images[j].table["label"]

(* Once a file is parsed, a label finds the newest section for this        *)
(* machine that was given it, and there every item as that section says    *)
(* it last or else as the lines before the first section do -- whatever    *)
(* file was parsed before, and however that ended.  (A name an earlier     *)
(* section has as its alias or its file name goes to that section.)  And a *)
(* file fails to parse only for what is wrong at its end.                  *)
LookupMeansFile ==
    LET its == file.items
    IN  /\ pc = "failed" => file.ending # <<>>
        /\ pc = "mac" /\ faults = 0 =>
            \A k \in Starts(its) :
                LET l == Said(its, k, "label")
                    taken == \E j \in Starts(its) : /\ j < k /\ Applies(its, j)
                                                    /\ Said(its, j, "label") # l /\ Bears(its, j, l)
                IN  Applies(its, k) /\ l # NULL /\ ~Retaken(its, k, l) /\ ~taken =>
                      \A item \in DOMAIN cf_image \cup DOMAIN cf_options :
                          cfg_get_strg(l, item) = IF Said(its, k, item) # NULL
                                                  THEN Said(its, k, item) ELSE Said(its, 0, item)

(* No name ever finds the image of a section for another machine, of one   *)
(* whose label was taken over, or of one that does not go by that name.    *)
LookupSound ==
    LET its == file.items
    IN  pc = "mac" /\ faults = 0 =>
            \A l \in Words :
                cfg_get_strg(l, "image") # NULL =>
                    \E k \in Starts(its) :
                        /\ Applies(its, k) /\ Bears(its, k, l)
                        /\ Said(its, k, "label") # NULL => ~Retaken(its, k, Said(its, k, "label"))
                        /\ Said(its, k, "image") = cfg_get_strg(l, "image")

(* With no default= and no MAC address, the default names a section that   *)
(* can be booted, if there is one.                                         *)
DefaultBoots ==
    pc = "done" /\ Said(file.items, 0, "default") = NULL /\ ~mac /\ faults = 0 /\ Visible # {}
        /\ (\A i \in Visible : images[i].table["image"] # NULL)
        => cfg_get_strg(cfg_get_default, "image") = images[First(Visible)].table["image"]
=============================================================================
