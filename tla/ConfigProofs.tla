---------------------------- MODULE ConfigProofs ----------------------------
(***************************************************************************)
(* Proofs about Config, for all tables, words and files: the tables of     *)
(* cfg.c keep their types, no two image sections that can be booted ever   *)
(* share a label, and once a file is parsed every lookup finds what the    *)
(* file says.  At the end, proofs about ConfigLoad, which decides which    *)
(* file that is: the two safety properties of the search, for an address   *)
(* of any number of digits, any contents of the server and any number of   *)
(* refused opens.                                                          *)
(***************************************************************************)
EXTENDS Config, ConfigLoad, WellFoundedInduction, TLAPS

(* What check_for_obsolete keeps: the labels of sections that can be       *)
(* booted differ, and not in case only.                                    *)
LabelsDiffer(imgs) ==
    \A i, j \in DOMAIN imgs :
        /\ i # j /\ ~imgs[i].obsolete /\ ~imgs[j].obsolete
        /\ imgs[i].table["label"] # NULL /\ imgs[j].table["label"] # NULL
        => Fold[imgs[i].table["label"]] # Fold[imgs[j].table["label"]]

(* Entering an item into section c of a list whose labels differ keeps the *)
(* types and the number of sections ...                                    *)
LEMMA AssignedType ==
    ASSUME NEW imgs \in Seq(Section), NEW c \in 1 .. Len(imgs),
           NEW item, NEW value \in Words \cup {NULL}
    PROVE  /\ Assigned(imgs, c, item, value) \in Seq(Section)
           /\ Len(Assigned(imgs, c, item, value)) = Len(imgs)
<1>1. \A s \in Section : /\ [s EXCEPT !.obsolete = TRUE] \in Section
                         /\ [s EXCEPT !.obsolete = TRUE].table = s.table
  BY DEF Section
<1>2. check_for_obsolete(imgs, c, value) \in Seq(Section)
      /\ Len(check_for_obsolete(imgs, c, value)) = Len(imgs)
  BY <1>1 DEF check_for_obsolete, Bearing
<1> DEFINE seen == IF item = "label" THEN check_for_obsolete(imgs, c, value) ELSE imgs
<1>3. seen \in Seq(Section) /\ Len(seen) = Len(imgs)
  BY <1>2
<1>4. ASSUME Accepts(cf_image, item, value)
      PROVE  [seen[c] EXCEPT !.table[item] = Datum(value)] \in Section
  <2>1. seen[c] \in Section
    BY <1>3
  <2>2. Datum(value) \in Data /\ item \in DOMAIN cf_image
    BY <1>4 DEF Datum, Data, Accepts
  <2>3. QED
    BY <2>1, <2>2 DEF Section
<1>5. ASSUME Accepts(cf_image, item, value)
      PROVE  /\ [seen EXCEPT ![c].table[item] = Datum(value)] \in Seq(Section)
             /\ Len([seen EXCEPT ![c].table[item] = Datum(value)]) = Len(imgs)
  BY <1>3, <1>4, <1>5
<1>6. QED
  BY <1>5 DEF Assigned

(* ... and the labels differ afterwards: a label that is entered makes     *)
(* every other section that goes by it obsolete, unless section c is.      *)
LEMMA AssignedDiffers ==
    ASSUME NEW imgs \in Seq(Section), NEW c \in 1 .. Len(imgs),
           NEW item, NEW value \in Words \cup {NULL}, LabelsDiffer(imgs)
    PROVE  LabelsDiffer(Assigned(imgs, c, item, value))
<1> DEFINE new == Assigned(imgs, c, item, value)
<1>1. CASE ~Accepts(cf_image, item, value)
  BY <1>1 DEF Assigned
<1>2. CASE Accepts(cf_image, item, value) /\ item # "label"
  <2>1. new = [imgs EXCEPT ![c].table[item] = Datum(value)]
    BY <1>2 DEF Assigned
  <2>2. \A i \in 1 .. Len(imgs) : imgs[i] \in Section
    OBVIOUS
  <2>3. DOMAIN new = DOMAIN imgs /\ DOMAIN imgs = 1 .. Len(imgs)
    BY <2>1
  <2>4. \A i \in DOMAIN imgs : /\ new[i].obsolete = imgs[i].obsolete
                               /\ new[i].table["label"] = imgs[i].table["label"]
    BY <2>1, <2>2, <1>2, TableAssumption DEF Section, Accepts
  <2>5. QED
    BY <2>3, <2>4 DEF LabelsDiffer
<1>3. CASE Accepts(cf_image, item, value) /\ item = "label"
  <2> DEFINE seen == check_for_obsolete(imgs, c, value)
  <2>0. value \in Words /\ Datum(value) = value
    BY <1>3, TableAssumption DEF Accepts, Datum
  <2>1. new = [seen EXCEPT ![c].table["label"] = value]
    BY <1>3, <2>0 DEF Assigned
  <2>2. /\ DOMAIN imgs = 1 .. Len(imgs)
        /\ \A i \in 1 .. Len(imgs) : imgs[i] \in Section
    OBVIOUS
  <2>3. /\ DOMAIN seen = DOMAIN imgs
        /\ \A i \in DOMAIN imgs : /\ seen[i] \in Section
                                  /\ seen[i].table = imgs[i].table
                                  /\ imgs[i].obsolete => seen[i].obsolete
        /\ seen[c] = imgs[c]
    BY <2>2 DEF check_for_obsolete, Bearing, Section
  <2>4. /\ DOMAIN new = DOMAIN imgs
        /\ \A i \in DOMAIN imgs : new[i].obsolete = seen[i].obsolete
        /\ \A i \in DOMAIN imgs : i # c => new[i] = seen[i]
        /\ new[c].table["label"] = value
    BY <2>1, <2>2, <2>3, TableAssumption DEF Section
  <2>5. ASSUME ~imgs[c].obsolete, NEW i \in DOMAIN imgs, i # c, ~new[i].obsolete,
               new[i].table["label"] # NULL
        PROVE  Fold[new[i].table["label"]] # Fold[value]
    <3>1. new[i].table["label"] = imgs[i].table["label"] /\ ~seen[i].obsolete
      BY <2>3, <2>4, <2>5
    <3>2. LabelOrPath(imgs[i]) = imgs[i].table["label"]
      BY <3>1, <2>5 DEF LabelOrPath
    <3>3. seen[i] = IF LabelOrPath(imgs[i]) # NULL /\ Fold[LabelOrPath(imgs[i])] = Fold[value]
                    THEN [imgs[i] EXCEPT !.obsolete = TRUE] ELSE imgs[i]
      BY <2>5 DEF check_for_obsolete, Bearing
    <3>4. [imgs[i] EXCEPT !.obsolete = TRUE].obsolete
      BY <2>2, <2>5 DEF Section
    <3>5. QED
      BY <3>1, <3>2, <3>3, <3>4, <2>5
  <2>6. ASSUME NEW i \in DOMAIN new, NEW j \in DOMAIN new, i # j,
               ~new[i].obsolete, ~new[j].obsolete,
               new[i].table["label"] # NULL, new[j].table["label"] # NULL
        PROVE  Fold[new[i].table["label"]] # Fold[new[j].table["label"]]
    <3>1. ~imgs[i].obsolete /\ ~imgs[j].obsolete
      BY <2>3, <2>4, <2>6
    <3>2. CASE i = c
      BY <3>1, <3>2, <2>4, <2>5, <2>6
    <3>3. CASE j = c
      BY <3>1, <3>3, <2>4, <2>5, <2>6
    <3>4. CASE i # c /\ j # c
      BY <3>1, <3>4, <2>3, <2>4, <2>6 DEF LabelsDiffer
    <3>5. QED
      BY <3>2, <3>3, <3>4
  <2>7. QED
    BY <2>6 DEF LabelsDiffer
<1>4. QED
  BY <1>1, <1>2, <1>3

(* A new section has no label yet.                                         *)
LEMMA NewImageInv ==
    ASSUME NEW imgs \in Seq(Section), NEW item, LabelsDiffer(imgs)
    PROVE  /\ NewImage(imgs, item) \in Seq(Section)
           /\ Len(NewImage(imgs, item)) = Len(imgs) + 1
           /\ LabelsDiffer(NewImage(imgs, item))
<1> DEFINE s == [table |-> Empty(cf_image), obsolete |-> item = "image[other]"]
           new == Append(imgs, s)
<1>1. s \in Section /\ s.table["label"] = NULL
  BY TableAssumption DEF Section, Empty, Data
<1>2. /\ new \in Seq(Section) /\ Len(new) = Len(imgs) + 1
      /\ \A i \in 1 .. Len(imgs) : new[i] = imgs[i]
      /\ new[Len(imgs) + 1] = s
      /\ DOMAIN new = 1 .. Len(imgs) + 1 /\ DOMAIN imgs = 1 .. Len(imgs)
  BY <1>1
<1>3. LabelsDiffer(new)
  BY <1>1, <1>2 DEF LabelsDiffer
<1>4. QED
  BY <1>2, <1>3 DEF NewImage

LEMMA StreamType ==
    ASSUME TypeOK
    PROVE  Stream \in Seq(Token)
<1>1. toks \in Seq(Token) /\ (last_token # NoToken => last_token \in Token)
  BY DEF TypeOK, Token
<1>2. CASE last_token = NoToken
  BY <1>1, <1>2 DEF Stream
<1>3. CASE last_token # NoToken
  <2>1. <<last_token>> \in Seq(Token)
    BY <1>1, <1>3
  <2>2. <<last_token>> \o toks \in Seq(Token)
    BY <2>1, <1>1
  <2>3. QED
    BY <2>2, <1>3 DEF Stream
<1>4. QED
  BY <1>2, <1>3

(* What cfg_next hands to cfg_set is a word, and so is what it returns to  *)
(* the stream.                                                             *)
LEMMA NextType ==
    ASSUME TypeOK, NEW item, NEW value, cfg_next(item, value)
    PROVE  /\ value \in Words \cup {NULL}
           /\ toks' \in Seq(Token) /\ last_token' \in Words \cup {NoToken}
<1>1. Stream \in Seq(Token)
  BY StreamType
<1>2. /\ HasValue => Len(Stream) > 2 /\ Stream[3] \in Words
      /\ Len(Stream) > 1 /\ ~HasValue => Stream[2] \in Words
  BY <1>1 DEF cfg_next, SyntaxError, HasValue, Erroneous, ValueNext, Token
<1>3. \A n \in Nat \ {0} : SubSeq(Stream, n, Len(Stream)) \in Seq(Token)
  BY <1>1
<1>4. Len(Stream) \in Nat /\ Len(Stream) # 0
  BY <1>1 DEF cfg_next
<1>5. value \in Words \cup {NULL}
  BY <1>2 DEF cfg_next
<1>6. last_token' \in Words \cup {NoToken}
  <2>1. CASE HasValue \/ Len(Stream) = 1
    BY <2>1 DEF cfg_next
  <2>2. CASE ~(HasValue \/ Len(Stream) = 1)
    <3>0. ~HasValue
      BY <2>2, Zenon
    <3>1. Stream[2] \in Words
      <4>1. Len(Stream) > 1
        <5>1. Len(Stream) # 1
          BY <2>2, Zenon
        <5>2. QED
          BY <5>1, <1>4
      <4>2. QED
        BY <4>1, <3>0, <1>2, Zenon
    <3>2. last_token' = Stream[2]
      BY <2>2 DEF cfg_next
    <3>3. QED
      BY <3>1, <3>2
  <2>3. QED
    BY <2>1, <2>2
<1>7. toks' \in Seq(Token)
  <2>1. CASE HasValue
    BY <2>1, <1>3 DEF cfg_next
  <2>2. CASE ~HasValue
    BY <2>2, <1>3 DEF cfg_next
  <2>3. QED
    BY <2>1, <2>2
<1>8. QED
  BY <1>5, <1>6, <1>7

IInv == TypeOK /\ LabelsDiffer(images)

(* One item: parsing and entering it preserves the invariant.              *)
LEMMA ItemStep == IInv /\ ParseItem => IInv'
<1> SUFFICES ASSUME IInv, ParseItem PROVE IInv'
  OBVIOUS
<1>0. TypeOK /\ LabelsDiffer(images) /\ images \in Seq(Section)
      /\ curr_table = Len(images)
  BY DEF IInv, TypeOK
<1>1. PICK item, value : cfg_next(item, value) /\ cfg_set(item, value)
  BY DEF ParseItem
<1>2. /\ value \in Words \cup {NULL}
      /\ toks' \in Seq(Token) /\ last_token' \in Words \cup {NoToken}
  BY <1>0, <1>1, NextType
<1>3. /\ images' \in Seq(Section) /\ curr_table' = Len(images')
      /\ LabelsDiffer(images') /\ options' \in [DOMAIN cf_options -> Data]
      /\ faults' \in 0 .. MaxFaults
  <2>1. CASE item \in ImageItems /\ AddImage(item, value)
    <3> DEFINE more == NewImage(images, item)
    <3>1. more \in Seq(Section) /\ Len(more) = Len(images) + 1 /\ LabelsDiffer(more)
      BY <1>0, NewImageInv
    <3>2. Len(more) \in 1 .. Len(more)
      BY <3>1, <1>0
    <3>3. /\ images' = Assigned(more, Len(more), "image", value)
          /\ curr_table' = Len(more) /\ UNCHANGED <<options, faults>>
      BY <2>1 DEF AddImage
    <3> HIDE DEF more
    <3>4. images' \in Seq(Section) /\ Len(images') = Len(more)
      BY <3>1, <3>2, <3>3, <1>2, AssignedType
    <3>5. LabelsDiffer(images')
      BY <3>1, <3>2, <3>3, <1>2, AssignedDiffers
    <3>6. QED
      BY <3>3, <3>4, <3>5, <1>0 DEF TypeOK
  <2>2. CASE AddImageFails
    BY <2>2, <1>0, FileAssumption DEF AddImageFails, TypeOK
  <2>3. CASE SetOption(item, value)
    <3>1. Datum(value) \in Data
      BY <1>2 DEF Datum, Data
    <3>2. options' \in [DOMAIN cf_options -> Data]
      BY <2>3, <3>1, <1>0 DEF SetOption, TypeOK
    <3>3. QED
      BY <2>3, <3>2, <1>0 DEF SetOption, TypeOK
  <2>4. CASE curr_table # 0 /\ SetImage(item, value)
    <3>1. curr_table \in 1 .. Len(images)
      BY <2>4, <1>0
    <3>2. images' = Assigned(images, curr_table, item, value)
          /\ UNCHANGED <<options, curr_table, faults>>
      BY <2>4 DEF SetImage
    <3>3. images' \in Seq(Section) /\ Len(images') = Len(images)
      BY <3>1, <3>2, <1>0, <1>2, AssignedType
    <3>4. LabelsDiffer(images')
      BY <3>1, <3>2, <1>0, <1>2, AssignedDiffers
    <3>5. QED
      BY <3>2, <3>3, <3>4, <1>0 DEF TypeOK
  <2>5. QED
    BY <1>1, <2>1, <2>2, <2>3, <2>4 DEF cfg_set
<1>4. QED
  BY <1>0, <1>2, <1>3 DEF IInv, TypeOK, ParseItem

(* The tables keep their types, and the labels of the sections that can be *)
(* booted differ, from cfg_parse to cfg_parse.                             *)
THEOREM Invariance == Spec => []IInv
<1>1. Init => IInv
  <2>1. Init => TypeOK
    <3>1. <<>> \in Seq(Token) /\ <<>> \in Seq(Section) /\ Len(<<>>) = 0
      OBVIOUS
    <3>2. Empty(cf_options) \in [DOMAIN cf_options -> Data]
      BY DEF Empty, Data
    <3>3. Init => parses \in 0 .. Len(Files) /\ faults \in 0 .. MaxFaults
      BY FileAssumption DEF Init
    <3>4. Init => toks \in Seq(Token) /\ images \in Seq(Section) /\ curr_table = Len(images)
      BY <3>1 DEF Init
    <3>5. QED
      BY <3>2, <3>3, <3>4, Zenon DEF Init, TypeOK
  <2>2. Init => LabelsDiffer(images)
    BY DEF Init, LabelsDiffer
  <2>3. QED
    BY <2>1, <2>2 DEF IInv
<1>2. IInv /\ [Next]_vars => IInv'
  <2> SUFFICES ASSUME IInv, [Next]_vars PROVE IInv'
    OBVIOUS
  <2> USE DEF IInv
  <2>1. CASE cfg_parse
    <3>1. toks' \in Seq(Token) /\ parses' \in 0 .. Len(Files)
      <4>1. parses \in 0 .. Len(Files)
        BY DEF TypeOK
      <4>2. parses + 1 \in 1 .. Len(Files)
        BY <2>1, <4>1, FileAssumption DEF cfg_parse
      <4>3. PICK f \in Files[parses + 1] : toks' = f.toks
        BY <2>1 DEF cfg_parse
      <4>4. QED
        BY <2>1, <4>2, <4>3, FileAssumption DEF cfg_parse, Written
    <3>2. options' \in [DOMAIN cf_options -> Data]
      BY <2>1 DEF cfg_parse, cfg_reset, Empty, Data
    <3>3. /\ images' \in Seq(Section) /\ curr_table' = Len(images')
          /\ LabelsDiffer(images')
      BY <2>1 DEF cfg_parse, cfg_reset, LabelsDiffer
    <3>4. faults' \in 0 .. MaxFaults
      BY <2>1, FileAssumption DEF cfg_parse
    <3>5. QED
      BY <2>1, <3>1, <3>2, <3>3, <3>4, Zenon DEF cfg_parse, TypeOK
  <2>2. CASE ParseItem
    BY <2>2, ItemStep
  <2>3. CASE ParseFails
    BY <2>3 DEF ParseFails, TypeOK
  <2>4. CASE ParseEnds
    BY <2>4 DEF ParseEnds, TypeOK
  <2>5. CASE \E a \in Words : cfg_set_default_by_mac(a)
    BY <2>5 DEF cfg_set_default_by_mac, TypeOK, Data
  <2>6. CASE NoMac
    BY <2>6 DEF NoMac, TypeOK
  <2>7. CASE InUse \/ UNCHANGED vars
    BY <2>7 DEF InUse, vars, TypeOK
  <2>8. QED
    BY <2>1, <2>2, <2>3, <2>4, <2>5, <2>6, <2>7 DEF Next
<1>3. QED
  BY <1>1, <1>2, PTL DEF Spec

(* The tables, the token stream and curr_table keep their types; items     *)
(* always go to the newest section.                                        *)
THEOREM TypeCorrect == Spec => []TypeOK
<1>1. IInv => TypeOK
  BY DEF IInv
<1>2. QED
  BY <1>1, Invariance, PTL

(* check_for_obsolete does its work: two sections that can be booted never *)
(* share a label, however a file is written, cut short or parsed after     *)
(* another, and also when malloc fails.                                    *)
THEOREM LabelsUnique == Spec => []UniqueLabels
<1>1. IInv => UniqueLabels
  BY DEF IInv, LabelsDiffer, UniqueLabels
<1>2. QED
  BY <1>1, Invariance, PTL

-----------------------------------------------------------------------------
(***************************************************************************)
(* The tables and the file.  What the first m lines say: a value v for an  *)
(* item of section k, and that a later section claims a label.             *)
(***************************************************************************)
SaysTo(its, m, k, item) == {n \in Says(its, k, item) : n <= m}

Tells(its, m, k, item, v) ==
    \/ SaysTo(its, m, k, item) = {} /\ v = NULL
    \/ \E n \in SaysTo(its, m, k, item) : /\ \A p \in SaysTo(its, m, k, item) : p <= n
                                         /\ v = Datum(its[n].value)

RetakenTo(its, m, k, l) ==
    \E j \in Starts(its) : /\ j > k /\ Applies(its, j)
                           /\ \E n \in SaysTo(its, m, j, "label") : Fold[its[n].value] = Fold[l]

(* The len sections of the list are those that start in the first m lines, *)
(* the i-th at line s[i].                                                  *)
Ordered(its, m, len, s) ==
    /\ s \in [1 .. len -> Starts(its)]
    /\ \A i \in 1 .. len : s[i] <= m
    /\ \A i, j \in 1 .. len : i < j => s[i] < s[j]
    /\ \A k \in Starts(its) : k <= m => \E i \in 1 .. len : s[i] = k

(* Their tables hold what those lines say, and the ones that are for other *)
(* machines or whose name was claimed later are obsolete.                  *)
Told(its, m, imgs, s) ==
    \A i \in 1 .. Len(imgs) :
        \A item \in DOMAIN cf_image : Tells(its, m, s[i], item, imgs[i].table[item])

Outdated(its, m, imgs, s) ==
    \A i \in 1 .. Len(imgs) :
        imgs[i].obsolete <=>
            \/ ~Applies(its, s[i])
            \/ LabelOrPath(imgs[i]) # NULL /\ RetakenTo(its, m, s[i], LabelOrPath(imgs[i]))

ToldOptions(its, m, opts) == \A item \in DOMAIN cf_options : Tells(its, m, 0, item, opts[item])

Filled(its, m, opts, imgs) ==
    \E s \in [1 .. Len(imgs) -> Starts(its)] :
        /\ Ordered(its, m, Len(imgs), s)
        /\ Told(its, m, imgs, s) /\ Outdated(its, m, imgs, s) /\ ToldOptions(its, m, opts)

(* The stream is at the item after the first m.                            *)
Position(m) ==
    /\ Len(Stream) = Len(file.toks) + 1 - file.at[m + 1]
    /\ \A i \in 1 .. Len(Stream) : Stream[i] = file.toks[file.at[m + 1] + i - 1]

Parsing ==
    pc = "parse" =>
        \E m \in 0 .. Len(file.items) :
            Position(m) /\ (faults = 0 => Filled(file.items, m, options, images))

Parsed ==
    (pc = "mac" \/ (pc = "done" /\ ~mac)) /\ faults = 0 =>
        Filled(file.items, Len(file.items), options, images)

(* Only an ending makes a parse fail, and no token is left over from it.   *)
Ended ==
    /\ pc = "failed" => file.ending # <<>>
    /\ pc # "parse" => last_token = NoToken

FileInv == Written(file) /\ Parsing /\ Parsed /\ Ended

-----------------------------------------------------------------------------
(* Places of lines.                                                        *)
LEMMA LineFacts ==
    ASSUME NEW its \in Seq(Item)
    PROVE  /\ Len(its) \in Nat /\ DOMAIN its = 1 .. Len(its)
           /\ \A k \in Starts(its) : k \in 1 .. Len(its) /\ k \in Nat /\ k # 0 /\ k > 0
           /\ \A k, item : \A n \in Says(its, k, item) :
                 /\ n \in 1 .. Len(its) /\ n \in Nat /\ k <= n
                 /\ \A j \in Starts(its) : j <= k \/ n < j
                 /\ ItemAt(its, n) = item /\ Accepts(Kinds(k), item, its[n].value)
BY DEF Starts, Says, Lines

(* A line that is not about the item of the section changes nothing.       *)
LEMMA OtherLine ==
    ASSUME NEW its \in Seq(Item), NEW m \in Nat, NEW k, NEW item, NEW v,
           m + 1 \notin Says(its, k, item), Tells(its, m, k, item, v)
    PROVE  Tells(its, m + 1, k, item, v)
<1>1. SaysTo(its, m + 1, k, item) = SaysTo(its, m, k, item)
  BY LineFacts DEF SaysTo
<1> QED BY <1>1 DEF Tells

(* A line about the item overrides the ones before it.                     *)
LEMMA OwnLine ==
    ASSUME NEW its \in Seq(Item), NEW m \in Nat, NEW k, NEW item,
           m + 1 \in Says(its, k, item)
    PROVE  Tells(its, m + 1, k, item, Datum(its[m + 1].value))
<1>1. m + 1 \in SaysTo(its, m + 1, k, item)
  BY DEF SaysTo
<1>2. \A p \in SaysTo(its, m + 1, k, item) : p <= m + 1
  BY DEF SaysTo
<1> QED BY <1>1, <1>2 DEF Tells

(* A line that gives no label takes none over.                             *)
LEMMA NoClaim ==
    ASSUME NEW its \in Seq(Item), NEW m \in Nat, NEW k, NEW l,
           \A j \in Starts(its) : m + 1 \notin Says(its, j, "label")
    PROVE  RetakenTo(its, m + 1, k, l) <=> RetakenTo(its, m, k, l)
<1>1. \A j \in Starts(its) : SaysTo(its, m + 1, j, "label") = SaysTo(its, m, j, "label")
  BY LineFacts DEF SaysTo
<1> QED BY <1>1 DEF RetakenTo

(* One that does takes over the label in the section it is in.             *)
LEMMA Claim ==
    ASSUME NEW its \in Seq(Item), NEW m \in Nat, NEW c \in Starts(its), NEW k, NEW l,
           m + 1 \in Says(its, c, "label")
    PROVE  RetakenTo(its, m + 1, k, l) <=>
               \/ RetakenTo(its, m, k, l)
               \/ c > k /\ Applies(its, c) /\ Fold[its[m + 1].value] = Fold[l]
<1>1. \A j \in Starts(its) : j # c => m + 1 \notin Says(its, j, "label")
  BY LineFacts
<1>2. \A j \in Starts(its) : j # c =>
          SaysTo(its, m + 1, j, "label") = SaysTo(its, m, j, "label")
  BY <1>1, LineFacts DEF SaysTo
<1>3. SaysTo(its, m + 1, c, "label") = SaysTo(its, m, c, "label") \cup {m + 1}
  BY LineFacts DEF SaysTo
<1> QED BY <1>2, <1>3 DEF RetakenTo

(* Nothing is claimed yet behind the newest section.                       *)
LEMMA NotYet ==
    ASSUME NEW its \in Seq(Item), NEW m \in Nat, NEW k \in Nat, NEW l,
           \A j \in Starts(its) : j <= m => j <= k
    PROVE  ~RetakenTo(its, m, k, l)
BY LineFacts DEF RetakenTo, SaysTo

(* What entering an item does to the sections.                             *)
LEMMA AssignedFacts ==
    ASSUME NEW imgs \in Seq(Section), NEW c \in 1 .. Len(imgs),
           NEW item, NEW value \in Words \cup {NULL}
    PROVE  LET new == Assigned(imgs, c, item, value)
           IN  /\ \A i \in 1 .. Len(imgs) : i # c => new[i].table = imgs[i].table
               /\ \A x \in DOMAIN cf_image :
                     new[c].table[x] = IF x = item /\ Accepts(cf_image, item, value)
                                       THEN Datum(value) ELSE imgs[c].table[x]
               /\ new[c].obsolete = imgs[c].obsolete
               /\ \A i \in 1 .. Len(imgs) : i # c =>
                     (new[i].obsolete <=>
                        \/ imgs[i].obsolete
                        \/ /\ Accepts(cf_image, item, value) /\ item = "label"
                           /\ ~imgs[c].obsolete /\ LabelOrPath(imgs[i]) # NULL
                           /\ Fold[LabelOrPath(imgs[i])] = Fold[value])
<1> DEFINE new == Assigned(imgs, c, item, value)
<1>0. /\ DOMAIN imgs = 1 .. Len(imgs)
      /\ \A i \in 1 .. Len(imgs) : imgs[i] \in Section
  OBVIOUS
<1>1. CASE ~Accepts(cf_image, item, value)
  BY <1>1 DEF Assigned
<1>2. CASE Accepts(cf_image, item, value) /\ item # "label"
  <2>1. new = [imgs EXCEPT ![c].table[item] = Datum(value)]
    BY <1>2 DEF Assigned
  <2>2. \A i \in 1 .. Len(imgs) : i # c => new[i] = imgs[i]
    BY <1>0, <2>1
  <2>3. new[c] = [imgs[c] EXCEPT !.table[item] = Datum(value)]
    BY <1>0, <2>1
  <2>4. /\ new[c].obsolete = imgs[c].obsolete
        /\ new[c].table = [imgs[c].table EXCEPT ![item] = Datum(value)]
    BY <1>0, <2>3 DEF Section
  <2>5. \A x \in DOMAIN cf_image :
            new[c].table[x] = IF x = item THEN Datum(value) ELSE imgs[c].table[x]
    BY <1>0, <2>4 DEF Section
  <2> QED BY <1>2, <2>2, <2>4, <2>5
<1>3. CASE Accepts(cf_image, item, value) /\ item = "label"
  <2> DEFINE seen == check_for_obsolete(imgs, c, value)
  <2>1. new = [seen EXCEPT ![c].table[item] = Datum(value)]
    BY <1>3 DEF Assigned
  <2>2. /\ DOMAIN seen = 1 .. Len(imgs) /\ seen[c] = imgs[c]
        /\ \A i \in 1 .. Len(imgs) :
              i # c => seen[i] = IF /\ ~imgs[c].obsolete /\ LabelOrPath(imgs[i]) # NULL
                                    /\ Fold[LabelOrPath(imgs[i])] = Fold[value]
                                 THEN [imgs[i] EXCEPT !.obsolete = TRUE] ELSE imgs[i]
    BY <1>0 DEF check_for_obsolete, Bearing
  <2> HIDE DEF seen
  <2>3. \A i \in 1 .. Len(imgs) : i # c => new[i] = seen[i]
    BY <2>1, <2>2
  <2>4. new[c] = [imgs[c] EXCEPT !.table[item] = Datum(value)]
    BY <2>1, <2>2
  <2>5. /\ new[c].obsolete = imgs[c].obsolete
        /\ new[c].table = [imgs[c].table EXCEPT ![item] = Datum(value)]
    BY <1>0, <2>4 DEF Section
  <2>6. \A x \in DOMAIN cf_image :
            new[c].table[x] = IF x = item THEN Datum(value) ELSE imgs[c].table[x]
    BY <1>0, <2>5 DEF Section
  <2>7. \A i \in 1 .. Len(imgs) : i # c =>
            /\ [imgs[i] EXCEPT !.obsolete = TRUE].table = imgs[i].table
            /\ [imgs[i] EXCEPT !.obsolete = TRUE].obsolete
    BY <1>0 DEF Section
  <2>8. ASSUME NEW i \in 1 .. Len(imgs), i # c
        PROVE  /\ new[i].table = imgs[i].table
               /\ new[i].obsolete <=> \/ imgs[i].obsolete
                                      \/ /\ ~imgs[c].obsolete /\ LabelOrPath(imgs[i]) # NULL
                                         /\ Fold[LabelOrPath(imgs[i])] = Fold[value]
    BY <2>2, <2>3, <2>7, <2>8
  <2> QED BY <1>3, <2>5, <2>6, <2>8
<1> QED BY <1>1, <1>2, <1>3

(* The line m + 1 is entered into the newest section.                      *)
LEMMA SectionStep ==
    ASSUME NEW its \in Seq(Item), NEW m \in Nat, m + 1 <= Len(its),
           NEW imgs \in Seq(Section), Len(imgs) # 0, NEW s,
           Ordered(its, m + 1, Len(imgs), s),
           Told(its, m, imgs, s), Outdated(its, m, imgs, s)
    PROVE  LET new == Assigned(imgs, Len(imgs), ItemAt(its, m + 1), its[m + 1].value)
           IN  Told(its, m + 1, new, s) /\ Outdated(its, m + 1, new, s)
<1> DEFINE c == Len(imgs)
           item == ItemAt(its, m + 1)
           value == its[m + 1].value
           new == Assigned(imgs, c, item, value)
<1>0. /\ m + 1 \in 1 .. Len(its) /\ its[m + 1] \in Item /\ c \in 1 .. c /\ c \in Nat
      /\ value \in Words \cup {NULL} /\ DOMAIN its = 1 .. Len(its)
  <2>1. m + 1 \in 1 .. Len(its) /\ DOMAIN its = 1 .. Len(its)
    BY LineFacts
  <2>2. its[m + 1] \in Item
    BY <2>1
  <2> QED BY <2>1, <2>2 DEF Item
<1>1. new \in Seq(Section) /\ Len(new) = c
  BY <1>0, AssignedType
<1>2. /\ \A i \in 1 .. c : i # c => new[i].table = imgs[i].table
      /\ \A x \in DOMAIN cf_image :
            new[c].table[x] = IF x = item /\ Accepts(cf_image, item, value)
                              THEN Datum(value) ELSE imgs[c].table[x]
      /\ new[c].obsolete = imgs[c].obsolete
      /\ \A i \in 1 .. c : i # c =>
            (new[i].obsolete <=>
               \/ imgs[i].obsolete
               \/ /\ Accepts(cf_image, item, value) /\ item = "label"
                  /\ ~imgs[c].obsolete /\ LabelOrPath(imgs[i]) # NULL
                  /\ Fold[LabelOrPath(imgs[i])] = Fold[value])
  BY <1>0, AssignedFacts
<1>3. /\ \A i \in 1 .. c : s[i] \in Starts(its) /\ s[i] \in Nat /\ s[i] # 0 /\ s[i] <= m + 1
      /\ \A i \in 1 .. c : i # c => s[i] < s[c]
      /\ \A j \in Starts(its) : j \in Nat /\ (j <= m + 1 => j <= s[c])
  <2>1. \A i \in 1 .. c : s[i] \in Starts(its) /\ s[i] <= m + 1
    BY DEF Ordered
  <2>2. \A j \in Starts(its) : j \in Nat /\ j # 0
    BY LineFacts
  <2>3. \A i \in 1 .. c : i # c => s[i] < s[c]
    BY <1>0 DEF Ordered
  <2>4. ASSUME NEW j \in Starts(its), j <= m + 1
        PROVE  j <= s[c]
    <3>1. PICK i \in 1 .. c : s[i] = j
      BY <2>4 DEF Ordered
    <3> QED BY <1>0, <2>1, <2>2, <2>3, <3>1
  <2> QED BY <2>1, <2>2, <2>3, <2>4
<1>4. /\ m + 1 \in Lines(its, s[c])
      /\ \A i \in 1 .. c : i # c => m + 1 \notin Lines(its, s[i])
  BY <1>0, <1>3 DEF Lines
<1>5. \A x : m + 1 \in Says(its, s[c], x) <=> x = item /\ Accepts(cf_image, item, value)
  BY <1>0, <1>3, <1>4 DEF Says, Kinds
<1>6. \A i \in 1 .. c : i # c => \A x : m + 1 \notin Says(its, s[i], x)
  BY <1>4 DEF Says
<1> HIDE DEF new, item, value
<1>7. Told(its, m + 1, new, s)
  <2> SUFFICES ASSUME NEW i \in 1 .. c, NEW x \in DOMAIN cf_image
               PROVE  Tells(its, m + 1, s[i], x, new[i].table[x])
    BY <1>1 DEF Told
  <2>1. Tells(its, m, s[i], x, imgs[i].table[x])
    BY DEF Told
  <2>2. CASE i # c
    <3>1. new[i].table[x] = imgs[i].table[x]
      BY <1>2, <2>2
    <3> QED BY <1>6, <2>1, <2>2, <3>1, OtherLine
  <2>3. CASE i = c /\ m + 1 \in Says(its, s[c], x)
    <3>1. new[c].table[x] = Datum(its[m + 1].value)
      BY <1>2, <1>5, <2>3 DEF value
    <3> QED BY <2>3, <3>1, OwnLine
  <2>4. CASE i = c /\ m + 1 \notin Says(its, s[c], x)
    <3>1. new[c].table[x] = imgs[c].table[x]
      BY <1>2, <1>5, <2>4
    <3> QED BY <2>1, <2>4, <3>1, OtherLine
  <2> QED BY <2>2, <2>3, <2>4
<1>8. \A l : ~RetakenTo(its, m, s[c], l) /\ ~RetakenTo(its, m + 1, s[c], l)
  <2>1. \A j \in Starts(its) : j <= m => j <= s[c]
    BY <1>3
  <2> QED BY <1>0, <1>3, <2>1, NotYet
<1>9. imgs[c].obsolete <=> ~Applies(its, s[c])
  BY <1>0, <1>8 DEF Outdated
<1>10. Outdated(its, m + 1, new, s)
  <2> SUFFICES ASSUME NEW i \in 1 .. c
               PROVE  new[i].obsolete <=>
                        \/ ~Applies(its, s[i])
                        \/ /\ LabelOrPath(new[i]) # NULL
                           /\ RetakenTo(its, m + 1, s[i], LabelOrPath(new[i]))
    BY <1>1 DEF Outdated
  <2>1. CASE i = c
    BY <1>2, <1>8, <1>9, <2>1
  <2>2. CASE i # c
    <3> DEFINE l == LabelOrPath(imgs[i])
    <3>1. LabelOrPath(new[i]) = l
      BY <1>2, <2>2 DEF LabelOrPath
    <3>2. imgs[i].obsolete <=> \/ ~Applies(its, s[i])
                               \/ l # NULL /\ RetakenTo(its, m, s[i], l)
      BY DEF Outdated
    <3>3. new[i].obsolete <=>
             \/ imgs[i].obsolete
             \/ /\ Accepts(cf_image, item, value) /\ item = "label"
                /\ ~imgs[c].obsolete /\ l # NULL /\ Fold[l] = Fold[value]
      BY <1>2, <2>2
    <3> HIDE DEF l
    <3>4. CASE Accepts(cf_image, item, value) /\ item = "label"
      <4>1. m + 1 \in Says(its, s[c], "label")
        BY <1>5, <3>4
      <4>2. s[c] > s[i] /\ s[c] \in Starts(its)
        BY <1>0, <1>3, <2>2
      <4>3. RetakenTo(its, m + 1, s[i], l) <=>
                RetakenTo(its, m, s[i], l) \/ (Applies(its, s[c]) /\ Fold[value] = Fold[l])
        BY <4>1, <4>2, Claim DEF value
      <4> QED BY <1>9, <3>1, <3>2, <3>3, <3>4, <4>3
    <3>5. CASE ~(Accepts(cf_image, item, value) /\ item = "label")
      <4>1. ASSUME NEW j \in Starts(its)
            PROVE  m + 1 \notin Says(its, j, "label")
        <5>1. CASE \E k \in 1 .. c : s[k] = j
          BY <1>5, <1>6, <3>5, <5>1
        <5>2. CASE ~\E k \in 1 .. c : s[k] = j
          <6>1. j \in Nat /\ ~(j <= m + 1)
            BY <1>3, <5>2 DEF Ordered
          <6> QED BY <6>1, LineFacts
        <5> QED BY <5>1, <5>2
      <4>2. RetakenTo(its, m + 1, s[i], l) <=> RetakenTo(its, m, s[i], l)
        BY <4>1, NoClaim
      <4> QED BY <3>1, <3>2, <3>3, <3>5, <4>2
    <3> QED BY <3>4, <3>5
  <2> QED BY <2>1, <2>2
<1> QED BY <1>7, <1>10 DEF new, item, value

(* A line behind the start of a section is no global line.                 *)
LEMMA OptionsKept ==
    ASSUME NEW its \in Seq(Item), NEW m \in Nat, NEW opts, ToldOptions(its, m, opts),
           NEW j \in Starts(its), j <= m + 1
    PROVE  ToldOptions(its, m + 1, opts)
<1>1. j \in Nat /\ j # 0
  BY LineFacts
<1>2. \A x : m + 1 \notin Says(its, 0, x)
  BY <1>1 DEF Says, Lines
<1> QED BY <1>2, OtherLine DEF ToldOptions

(* A global line, an item of a section, and a new section.                 *)
LEMMA FilledOption ==
    ASSUME NEW its \in Seq(Item), NEW m \in Nat, m + 1 <= Len(its),
           NEW opts \in [DOMAIN cf_options -> Data], NEW imgs, Len(imgs) = 0,
           its[m + 1].item \notin ImageItems, Filled(its, m, opts, imgs),
           NEW opts2, opts2 = IF Accepts(cf_options, its[m + 1].item, its[m + 1].value)
                              THEN [opts EXCEPT ![its[m + 1].item] = Datum(its[m + 1].value)]
                              ELSE opts
    PROVE  Filled(its, m + 1, opts2, imgs)
<1>1. PICK s \in [1 .. Len(imgs) -> Starts(its)] :
        /\ Ordered(its, m, Len(imgs), s)
        /\ Told(its, m, imgs, s) /\ Outdated(its, m, imgs, s) /\ ToldOptions(its, m, opts)
  BY DEF Filled
<1>2. m + 1 \in DOMAIN its /\ m + 1 \notin Starts(its)
  BY LineFacts DEF Starts
<1>3. ASSUME NEW j \in Starts(its)
      PROVE  j \in Nat /\ ~(j <= m + 1)
  BY <1>1, <1>2, LineFacts DEF Ordered
<1>4. Ordered(its, m + 1, Len(imgs), s)
  BY <1>1, <1>3 DEF Ordered
<1>5. Told(its, m + 1, imgs, s) /\ Outdated(its, m + 1, imgs, s)
  BY DEF Told, Outdated
<1>6. ToldOptions(its, m + 1, opts2)
  <2> SUFFICES ASSUME NEW x \in DOMAIN cf_options
               PROVE  Tells(its, m + 1, 0, x, opts2[x])
    BY DEF ToldOptions
  <2>1. Tells(its, m, 0, x, opts[x])
    BY <1>1 DEF ToldOptions
  <2>2. m + 1 \in Lines(its, 0) /\ ItemAt(its, m + 1) = its[m + 1].item
    BY <1>2, <1>3 DEF Lines, ItemAt
  <2>3. m + 1 \in Says(its, 0, x) <=>
            x = its[m + 1].item /\ Accepts(cf_options, its[m + 1].item, its[m + 1].value)
    BY <2>2 DEF Says, Kinds
  <2>4. CASE m + 1 \in Says(its, 0, x)
    <3>1. opts2[x] = Datum(its[m + 1].value)
      BY <2>3, <2>4
    <3> QED BY <2>4, <3>1, OwnLine
  <2>5. CASE m + 1 \notin Says(its, 0, x)
    <3>1. opts2[x] = opts[x]
      BY <2>3, <2>5
    <3> QED BY <2>1, <2>5, <3>1, OtherLine
  <2> QED BY <2>4, <2>5
<1> QED BY <1>1, <1>4, <1>5, <1>6 DEF Filled

LEMMA FilledImage ==
    ASSUME NEW its \in Seq(Item), NEW m \in Nat, m + 1 <= Len(its),
           NEW opts, NEW imgs \in Seq(Section), Len(imgs) # 0,
           its[m + 1].item \notin ImageItems, Filled(its, m, opts, imgs)
    PROVE  Filled(its, m + 1, opts, Assigned(imgs, Len(imgs), its[m + 1].item, its[m + 1].value))
<1> DEFINE new == Assigned(imgs, Len(imgs), its[m + 1].item, its[m + 1].value)
<1>1. PICK s \in [1 .. Len(imgs) -> Starts(its)] :
        /\ Ordered(its, m, Len(imgs), s)
        /\ Told(its, m, imgs, s) /\ Outdated(its, m, imgs, s) /\ ToldOptions(its, m, opts)
  BY DEF Filled
<1>2. m + 1 \in DOMAIN its /\ m + 1 \notin Starts(its) /\ its[m + 1] \in Item
  BY LineFacts DEF Starts
<1>3. Ordered(its, m + 1, Len(imgs), s)
  <2>1. \A j \in Starts(its) : j \in Nat /\ (j <= m + 1 => j <= m)
    BY <1>2, LineFacts
  <2>2. \A i \in 1 .. Len(imgs) : s[i] \in Starts(its)
    OBVIOUS
  <2> QED BY <1>1, <2>1, <2>2 DEF Ordered
<1>4. ItemAt(its, m + 1) = its[m + 1].item
  BY <1>2 DEF ItemAt
<1>5. Told(its, m + 1, new, s) /\ Outdated(its, m + 1, new, s)
  BY <1>1, <1>3, <1>4, SectionStep
<1>6. Len(new) = Len(imgs)
  <2>1. Len(imgs) \in 1 .. Len(imgs) /\ its[m + 1].value \in Words \cup {NULL}
    BY <1>2 DEF Item
  <2> QED BY <2>1, AssignedType
<1>7. ToldOptions(its, m + 1, opts)
  <2>1. 1 \in 1 .. Len(imgs)
    OBVIOUS
  <2>2. s[1] \in Starts(its) /\ s[1] <= m + 1
    BY <1>3, <2>1 DEF Ordered
  <2> QED BY <1>1, <2>2, OptionsKept
<1> QED BY <1>3, <1>5, <1>6, <1>7 DEF Filled

LEMMA FilledNew ==
    ASSUME NEW its \in Seq(Item), NEW m \in Nat, m + 1 <= Len(its),
           NEW opts, NEW imgs \in Seq(Section),
           its[m + 1].item \in ImageItems, Filled(its, m, opts, imgs),
           NEW more, more = NewImage(imgs, its[m + 1].item)
    PROVE  Filled(its, m + 1, opts, Assigned(more, Len(more), "image", its[m + 1].value))
<1> DEFINE new == Assigned(more, Len(more), "image", its[m + 1].value)
           len == Len(imgs)
<1>1. PICK s \in [1 .. len -> Starts(its)] :
        /\ Ordered(its, m, len, s)
        /\ Told(its, m, imgs, s) /\ Outdated(its, m, imgs, s) /\ ToldOptions(its, m, opts)
  BY DEF Filled
<1>2. m + 1 \in DOMAIN its /\ m + 1 \in Starts(its) /\ its[m + 1] \in Item /\ len \in Nat
  BY LineFacts DEF Starts
<1> DEFINE e == [table |-> Empty(cf_image), obsolete |-> its[m + 1].item = "image[other]"]
           s2 == [i \in 1 .. len + 1 |-> IF i = len + 1 THEN m + 1 ELSE s[i]]
<1>3. /\ e \in Section /\ (e.obsolete <=> ~Applies(its, m + 1))
      /\ \A x \in DOMAIN cf_image : e.table[x] = NULL
  BY TableAssumption DEF Section, Empty, Data, Applies
<1>4. more = Append(imgs, e)
  BY DEF NewImage
<1> HIDE DEF e
<1>5. /\ more \in Seq(Section) /\ Len(more) = len + 1 /\ more[len + 1] = e
      /\ \A i \in 1 .. len : more[i] = imgs[i]
  BY <1>2, <1>3, <1>4
<1>6. /\ s2 \in [1 .. len + 1 -> Starts(its)] /\ s2[len + 1] = m + 1
      /\ \A i \in 1 .. len : s2[i] = s[i]
  BY <1>2
<1> HIDE DEF s2
<1>7. /\ \A i \in 1 .. len + 1 : i = len + 1 \/ i \in 1 .. len
      /\ \A i \in 1 .. len : i \in 1 .. len + 1 /\ s[i] \in Nat /\ s[i] <= m
      /\ len + 1 \in 1 .. len + 1
  <2>1. \A i \in 1 .. len : s[i] \in Starts(its) /\ s[i] <= m
    BY <1>1 DEF Ordered
  <2>2. \A i \in 1 .. len : s[i] \in Nat
    BY <2>1, LineFacts
  <2> HIDE DEF len
  <2>3. /\ \A i \in 1 .. len + 1 : i = len + 1 \/ i \in 1 .. len
        /\ \A i \in 1 .. len : i \in 1 .. len + 1
        /\ len + 1 \in 1 .. len + 1
    BY <1>2
  <2> QED BY <2>1, <2>2, <2>3
<1>8. Ordered(its, m + 1, len + 1, s2)
  <2>1. \A i \in 1 .. len + 1 : s2[i] <= m + 1
    BY <1>6, <1>7
  <2>2. ASSUME NEW i \in 1 .. len + 1, NEW j \in 1 .. len + 1, i < j
        PROVE  s2[i] < s2[j]
    <3>1. i \in 1 .. len
      BY <1>2, <1>7, <2>2
    <3>2. CASE j = len + 1
      BY <1>6, <1>7, <3>1, <3>2
    <3>3. CASE j \in 1 .. len
      BY <1>1, <1>6, <2>2, <3>1, <3>3 DEF Ordered
    <3> QED BY <1>7, <3>2, <3>3
  <2>3. ASSUME NEW k \in Starts(its), k <= m + 1
        PROVE  \E i \in 1 .. len + 1 : s2[i] = k
    <3>1. k \in Nat
      BY LineFacts
    <3>2. CASE k = m + 1
      BY <1>6, <1>7, <3>2
    <3>3. CASE k <= m
      <4>1. PICK i \in 1 .. len : s[i] = k
        BY <1>1, <3>3 DEF Ordered
      <4> QED BY <1>6, <1>7, <4>1
    <3> QED BY <2>3, <3>1, <3>2, <3>3
  <2> QED BY <1>6, <2>1, <2>2, <2>3 DEF Ordered
<1>9. Told(its, m, more, s2)
  <2>1. ASSUME NEW i \in 1 .. len + 1, NEW x \in DOMAIN cf_image
        PROVE  Tells(its, m, s2[i], x, more[i].table[x])
    <3>1. CASE i = len + 1
      <4>1. SaysTo(its, m, m + 1, x) = {}
        BY LineFacts DEF SaysTo
      <4> QED BY <1>3, <1>5, <1>6, <3>1, <4>1 DEF Tells
    <3>2. CASE i \in 1 .. len
      BY <1>1, <1>5, <1>6, <3>2 DEF Told
    <3> QED BY <1>7, <3>1, <3>2
  <2> QED BY <1>5, <2>1 DEF Told
<1>10. Outdated(its, m, more, s2)
  <2>1. ASSUME NEW i \in 1 .. len + 1
        PROVE  more[i].obsolete <=>
                 \/ ~Applies(its, s2[i])
                 \/ LabelOrPath(more[i]) # NULL /\ RetakenTo(its, m, s2[i], LabelOrPath(more[i]))
    <3>1. CASE i = len + 1
      <4>1. LabelOrPath(e) = NULL
        BY <1>3, TableAssumption DEF LabelOrPath
      <4> QED BY <1>3, <1>5, <1>6, <3>1, <4>1
    <3>2. CASE i \in 1 .. len
      BY <1>1, <1>5, <1>6, <3>2 DEF Outdated
    <3> QED BY <1>7, <3>1, <3>2
  <2> QED BY <1>5, <2>1 DEF Outdated
<1>11. ItemAt(its, m + 1) = "image" /\ Len(more) # 0
  BY <1>2, <1>5 DEF ItemAt
<1>12. Told(its, m + 1, new, s2) /\ Outdated(its, m + 1, new, s2)
  BY <1>5, <1>8, <1>9, <1>10, <1>11, SectionStep
<1>13. Len(new) = len + 1
  <2>1. Len(more) \in 1 .. Len(more) /\ its[m + 1].value \in Words \cup {NULL}
    BY <1>2, <1>5 DEF Item
  <2> QED BY <1>5, <2>1, AssignedType
<1>14. ToldOptions(its, m + 1, opts)
  BY <1>1, <1>2, OptionsKept
<1> QED BY <1>6, <1>8, <1>12, <1>13, <1>14 DEF Filled

-----------------------------------------------------------------------------
(***************************************************************************)
(* The tokens and the items.                                               *)
(***************************************************************************)
(* cfg_next takes three tokens for an item with a value and one without:   *)
(* the token it looked at to tell is the first of the stream again.        *)
LEMMA Taken ==
    ASSUME TypeOK, NEW item, NEW value, cfg_next(item, value)
    PROVE  LET d == IF HasValue THEN 3 ELSE 1
           IN  /\ Len(Stream') = Len(Stream) - d
               /\ \A i \in 1 .. Len(Stream') : Stream'[i] = Stream[i + d]
<1> DEFINE S == Stream
<1>1. S \in Seq(Token) /\ Len(S) \in Nat /\ Len(S) # 0 /\ DOMAIN S = 1 .. Len(S)
  <2>1. S \in Seq(Token) /\ S # <<>>
    BY StreamType DEF cfg_next
  <2> QED BY <2>1
<1>2. /\ HasValue => Len(S) > 2
      /\ Len(S) > 1 /\ ~HasValue => S[2] \in Words
  BY <1>1 DEF cfg_next, SyntaxError, HasValue, Erroneous, ValueNext, Token
<1>3. /\ last_token' = (IF HasValue \/ Len(S) = 1 THEN NoToken ELSE S[2])
      /\ toks' = SubSeq(S, IF HasValue THEN 4 ELSE 3, Len(S))
  BY DEF cfg_next
<1>4. Stream' = IF last_token' = NoToken THEN toks' ELSE <<last_token'>> \o toks'
  BY DEF Stream
<1> HIDE DEF S
<1>5. CASE HasValue
  <2>1. Stream' = SubSeq(S, 4, Len(S))
    BY <1>3, <1>4, <1>5
  <2>2. Len(Stream') = Len(S) - 3 /\ \A i \in 1 .. Len(Stream') : Stream'[i] = S[i + 3]
    BY <1>1, <1>2, <1>5, <2>1
  <2> QED BY <1>5, <2>2 DEF S
<1>6. CASE ~HasValue /\ Len(S) = 1
  <2>1. Stream' = SubSeq(S, 3, Len(S))
    BY <1>3, <1>4, <1>6
  <2>2. Len(Stream') = 0
    BY <1>1, <1>6, <2>1
  <2> QED BY <1>6, <2>2 DEF S
<1>7. CASE ~HasValue /\ Len(S) # 1
  <2>1. S[2] \in Words /\ S[2] # NoToken
    BY <1>1, <1>2, <1>7, ValueAssumption
  <2>2. Stream' = <<S[2]>> \o SubSeq(S, 3, Len(S))
    BY <1>3, <1>4, <1>7, <2>1
  <2>3. Len(Stream') = Len(S) - 1 /\ \A i \in 1 .. Len(Stream') : Stream'[i] = S[i + 1]
    BY <1>1, <1>7, <2>2
  <2> QED BY <1>7, <2>3 DEF S
<1> QED BY <1>5, <1>6, <1>7

(* The stream at the item after the first m.                               *)
LEMMA AtItem ==
    ASSUME TypeOK, Written(file), NEW m \in Nat, m < Len(file.items), Position(m)
    PROVE  LET it == file.items[m + 1]
               n == Len(file.items)
           IN  /\ it \in Item /\ Len(Stream) \in Nat /\ Len(Stream) > 0 /\ Stream[1] = it.item
               /\ it.value = NULL =>
                     /\ file.at[m + 2] = file.at[m + 1] + 1
                     /\ Len(Stream) > 1 /\ m + 1 < n => Stream[2] \in Words
                     /\ m + 1 = n =>
                           /\ Len(Stream) = 1 + Len(file.ending)
                           /\ Len(Stream) > 1 => Stream[2] = file.ending[1]
               /\ it.value # NULL =>
                     /\ file.at[m + 2] = file.at[m + 1] + 3
                     /\ Len(Stream) > 2 /\ Stream[2] = "=" /\ Stream[3] = it.value
<1> DEFINE it == file.items[m + 1]
           n == Len(file.items)
           at == file.at
           S == Stream
<1>1. /\ n \in Nat /\ m + 1 \in 1 .. n /\ m + 2 \in 1 .. n + 1 /\ m + 1 \in 1 .. n + 1
      /\ Len(file.toks) \in Nat /\ Len(file.ending) \in Nat
      /\ it \in Item
  BY DEF Written
<1>2. at[m + 1] \in 1 .. Len(file.toks) + 1 /\ at[m + 2] \in 1 .. Len(file.toks) + 1
  BY <1>1 DEF Written
<1>3. /\ file.toks[at[m + 1]] = it.item
      /\ it.value = NULL => at[m + 2] = at[m + 1] + 1
      /\ it.value # NULL => /\ at[m + 2] = at[m + 1] + 3
                            /\ file.toks[at[m + 1] + 1] = "="
                            /\ file.toks[at[m + 1] + 2] = it.value
  <2>1. (m + 1) + 1 = m + 2
    OBVIOUS
  <2> QED BY <1>1, <2>1 DEF Written
<1>4. /\ Len(S) = Len(file.toks) + 1 - at[m + 1]
      /\ \A i \in 1 .. Len(S) : S[i] = file.toks[at[m + 1] + i - 1]
  BY DEF Position
<1>5. m + 1 < n => file.toks[at[m + 2]] \in Words
  <2>1. ASSUME m + 1 < n
        PROVE  file.toks[at[m + 2]] \in Words
    <3>1. m + 2 \in 1 .. n
      BY <1>1, <2>1
    <3>2. file.toks[at[m + 2]] = file.items[m + 2].item /\ file.items[m + 2] \in Item
      BY <3>1 DEF Written
    <3> QED BY <3>2 DEF Item
  <2> QED BY <2>1
<1>6. ASSUME m + 1 = n
      PROVE  /\ Len(file.toks) + 1 = at[m + 2] + Len(file.ending)
             /\ Len(file.ending) > 0 => file.toks[at[m + 2]] = file.ending[1]
  <2>1. m + 2 = n + 1
    BY <1>1, <1>6
  <2>2. /\ Len(file.toks) + 1 = at[m + 2] + Len(file.ending)
        /\ \A i \in 1 .. Len(file.ending) : file.toks[at[m + 2] + i - 1] = file.ending[i]
    BY <2>1 DEF Written
  <2>3. at[m + 2] + 1 - 1 = at[m + 2] /\ (Len(file.ending) > 0 => 1 \in 1 .. Len(file.ending))
    BY <1>1, <1>2
  <2> QED BY <2>2, <2>3
<1> HIDE DEF it, n, at, S
<1>7. Len(S) \in Nat /\ Len(S) > 0 /\ S[1] = it.item
  BY <1>2, <1>3, <1>4
<1>8. ASSUME it.value = NULL
      PROVE  /\ Len(S) > 1 /\ m + 1 < n => S[2] \in Words
             /\ m + 1 = n => /\ Len(S) = 1 + Len(file.ending)
                             /\ Len(S) > 1 => S[2] = file.ending[1]
  <2>1. Len(S) > 1 => S[2] = file.toks[at[m + 2]]
    BY <1>2, <1>3, <1>4, <1>7, <1>8
  <2>2. m + 1 = n => Len(S) = 1 + Len(file.ending)
    <3>1. Len(S) = Len(file.toks) + 1 - at[m + 1] /\ at[m + 2] = at[m + 1] + 1
      BY <1>3, <1>4, <1>8
    <3>2. at[m + 1] \in Int /\ Len(file.toks) \in Int /\ Len(file.ending) \in Int
      BY <1>1, <1>2
    <3>3. ASSUME m + 1 = n PROVE Len(S) = 1 + Len(file.ending)
      <4>1. Len(file.toks) + 1 = at[m + 2] + Len(file.ending)
        BY <1>6, <3>3
      <4> DEFINE t == Len(file.toks)
                 e == Len(file.ending)
                 a == at[m + 1]
                 l == Len(S)
      <4>2. t + 1 = (a + 1) + e /\ l = t + 1 - a /\ t \in Int /\ e \in Int /\ a \in Int
        BY <3>1, <3>2, <4>1
      <4> HIDE DEF t, e, a, l
      <4>3. l = 1 + e
        BY <4>2
      <4> QED BY <4>3 DEF l, e
    <3> QED BY <3>3
  <2>3. m + 1 = n /\ Len(S) > 1 => file.toks[at[m + 2]] = file.ending[1]
    BY <1>1, <1>6, <2>2
  <2> QED BY <1>5, <2>1, <2>2, <2>3
<1>9. ASSUME it.value # NULL
      PROVE  Len(S) > 2 /\ S[2] = "=" /\ S[3] = it.value
  <2>1. Len(S) > 2
    BY <1>2, <1>3, <1>4, <1>9
  <2>2. 2 \in 1 .. Len(S) /\ 3 \in 1 .. Len(S)
    BY <1>7, <2>1
  <2>3. at[m + 1] + 2 - 1 = at[m + 1] + 1 /\ at[m + 1] + 3 - 1 = at[m + 1] + 2
    BY <1>2
  <2>4. S[2] = file.toks[at[m + 1] + 1] /\ S[3] = file.toks[at[m + 1] + 2]
    BY <1>4, <2>2, <2>3
  <2> QED BY <1>3, <1>9, <2>1, <2>4
<1> QED BY <1>1, <1>3, <1>7, <1>8, <1>9 DEF it, n, at, S

(* The stream at the ending.                                               *)
LEMMA AtEnd ==
    ASSUME TypeOK, Written(file), Position(Len(file.items))
    PROVE  /\ Len(Stream) = Len(file.ending)
           /\ \A i \in 1 .. Len(Stream) : Stream[i] = file.ending[i]
<1> DEFINE n == Len(file.items)
           S == Stream
<1>1. n \in Nat /\ Len(file.ending) \in Nat /\ Len(file.toks) \in Nat
  BY DEF Written
<1>2. n + 1 \in 1 .. n + 1
  BY <1>1
<1>3. file.at[n + 1] \in 1 .. Len(file.toks) + 1
  BY <1>2 DEF Written
<1>4. /\ Len(file.toks) + 1 = file.at[n + 1] + Len(file.ending)
      /\ \A i \in 1 .. Len(file.ending) : file.toks[file.at[n + 1] + i - 1] = file.ending[i]
  BY DEF Written
<1>5. /\ Len(S) = Len(file.toks) + 1 - file.at[n + 1]
      /\ \A i \in 1 .. Len(S) : S[i] = file.toks[file.at[n + 1] + i - 1]
  BY DEF Position
<1> HIDE DEF n, S
<1>6. Len(S) = Len(file.ending)
  BY <1>1, <1>3, <1>4, <1>5
<1> QED BY <1>4, <1>5, <1>6 DEF S

(* What cfg_next hands over is the next item of the file: the ending is no *)
(* item, and a flag never takes the token behind it for its value.         *)
LEMMA ItemRead ==
    ASSUME TypeOK, Written(file), NEW m \in 0 .. Len(file.items), Position(m),
           NEW item, NEW value, cfg_next(item, value), file' = file
    PROVE  /\ m + 1 <= Len(file.items)
           /\ item = file.items[m + 1].item /\ value = file.items[m + 1].value
           /\ Position(m + 1)'
<1> DEFINE it == file.items[m + 1]
           n == Len(file.items)
           S == Stream
           e == file.ending
<1>0. n \in Nat /\ m \in Nat /\ e \in Seq(Token) /\ S \in Seq(Token)
  BY StreamType DEF Written
<1>1. S # <<>> /\ ~Erroneous(S) /\ item = S[1] /\ value = IF ValueNext(S) THEN S[3] ELSE NULL
  BY DEF cfg_next, SyntaxError, HasValue
<1>2. e \in {<<>>, <<"=">>} \/ (e[1] # "=" /\ Erroneous(e))
  BY DEF Written
<1>3. m < n
  <2> SUFFICES ASSUME m = n PROVE FALSE
    BY <1>0
  <2>1. Len(S) = Len(e) /\ \A i \in 1 .. Len(S) : S[i] = e[i]
    BY AtEnd
  <2>2. S = e
    BY <1>0, <2>1
  <2> QED BY <1>1, <1>2, <2>2 DEF Erroneous
<1>4. /\ it \in Item /\ Len(S) \in Nat /\ Len(S) > 0 /\ S[1] = it.item
      /\ it.value = NULL =>
            /\ file.at[m + 2] = file.at[m + 1] + 1
            /\ Len(S) > 1 /\ m + 1 < n => S[2] \in Words
            /\ m + 1 = n => Len(S) = 1 + Len(e) /\ (Len(S) > 1 => S[2] = e[1])
      /\ it.value # NULL => /\ file.at[m + 2] = file.at[m + 1] + 3
                            /\ Len(S) > 2 /\ S[2] = "=" /\ S[3] = it.value
  BY <1>0, <1>3, AtItem
<1> HIDE DEF it, n, S, e
<1>5. ValueNext(S) <=> it.value # NULL
  <2>1. ASSUME it.value # NULL PROVE ValueNext(S)
    BY <1>4, <2>1 DEF ValueNext
  <2>2. ASSUME it.value = NULL, ValueNext(S) PROVE FALSE
    <3>1. Len(S) > 1 /\ S[2] = "="
      BY <2>2 DEF ValueNext
    <3>2. m + 1 = n
      BY <1>0, <1>3, <1>4, <2>2, <3>1, ValueAssumption
    <3>3. Len(S) = 1 + Len(e) /\ e[1] = "="
      BY <1>4, <2>2, <3>1, <3>2
    <3>4. e = <<"=">>
      BY <1>0, <1>2, <1>4, <3>1, <3>3
    <3>5. Len(S) = 2
      BY <3>3, <3>4
    <3> QED BY <1>1, <2>2, <3>5 DEF Erroneous
  <2> QED BY <2>1, <2>2
<1>6. item = it.item /\ value = it.value
  BY <1>1, <1>4, <1>5
<1>7. Position(m + 1)'
  <2> DEFINE d == IF it.value # NULL THEN 3 ELSE 1
  <2>1. /\ Len(Stream') = Len(S) - d
        /\ \A i \in 1 .. Len(Stream') : Stream'[i] = S[i + d]
    BY <1>5, Taken DEF HasValue, S
  <2>2. file.at[m + 2] = file.at[m + 1] + d /\ d \in {1, 3}
    BY <1>4
  <2>3. file.at[m + 1] \in Nat /\ Len(file.toks) \in Nat
    <3>1. m + 1 \in 1 .. Len(file.items) + 1
      BY <1>0, <1>3 DEF n
    <3>2. file.at[m + 1] \in 1 .. Len(file.toks) + 1 /\ Len(file.toks) \in Nat
      BY <3>1 DEF Written
    <3> QED BY <3>2
  <2>4. /\ Len(S) = Len(file.toks) + 1 - file.at[m + 1]
        /\ \A i \in 1 .. Len(S) : S[i] = file.toks[file.at[m + 1] + i - 1]
    BY DEF Position, S
  <2> HIDE DEF d
  <2>5. /\ Len(Stream') = Len(file.toks) + 1 - file.at[m + 2]
        /\ \A i \in 1 .. Len(Stream') : Stream'[i] = file.toks[file.at[m + 2] + i - 1]
    <3>1. Len(Stream') = Len(file.toks) + 1 - file.at[m + 2]
      BY <2>1, <2>2, <2>3, <2>4
    <3>2. ASSUME NEW i \in 1 .. Len(Stream')
          PROVE  Stream'[i] = file.toks[file.at[m + 2] + i - 1]
      <4>1. i + d \in 1 .. Len(S) /\ Stream'[i] = S[i + d]
        BY <1>4, <2>1, <2>2
      <4>2. file.at[m + 1] + (i + d) - 1 = file.at[m + 2] + i - 1
        BY <2>2, <2>3
      <4> QED BY <2>4, <4>1, <4>2
    <3> QED BY <3>1, <3>2
  <2>6. (m + 1) + 1 = m + 2
    BY <1>0
  <2> QED BY <2>5, <2>6 DEF Position
<1> QED BY <1>0, <1>3, <1>6, <1>7 DEF it, n

(* Parsing fails only at an ending, and ends only behind the last item.    *)
LEMMA FailedAtEnding ==
    ASSUME TypeOK, Written(file), NEW m \in 0 .. Len(file.items), Position(m), Erroneous(Stream)
    PROVE  file.ending # <<>>
<1> SUFFICES ASSUME file.ending = <<>> PROVE FALSE
  OBVIOUS
<1> DEFINE n == Len(file.items)
           S == Stream
<1>0. n \in Nat /\ m \in Nat /\ S \in Seq(Token) /\ Len(file.ending) = 0
  BY StreamType DEF Written
<1>1. CASE m = n
  <2>1. Len(S) = 0
    BY <1>0, <1>1, AtEnd
  <2> QED BY <1>0, <2>1 DEF Erroneous
<1>2. CASE m < n
  <2> DEFINE it == file.items[m + 1]
  <2>1. /\ it \in Item /\ Len(S) \in Nat /\ S[1] = it.item
        /\ it.value = NULL =>
              /\ Len(S) > 1 /\ m + 1 < n => S[2] \in Words
              /\ m + 1 = n => Len(S) = 1
        /\ it.value # NULL => Len(S) > 2 /\ S[2] = "=" /\ S[3] = it.value
    BY <1>0, <1>2, AtItem
  <2>2. it.item \in Words /\ it.value \in Words \cup {NULL}
    BY <2>1 DEF Item
  <2> HIDE DEF it, n, S
  <2>3. S[1] \notin {"=", Bad} /\ Erroneous(S)
    BY <2>1, <2>2, ValueAssumption DEF S
  <2>4. CASE it.value = NULL
    BY <1>0, <1>2, <2>1, <2>3, <2>4, ValueAssumption DEF Erroneous, ValueNext
  <2>5. CASE it.value # NULL
    <3>1. S[3] \notin {"=", Bad} /\ S[2] # Bad
      BY <2>1, <2>2, <2>5, ValueAssumption DEF Bad
    <3> QED BY <2>1, <2>3, <2>5, <3>1 DEF Erroneous
  <2> QED BY <2>4, <2>5
<1> QED BY <1>0, <1>1, <1>2

LEMMA EndedAtLast ==
    ASSUME TypeOK, Written(file), NEW m \in 0 .. Len(file.items), Position(m), Stream = <<>>
    PROVE  m = Len(file.items)
<1>1. Len(file.items) \in Nat /\ Len(Stream) = 0
  BY DEF Written
<1> QED BY <1>1, AtItem

-----------------------------------------------------------------------------
(* Before its first line the tables of a file are empty.                   *)
LEMMA FilledEmpty ==
    ASSUME NEW its \in Seq(Item)
    PROVE  Filled(its, 0, Empty(cf_options), <<>>)
<1> DEFINE s == [i \in 1 .. 0 |-> 0]
<1>1. s \in [1 .. Len(<<>>) -> Starts(its)]
  OBVIOUS
<1>2. Ordered(its, 0, Len(<<>>), s)
  <2>1. \A k \in Starts(its) : ~(k <= 0)
    BY LineFacts
  <2> QED BY <1>1, <2>1 DEF Ordered
<1>3. Told(its, 0, <<>>, s) /\ Outdated(its, 0, <<>>, s)
  BY DEF Told, Outdated
<1>4. ToldOptions(its, 0, Empty(cf_options))
  <2>1. \A x : SaysTo(its, 0, 0, x) = {}
    BY LineFacts DEF SaysTo
  <2> QED BY <2>1 DEF ToldOptions, Tells, Empty
<1> QED BY <1>1, <1>2, <1>3, <1>4 DEF Filled

(* cfg_set enters the next line of the file.                               *)
LEMMA FilledStep ==
    ASSUME TypeOK, NEW its \in Seq(Item), NEW m \in Nat, m + 1 <= Len(its),
           cfg_set(its[m + 1].item, its[m + 1].value), faults' = 0,
           Filled(its, m, options, images)
    PROVE  Filled(its, m + 1, options', images')
<1> DEFINE it == its[m + 1]
<1>0. /\ images \in Seq(Section) /\ curr_table = Len(images)
      /\ options \in [DOMAIN cf_options -> Data] /\ faults \in 0 .. MaxFaults
  BY DEF TypeOK
<1>1. CASE it.item \in ImageItems /\ AddImage(it.item, it.value)
  <2>1. /\ images' = Assigned(NewImage(images, it.item), Len(NewImage(images, it.item)),
                              "image", it.value)
        /\ options' = options
    BY <1>1 DEF AddImage
  <2> QED BY <1>0, <1>1, <2>1, FilledNew
<1>2. CASE AddImageFails
  BY <1>0, <1>2, FileAssumption DEF AddImageFails
<1>3. CASE it.item \notin ImageItems /\ curr_table = 0 /\ SetOption(it.item, it.value)
  <2>1. /\ images' = images
        /\ options' = IF Accepts(cf_options, it.item, it.value)
                      THEN [options EXCEPT ![it.item] = Datum(it.value)] ELSE options
    BY <1>3 DEF SetOption
  <2> QED BY <1>0, <1>3, <2>1, FilledOption
<1>4. CASE it.item \notin ImageItems /\ curr_table # 0 /\ SetImage(it.item, it.value)
  <2>1. /\ images' = Assigned(images, Len(images), it.item, it.value)
        /\ options' = options
    BY <1>0, <1>4 DEF SetImage
  <2> QED BY <1>0, <1>4, <2>1, FilledImage
<1> QED BY <1>1, <1>2, <1>3, <1>4 DEF cfg_set

LEMMA FileStep == IInv /\ FileInv /\ [Next]_vars => FileInv'
<1> SUFFICES ASSUME IInv, FileInv, [Next]_vars PROVE FileInv'
  OBVIOUS
<1>0. TypeOK /\ Written(file) /\ Parsing /\ Parsed /\ Ended
  BY DEF IInv, FileInv
<1>1. CASE cfg_parse
  <2>1. parses + 1 \in 1 .. Len(Files)
    BY <1>0, <1>1, FileAssumption DEF cfg_parse, TypeOK
  <2>2. PICK f \in Files[parses + 1] : file' = f /\ toks' = f.toks
    BY <1>1 DEF cfg_parse
  <2>3. Written(f)
    BY <2>1, <2>2, FileAssumption
  <2>4. /\ pc' = "parse" /\ last_token' = last_token /\ pc # "parse"
        /\ options' = Empty(cf_options) /\ images' = <<>>
    BY <1>1 DEF cfg_parse, cfg_reset
  <2>5. Stream' = f.toks
    BY <1>0, <2>2, <2>4 DEF Stream, Ended
  <2>6. f.items \in Seq(Item) /\ Len(f.items) \in Nat /\ f.at[1] = 1 /\ Len(f.toks) \in Nat
        /\ f.toks \in Seq(Token)
    BY <2>3 DEF Written
  <2>7. Position(0)'
    <3>1. 0 + 1 = 1 /\ Len(f.toks) = Len(f.toks) + 1 - 1
          /\ \A i \in 1 .. Len(f.toks) : 1 + i - 1 = i
      BY <2>6
    <3> QED BY <2>2, <2>5, <2>6, <3>1 DEF Position
  <2>8. Filled(f.items, 0, options', images')
    BY <2>4, <2>6, FilledEmpty
  <2>9. Parsing'
    <3>1. 0 \in 0 .. Len(f.items)
      BY <2>6
    <3> QED BY <2>2, <2>7, <2>8, <3>1 DEF Parsing
  <2> QED BY <2>2, <2>3, <2>4, <2>9 DEF FileInv, Parsed, Ended
<1>2. CASE ParseItem
  <2>1. PICK item, value : cfg_next(item, value) /\ cfg_set(item, value)
    BY <1>2 DEF ParseItem
  <2>2. pc = "parse" /\ UNCHANGED <<pc, mac, file, parses>>
    BY <1>2 DEF ParseItem
  <2>3. PICK m \in 0 .. Len(file.items) :
            Position(m) /\ (faults = 0 => Filled(file.items, m, options, images))
    BY <1>0, <2>2 DEF Parsing
  <2>4. /\ m + 1 <= Len(file.items)
        /\ item = file.items[m + 1].item /\ value = file.items[m + 1].value
        /\ Position(m + 1)'
    BY <1>0, <2>1, <2>2, <2>3, ItemRead
  <2>5. m \in Nat /\ file.items \in Seq(Item) /\ m + 1 \in 0 .. Len(file.items)
    BY <1>0, <2>4 DEF Written
  <2>6. faults' = 0 => faults = 0
    <3>1. faults' = faults \/ faults' = faults + 1
      BY <2>1 DEF cfg_set, AddImage, AddImageFails, SetOption, SetImage
    <3>2. faults \in Nat
      BY <1>0, FileAssumption DEF TypeOK
    <3> QED BY <3>1, <3>2
  <2>7. faults' = 0 => Filled(file.items, m + 1, options', images')
    BY <1>0, <2>1, <2>3, <2>4, <2>5, <2>6, FilledStep
  <2>8. Parsing'
    BY <2>2, <2>4, <2>5, <2>7 DEF Parsing
  <2> QED BY <1>0, <2>2, <2>8 DEF FileInv, Parsed, Ended
<1>3. CASE ParseFails
  <2>1. pc = "parse" /\ Erroneous(Stream) /\ pc' = "failed" /\ last_token' = NoToken /\ file' = file
    BY <1>3 DEF ParseFails, SyntaxError
  <2>2. file.ending # <<>>
    BY <1>0, <2>1, FailedAtEnding DEF Parsing
  <2> QED BY <1>0, <2>1, <2>2 DEF FileInv, Parsing, Parsed, Ended
<1>4. CASE ParseEnds
  <2>1. /\ pc = "parse" /\ Stream = <<>> /\ pc' = "mac"
        /\ UNCHANGED <<last_token, options, images, file, faults>>
    BY <1>4 DEF ParseEnds
  <2>2. faults = 0 => Filled(file.items, Len(file.items), options, images)
    BY <1>0, <2>1, EndedAtLast DEF Parsing
  <2>3. last_token = NoToken
    BY <2>1 DEF Stream
  <2> QED BY <1>0, <2>1, <2>2, <2>3 DEF FileInv, Parsing, Parsed, Ended
<1>5. CASE \E a \in Words : cfg_set_default_by_mac(a)
  <2>1. /\ pc = "mac" /\ pc' = "done" /\ (mac' \/ options' = options)
        /\ UNCHANGED <<last_token, images, file, faults>>
    BY <1>5 DEF cfg_set_default_by_mac
  <2> QED BY <1>0, <2>1 DEF FileInv, Parsing, Parsed, Ended
<1>6. CASE NoMac
  <2>1. /\ pc = "mac" /\ pc' = "done"
        /\ UNCHANGED <<last_token, options, images, file, faults>>
    BY <1>6 DEF NoMac
  <2> QED BY <1>0, <2>1 DEF FileInv, Parsing, Parsed, Ended
<1>7. CASE InUse \/ UNCHANGED vars
  <2>1. UNCHANGED vars
    BY <1>7 DEF InUse
  <2>2. Stream' = Stream
    BY <2>1 DEF Stream, vars
  <2> QED BY <1>0, <2>1, <2>2 DEF FileInv, Parsing, Parsed, Ended, Position, vars
<1> QED BY <1>1, <1>2, <1>3, <1>4, <1>5, <1>6, <1>7 DEF Next

(* While a file is parsed, the tables hold what its lines so far say and   *)
(* the stream is at the next one; afterwards they hold what all of it says.*)
THEOREM FileInvariance == Spec => []FileInv
<1>1. Init => FileInv
  <2> SUFFICES ASSUME Init PROVE FileInv
    OBVIOUS
  <2>1. pc = "idle" /\ last_token = NoToken /\ file = NoFile
    BY DEF Init
  <2>2. Written(NoFile)
    BY DEF Written, NoFile
  <2> QED BY <2>1, <2>2 DEF FileInv, Parsing, Parsed, Ended
<1>2. QED
  BY <1>1, FileStep, Invariance, PTL DEF Spec

-----------------------------------------------------------------------------
(***************************************************************************)
(* What the tables of a parsed file mean for lookups.                      *)
(***************************************************************************)
LEMMA FirstIsLeast ==
    ASSUME NEW S \in SUBSET Nat, S # {}
    PROVE  First(S) \in S /\ \A j \in S : First(S) <= j
<1>1. \E x \in S : \A y \in S : ~(<<y, x>> \in OpToRel(<, Nat))
  BY NatLessThanWellFounded, WFMin
<1>2. \A x, y \in Nat : y < x => <<y, x>> \in OpToRel(<, Nat)
  BY DEF OpToRel
<1>3. \E x \in S : \A y \in S : x <= y
  <2>1. PICK x \in S : \A y \in S : ~(<<y, x>> \in OpToRel(<, Nat))
    BY <1>1, Zenon
  <2>2. \A y \in S : x \in Nat /\ y \in Nat /\ ~(y < x)
    BY <1>2, <2>1, Zenon
  <2> QED BY <2>2
<1> QED BY <1>3 DEF First

LEMMA FirstIs ==
    ASSUME NEW S \in SUBSET Nat, NEW i \in S, \A j \in S : i <= j
    PROVE  First(S) = i
<1>1. First(S) \in S /\ \A j \in S : First(S) <= j
  BY DEF First
<1>2. First(S) \in Nat /\ i \in Nat /\ First(S) <= i /\ i <= First(S)
  BY <1>1
<1> QED BY <1>2

(* What all lines tell is what the file says.                              *)
LEMMA SaidIs ==
    ASSUME NEW its \in Seq(Item), NEW k, NEW item, NEW v, Tells(its, Len(its), k, item, v)
    PROVE  Said(its, k, item) = v
<1> DEFINE says == Says(its, k, item)
<1>1. SaysTo(its, Len(its), k, item) = says /\ \A n \in says : n \in Nat
  BY LineFacts DEF SaysTo
<1>2. CASE says = {}
  BY <1>1, <1>2 DEF Tells, Said
<1>3. CASE says # {}
  <2>1. PICK n \in says : (\A p \in says : p <= n) /\ v = Datum(its[n].value)
    BY <1>1, <1>3 DEF Tells
  <2> DEFINE c == CHOOSE q \in says : \A p \in says : p <= q
  <2>2. c \in says /\ \A p \in says : p <= c
    BY <2>1
  <2> HIDE DEF c
  <2>3. c = n
    BY <1>1, <2>1, <2>2
  <2>4. Said(its, k, item) = Datum(its[c].value)
    BY <1>3 DEF Said, c
  <2> QED BY <2>1, <2>3, <2>4
<1> QED BY <1>2, <1>3

LEMMA RetakenIs ==
    ASSUME NEW its \in Seq(Item), NEW k, NEW l
    PROVE  RetakenTo(its, Len(its), k, l) <=> Retaken(its, k, l)
<1>1. \A j : SaysTo(its, Len(its), j, "label") = Says(its, j, "label")
  BY LineFacts DEF SaysTo
<1> QED BY <1>1 DEF RetakenTo, Retaken

(* Nothing is said of an item the table does not have, and nothing global  *)
(* of an image.                                                            *)
LEMMA Unsaid ==
    ASSUME NEW its \in Seq(Item)
    PROVE  /\ \A k \in Starts(its) : \A x : x \notin DOMAIN cf_image => Said(its, k, x) = NULL
           /\ \A x : x \notin DOMAIN cf_options => Said(its, 0, x) = NULL
           /\ Said(its, 0, "image") = NULL
<1>1. \A k \in Starts(its) : \A x : x \notin DOMAIN cf_image => Says(its, k, x) = {}
  BY LineFacts DEF Kinds, Accepts
<1>2. \A x : x \notin DOMAIN cf_options => Says(its, 0, x) = {}
  BY LineFacts DEF Kinds, Accepts
<1>3. Says(its, 0, "image") = {}
  <2> SUFFICES ASSUME NEW n \in Says(its, 0, "image") PROVE FALSE
    OBVIOUS
  <2>1. n \in DOMAIN its /\ n \in Nat /\ ItemAt(its, n) = "image"
        /\ \A j \in Starts(its) : j <= 0 \/ n < j
    BY LineFacts
  <2>2. its[n].item \in ImageItems
    BY <2>1 DEF ItemAt, ImageItems
  <2>3. n \in Starts(its)
    BY <2>1, <2>2 DEF Starts
  <2> QED BY <2>1, <2>3, LineFacts
<1> QED BY <1>1, <1>2, <1>3 DEF Said

(* A label the file gives to a section is on one of its lines.             *)
LEMMA LabelLine ==
    ASSUME NEW its \in Seq(Item), NEW k \in Starts(its), Said(its, k, "label") # NULL,
           NEW v, Tells(its, Len(its), k, "label", v)
    PROVE  \E n \in Says(its, k, "label") : its[n].value = Said(its, k, "label")
<1>1. v = Said(its, k, "label") /\ v # NULL
  BY SaidIs
<1>2. PICK n \in SaysTo(its, Len(its), k, "label") : v = Datum(its[n].value)
  BY <1>1 DEF Tells
<1>3. n \in Says(its, k, "label")
  BY <1>2 DEF SaysTo
<1>4. Accepts(cf_image, "label", its[n].value)
  BY <1>3, LineFacts DEF Kinds
<1>5. its[n].value # NULL
  BY <1>4, TableAssumption DEF Accepts
<1> QED BY <1>1, <1>2, <1>3, <1>5 DEF Datum

(* The tables of a parsed file, section by section.                        *)
LEMMA TablesAre ==
    ASSUME TypeOK, NEW its \in Seq(Item), Filled(its, Len(its), options, images)
    PROVE  \E s \in [1 .. Len(images) -> Starts(its)] :
             /\ Ordered(its, Len(its), Len(images), s)
             /\ Told(its, Len(its), images, s)
             /\ \A i \in 1 .. Len(images) :
                   /\ images[i] \in Section
                   /\ \A x : Entry(images[i].table, x) = Said(its, s[i], x)
                   /\ \A x \in DOMAIN cf_image : images[i].table[x] = Said(its, s[i], x)
                   /\ images[i].obsolete <=>
                        \/ ~Applies(its, s[i])
                        \/ /\ LabelOrPath(images[i]) # NULL
                           /\ Retaken(its, s[i], LabelOrPath(images[i]))
             /\ \A x : Entry(options, x) = Said(its, 0, x)
<1>1. PICK s \in [1 .. Len(images) -> Starts(its)] :
        /\ Ordered(its, Len(its), Len(images), s)
        /\ Told(its, Len(its), images, s) /\ Outdated(its, Len(its), images, s)
        /\ ToldOptions(its, Len(its), options)
  BY DEF Filled
<1>2. ASSUME NEW i \in 1 .. Len(images)
      PROVE  /\ images[i] \in Section
             /\ \A x \in DOMAIN cf_image : images[i].table[x] = Said(its, s[i], x)
             /\ \A x : Entry(images[i].table, x) = Said(its, s[i], x)
             /\ images[i].obsolete <=>
                  \/ ~Applies(its, s[i])
                  \/ /\ LabelOrPath(images[i]) # NULL
                     /\ Retaken(its, s[i], LabelOrPath(images[i]))
  <2>1. images[i] \in Section /\ s[i] \in Starts(its)
    BY DEF TypeOK
  <2>2. \A x \in DOMAIN cf_image : images[i].table[x] = Said(its, s[i], x)
    BY <1>1, SaidIs DEF Told
  <2>3. DOMAIN images[i].table = DOMAIN cf_image
    BY <2>1 DEF Section
  <2>4. \A x : Entry(images[i].table, x) = Said(its, s[i], x)
    BY <2>1, <2>2, <2>3, Unsaid DEF Entry
  <2>5. images[i].obsolete <=>
            \/ ~Applies(its, s[i])
            \/ /\ LabelOrPath(images[i]) # NULL
               /\ RetakenTo(its, Len(its), s[i], LabelOrPath(images[i]))
    BY <1>1 DEF Outdated
  <2>6. RetakenTo(its, Len(its), s[i], LabelOrPath(images[i]))
           <=> Retaken(its, s[i], LabelOrPath(images[i]))
    BY RetakenIs
  <2> QED BY <2>1, <2>2, <2>4, <2>5, <2>6
<1>3. \A x : Entry(options, x) = Said(its, 0, x)
  <2>1. DOMAIN options = DOMAIN cf_options
    BY DEF TypeOK
  <2>2. \A x \in DOMAIN cf_options : options[x] = Said(its, 0, x)
    BY <1>1, SaidIs DEF ToldOptions
  <2> QED BY <2>1, <2>2, Unsaid DEF Entry
<1> QED BY <1>1, <1>2, <1>3

(* A section that can be found by a name goes by it.                       *)
LEMMA MatchBears ==
    ASSUME NEW its, NEW k, NEW sec \in Section, NEW l, l # NULL,
           \A x \in DOMAIN cf_image : sec.table[x] = Said(its, k, x), Matches(sec, l)
    PROVE  Bears(its, k, l)
<1>1. /\ sec.table["label"] = Said(its, k, "label")
      /\ sec.table["alias"] = Said(its, k, "alias")
      /\ sec.table["image"] = Said(its, k, "image")
  BY TableAssumption
<1> QED BY <1>1 DEF Matches, Name, Bears

(* Once a file is parsed, a label finds the newest section for this        *)
(* machine that was given it, with every item as the file says it.         *)
THEOREM LookupsMeanTheFile == Spec => []LookupMeansFile
<1>1. IInv /\ FileInv => LookupMeansFile
  <2> SUFFICES ASSUME IInv, FileInv PROVE LookupMeansFile
    OBVIOUS
  <2> DEFINE its == file.items
  <2>0. TypeOK /\ its \in Seq(Item) /\ images \in Seq(Section)
    BY DEF IInv, FileInv, Written, TypeOK
  <2>1. pc = "failed" => file.ending # <<>>
    BY DEF FileInv, Ended
  <2>2. ASSUME pc = "mac", faults = 0, NEW k \in Starts(its),
               Applies(its, k), Said(its, k, "label") # NULL,
               ~Retaken(its, k, Said(its, k, "label")),
               ~\E j \in Starts(its) : /\ j < k /\ Applies(its, j)
                                       /\ Said(its, j, "label") # Said(its, k, "label")
                                       /\ Bears(its, j, Said(its, k, "label")),
               NEW item
        PROVE  cfg_get_strg(Said(its, k, "label"), item) =
                   IF Said(its, k, item) # NULL THEN Said(its, k, item) ELSE Said(its, 0, item)
    <3> DEFINE l == Said(its, k, "label")
               hits == {i \in Visible : Matches(images[i], l)}
    <3>1. Filled(its, Len(its), options, images)
      BY <2>2 DEF FileInv, Parsed
    <3> HIDE DEF its
    <3>2. PICK s \in [1 .. Len(images) -> Starts(its)] :
             /\ Ordered(its, Len(its), Len(images), s)
             /\ Told(its, Len(its), images, s)
             /\ \A i \in 1 .. Len(images) :
                   /\ images[i] \in Section
                   /\ \A x : Entry(images[i].table, x) = Said(its, s[i], x)
                   /\ \A x \in DOMAIN cf_image : images[i].table[x] = Said(its, s[i], x)
                   /\ images[i].obsolete <=>
                        \/ ~Applies(its, s[i])
                        \/ /\ LabelOrPath(images[i]) # NULL
                           /\ Retaken(its, s[i], LabelOrPath(images[i]))
             /\ \A x : Entry(options, x) = Said(its, 0, x)
      BY <2>0, <3>1, TablesAre
    <3>3. PICK i \in 1 .. Len(images) : s[i] = k
      <4>1. k <= Len(its)
        BY <2>0, LineFacts
      <4> QED BY <3>2, <4>1 DEF Ordered
    <3>4. "label" \in DOMAIN cf_image /\ \A j \in 1 .. Len(images) :
             images[j].table["label"] = Said(its, s[j], "label")
      BY <3>2, TableAssumption
    <3>5. i \in hits
      <4>1. images[i].table["label"] = l /\ l # NULL
        BY <2>2, <3>3, <3>4
      <4>2. LabelOrPath(images[i]) = l /\ Name(images[i]) = l
        BY <4>1 DEF LabelOrPath, Name
      <4>3. ~images[i].obsolete
        BY <2>2, <3>2, <3>3, <4>2
      <4>4. i \in DOMAIN images
        BY <2>0
      <4> QED BY <4>2, <4>3, <4>4 DEF Visible, Matches
    <3>6. ASSUME NEW j \in hits, j < i
          PROVE  FALSE
      <4>1. j \in 1 .. Len(images) /\ ~images[j].obsolete /\ Matches(images[j], l)
        BY <2>0 DEF Visible
      <4>2. s[j] < k /\ s[j] \in Starts(its) /\ Applies(its, s[j])
        BY <3>2, <3>3, <3>6, <4>1 DEF Ordered
      <4>3. Bears(its, s[j], l)
        BY <2>2, <3>2, <4>1, MatchBears
      <4>4. Said(its, s[j], "label") = l
        BY <2>2, <4>2, <4>3
      <4>5. LabelOrPath(images[j]) = l
        BY <2>2, <3>4, <4>1, <4>4 DEF LabelOrPath
      <4>6. PICK n \in Says(its, k, "label") : its[n].value = l
        BY <2>0, <2>2, <3>2, <3>3, <3>4, LabelLine DEF Told
      <4>7. k > s[j]
        BY <2>0, <4>2, LineFacts
      <4>8. Retaken(its, s[j], l)
        BY <2>2, <4>6, <4>7 DEF Retaken
      <4> QED BY <2>2, <3>2, <4>1, <4>5, <4>8
    <3>7. hits \in SUBSET Nat
      BY <2>0 DEF Visible
    <3> HIDE DEF hits
    <3>8. First(hits) = i
      <4>1. \A j \in hits : i <= j
        BY <3>5, <3>6, <3>7
      <4> QED BY <3>5, <3>7, <4>1, FirstIs
    <3>9. Entry(images[First(hits)].table, item) = Said(its, k, item)
          /\ Entry(options, item) = Said(its, 0, item)
      BY <3>2, <3>3, <3>8
    <3>10. cfg_get_strg(l, item) =
              LET own == Entry(images[First(hits)].table, item)
              IN  IF own # NULL THEN own ELSE Entry(options, item)
      BY <3>5 DEF cfg_get_strg, hits
    <3> QED BY <3>9, <3>10
  <2> QED BY <2>1, <2>2 DEF LookupMeansFile
<1>2. QED
  BY <1>1, Invariance, FileInvariance, PTL

(* No name finds a section for another machine, one whose label was taken  *)
(* over, or one that does not go by that name.                             *)
THEOREM LookupsAreSound == Spec => []LookupSound
<1>1. IInv /\ FileInv => LookupSound
  <2> SUFFICES ASSUME IInv, FileInv, pc = "mac", faults = 0, NEW l \in Words,
                      cfg_get_strg(l, "image") # NULL
               PROVE  \E k \in Starts(file.items) :
                        /\ Applies(file.items, k) /\ Bears(file.items, k, l)
                        /\ Said(file.items, k, "label") # NULL =>
                               ~Retaken(file.items, k, Said(file.items, k, "label"))
                        /\ Said(file.items, k, "image") = cfg_get_strg(l, "image")
    BY DEF LookupSound
  <2> DEFINE its == file.items
             hits == {i \in Visible : Matches(images[i], l)}
             h == First(hits)
             own == Entry(images[h].table, "image")
  <2>0. TypeOK /\ its \in Seq(Item) /\ images \in Seq(Section)
        /\ Filled(its, Len(its), options, images)
    BY DEF IInv, FileInv, Written, TypeOK, Parsed
  <2> HIDE DEF its
  <2>1. PICK s \in [1 .. Len(images) -> Starts(its)] :
             /\ \A i \in 1 .. Len(images) :
                   /\ images[i] \in Section
                   /\ \A x : Entry(images[i].table, x) = Said(its, s[i], x)
                   /\ \A x \in DOMAIN cf_image : images[i].table[x] = Said(its, s[i], x)
                   /\ images[i].obsolete <=>
                        \/ ~Applies(its, s[i])
                        \/ /\ LabelOrPath(images[i]) # NULL
                           /\ Retaken(its, s[i], LabelOrPath(images[i]))
             /\ \A x : Entry(options, x) = Said(its, 0, x)
    BY <2>0, TablesAre
  <2>2. hits # {} /\ cfg_get_strg(l, "image") = IF own # NULL THEN own ELSE Entry(options, "image")
    BY DEF cfg_get_strg
  <2>3. own # NULL /\ cfg_get_strg(l, "image") = own
    BY <2>0, <2>1, <2>2, Unsaid
  <2>4. hits \in SUBSET Nat
    BY <2>0 DEF Visible
  <2>5. h \in hits
    BY <2>2, <2>4, FirstIsLeast
  <2>6. h \in 1 .. Len(images) /\ ~images[h].obsolete /\ Matches(images[h], l)
    BY <2>0, <2>5 DEF Visible
  <2> HIDE DEF hits, h
  <2>7. s[h] \in Starts(its) /\ Applies(its, s[h]) /\ Said(its, s[h], "image") = own
    BY <2>1, <2>6
  <2>8. Bears(its, s[h], l)
    BY <2>1, <2>6, ValueAssumption, MatchBears
  <2>9. ASSUME Said(its, s[h], "label") # NULL
        PROVE  ~Retaken(its, s[h], Said(its, s[h], "label"))
    <3>1. LabelOrPath(images[h]) = Said(its, s[h], "label")
      BY <2>1, <2>6, <2>9, TableAssumption DEF LabelOrPath
    <3> QED BY <2>1, <2>6, <2>9, <3>1
  <2> QED BY <2>3, <2>7, <2>8, <2>9 DEF its
<1>2. QED
  BY <1>1, Invariance, FileInvariance, PTL

(* Without a default= line the first section that can be booted is the     *)
(* default, and looking the default up finds its image.                    *)
THEOREM DefaultIsBootable == Spec => []DefaultBoots
<1>1. IInv /\ FileInv => DefaultBoots
  <2> SUFFICES ASSUME IInv, FileInv, pc = "done", Said(file.items, 0, "default") = NULL, ~mac,
                      faults = 0, Visible # {},
                      \A i \in Visible : images[i].table["image"] # NULL
               PROVE  cfg_get_strg(cfg_get_default, "image")
                          = images[First(Visible)].table["image"]
    BY DEF DefaultBoots
  <2> DEFINE its == file.items
             v == First(Visible)
             name == Name(images[v])
             hits == {i \in Visible : Matches(images[i], name)}
  <2>0. TypeOK /\ its \in Seq(Item) /\ images \in Seq(Section)
        /\ options \in [DOMAIN cf_options -> Data]
        /\ Filled(its, Len(its), options, images)
    BY DEF IInv, FileInv, Written, TypeOK, Parsed
  <2>1. Entry(options, "default") = NULL
    BY <2>0, TablesAre
  <2>2. options["default"] = NULL
    BY <2>0, <2>1, TableAssumption DEF Entry
  <2>3. Visible \in SUBSET Nat
    BY <2>0 DEF Visible
  <2>4. v \in Visible /\ \A j \in Visible : v <= j
    BY <2>3, FirstIsLeast
  <2>5. cfg_get_default = name
    BY <2>2 DEF cfg_get_default
  <2>6. v \in hits /\ \A j \in hits : v <= j
    BY <2>4 DEF Matches
  <2>7. First(hits) = v
    BY <2>3, <2>6, FirstIs
  <2>8. Entry(images[v].table, "image") = images[v].table["image"]
    <3>1. images[v] \in Section
      BY <2>0, <2>4 DEF Visible
    <3>2. "image" \in DOMAIN images[v].table
      BY <3>1, TableAssumption DEF Section
    <3> QED BY <3>2 DEF Entry
  <2> HIDE DEF v, name
  <2>9. cfg_get_strg(name, "image") =
            LET own == Entry(images[First(hits)].table, "image")
            IN  IF own # NULL THEN own ELSE Entry(options, "image")
    BY <2>6 DEF cfg_get_strg
  <2>10. images[v].table["image"] # NULL
    BY <2>4
  <2> QED BY <2>5, <2>7, <2>8, <2>9, <2>10 DEF v
<1>2. QED
  BY <1>1, Invariance, FileInvariance, PTL
-----------------------------------------------------------------------------
(***************************************************************************)
(* The search for the file.                                                *)
(***************************************************************************)
(* What a search holds while it is under way: nothing has been taken over, *)
(* and every candidate that comes before the next one is known not to be a *)
(* valid configuration, unless something was refused.                      *)
Searching ==
    stage # "ui" => password = NoCandidate /\ boot_file = OrigFile /\ useconf = 0

Tried ==
    /\ stage \in {"mac", "ip"} => net /\ netinfo
    /\ stage \in {"main", "mac"} => flen = IpDigits
    /\ stage = "ip" =>
          /\ flen \in 1 .. IpDigits
          /\ refusals = 0 => \A c \in Candidates : c > flen => server[c] # "good"
    /\ stage = "orig" /\ refusals = 0 /\ net /\ netinfo =>
          \A c \in Candidates : c > OrigFile => server[c] # "good"

Typed ==
    /\ stage \in {"main", "mac", "ip", "orig", "ui"}
    /\ net \in BOOLEAN /\ netinfo \in BOOLEAN
    /\ server \in [Candidates -> Status]
    /\ flen \in 0 .. IpDigits
    /\ refusals \in Nat

SearchInv == Typed /\ Searching /\ Tried /\ FirstGoodWins /\ PasswordOfConfig

USE IpDigitsAssumption

(* What one load leaves behind: a password only together with the tables   *)
(* it belongs to, and a result that says, unless the firmware refused      *)
(* something, whether the candidate is valid.                              *)
LEMMA LoadOutcome ==
    ASSUME SearchInv, NEW c \in Candidates, NEW rc \in -1 .. 1, load_config_file(c, rc)
    PROVE  /\ refusals' \in Nat /\ refusals' >= refusals
           /\ rc = 1 => cfg' = c /\ password' = c /\ server[c] = "good"
           /\ rc # 1 => password' = password
           /\ rc = 0 /\ refusals' = 0 => server[c] # "good"
           /\ rc = -1 /\ refusals' = 0 => ~net /\ server[c] # "good"
  BY DEF SearchInv, Typed, Status, load_config_file

(* Before the search nothing is loaded.                                    *)
LEMMA SearchStarts == SearchInit => SearchInv
  BY DEF SearchInit, SearchInv, Typed, Searching, Tried, FirstGoodWins, PasswordOfConfig

LEMMA StartStep == SearchInv /\ Start => SearchInv'
  BY DEF Start, SearchInv, Typed, Searching, Tried, FirstGoodWins, PasswordOfConfig

LEMMA MacStep == SearchInv /\ TryMac => SearchInv'
  <1> SUFFICES ASSUME SearchInv, TryMac PROVE SearchInv'
    OBVIOUS
  <1>1. PICK rc \in -1 .. 1 :
            /\ load_config_file(MacFile, rc)
            /\ IF rc # 0 THEN Found(MacFile, rc) ELSE stage' = "ip" /\ UNCHANGED <<boot_file, useconf>>
    BY DEF TryMac
  <1>2. MacFile \in Candidates /\ \A c \in Candidates : c > IpDigits => c = MacFile
    BY DEF Candidates, MacFile
  <1>3. stage = "mac" /\ net /\ netinfo /\ UNCHANGED <<net, netinfo, server, flen>>
    BY DEF TryMac, SearchInv, Tried
  <1>4. CASE rc = 0
    <2>1. /\ flen = IpDigits
          /\ refusals' = 0 => \A c \in Candidates : c > IpDigits => server[c] # "good"
      BY <1>1, <1>2, <1>3, <1>4, LoadOutcome DEF SearchInv, Tried
    <2> QED
      BY <1>1, <1>3, <1>4, <2>1, LoadOutcome, <1>2
         DEF SearchInv, Typed, Searching, Tried, FirstGoodWins, PasswordOfConfig
  <1>5. CASE rc # 0
    <2>1. rc = 1 \/ refusals' # 0
      BY <1>1, <1>2, <1>3, <1>5, LoadOutcome
    <2>2. FirstGoodWins'
      BY <1>1, <1>2, <1>3, <1>5, <2>1, LoadOutcome
         DEF Found, SearchInv, Typed, FirstGoodWins, Before, Candidates, MacFile
    <2> QED
      BY <1>1, <1>2, <1>3, <1>5, <2>2, LoadOutcome
         DEF Found, SearchInv, Typed, Searching, Tried, PasswordOfConfig
  <1> QED
    BY <1>4, <1>5

LEMMA IpStep == SearchInv /\ TryIp => SearchInv'
  <1> SUFFICES ASSUME SearchInv, TryIp PROVE SearchInv'
    OBVIOUS
  <1>1. PICK rc \in -1 .. 1 :
            /\ load_config_file(flen, rc)
            /\ IF rc # 0
               THEN Found(flen, rc) /\ UNCHANGED flen
               ELSE /\ flen' = flen - 1
                    /\ stage' = IF MoreDigits(flen') THEN "ip" ELSE "orig"
                    /\ UNCHANGED <<boot_file, useconf>>
    BY DEF TryIp
  <1>2. /\ stage = "ip" /\ net /\ netinfo /\ UNCHANGED <<net, netinfo, server>>
        /\ flen \in 1 .. IpDigits /\ flen \in Candidates
    BY DEF TryIp, SearchInv, Tried, Candidates, MacFile
  <1>3. CASE rc = 0
    <2>0. refusals \in Nat /\ refusals' \in Nat /\ refusals' >= refusals
      BY <1>1, <1>2, LoadOutcome DEF SearchInv, Typed
    <2>1. refusals' = 0 => \A c \in Candidates : c > flen - 1 => server[c] # "good"
      BY <1>1, <1>2, <1>3, <2>0, LoadOutcome DEF SearchInv, Tried, Candidates, MacFile
    <2> QED
      BY <1>1, <1>2, <1>3, <2>1, LoadOutcome
         DEF MoreDigits, OrigFile, SearchInv, Typed, Searching, Tried, FirstGoodWins,
             PasswordOfConfig
  <1>4. CASE rc # 0
    <2>1. rc = 1 \/ refusals' # 0
      BY <1>1, <1>2, <1>4, LoadOutcome
    <2>2. FirstGoodWins'
      BY <1>1, <1>2, <1>4, <2>1, LoadOutcome
         DEF Found, SearchInv, Typed, Tried, FirstGoodWins, Before, Candidates, MacFile
    <2> QED
      BY <1>1, <1>2, <1>4, <2>2, LoadOutcome
         DEF Found, SearchInv, Typed, Searching, Tried, PasswordOfConfig
  <1> QED
    BY <1>3, <1>4

LEMMA OrigStep == SearchInv /\ TryOrig => SearchInv'
  <1> SUFFICES ASSUME SearchInv, TryOrig PROVE SearchInv'
    OBVIOUS
  <1>1. PICK rc \in -1 .. 1 : load_config_file(OrigFile, rc) /\ useconf' = rc
    BY DEF TryOrig
  <1>2. stage = "orig" /\ stage' = "ui" /\ UNCHANGED <<net, netinfo, server, flen, boot_file>>
    BY DEF TryOrig
  <1>3. OrigFile \in Candidates /\ \A c \in Candidates : c = OrigFile \/ c > OrigFile
    BY DEF OrigFile, Candidates, MacFile
  <1>4. refusals' = 0 => refusals = 0
    BY <1>1, <1>3, LoadOutcome DEF SearchInv, Typed
  <1>5. FirstGoodWins'
    BY <1>1, <1>2, <1>3, <1>4, LoadOutcome
       DEF SearchInv, Typed, Searching, Tried, FirstGoodWins
  <1> QED
    BY <1>1, <1>2, <1>3, <1>5, LoadOutcome
       DEF SearchInv, Typed, Searching, Tried, PasswordOfConfig

LEMMA SearchInvariance == SearchSpec => []SearchInv
  <1>1. SearchInv /\ [SearchNext]_search_vars => SearchInv'
    <2>1. SearchInv /\ UNCHANGED search_vars => SearchInv'
      BY DEF search_vars, SearchInv, Typed, Searching, Tried, FirstGoodWins, PasswordOfConfig
    <2> QED
      BY <2>1, StartStep, MacStep, IpStep, OrigStep DEF SearchNext, Prompt
  <1> QED
    BY <1>1, SearchStarts, PTL DEF SearchSpec

(* yaboot_main reaches the prompt with the first valid candidate in the    *)
(* order MAC address, shortening IP address, own file, however many digits *)
(* the address has; a refused open or allocation voids the promise.        *)
THEOREM FirstGoodIsUsed == SearchSpec => []FirstGoodWins
  BY SearchInvariance, PTL DEF SearchInv

(* load_config_file assigns `password' so late that no dropped candidate   *)
(* leaves its password behind, also when opens are refused on the way.     *)
THEOREM PasswordBelongs == SearchSpec => []PasswordOfConfig
  BY SearchInvariance, PTL DEF SearchInv
=============================================================================
