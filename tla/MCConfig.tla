------------------------------ MODULE MCConfig ------------------------------
(* Files of up to MaxItems items over two kernels and a label in two       *)
(* spellings; the file parsed before is one of a few that end well or in   *)
(* every way a parse can fail.                                             *)
EXTENDS Config, TLC, SequencesExt

CONSTANT MaxItems   \* bound: items in a file

MCOptions == "default" :> "strg" @@ "initrd" :> "strg" @@ "restricted" :> "flag"
MCImage == "image" :> "strg" @@ "label" :> "strg" @@ "alias" :> "strg"
              @@ "initrd" :> "strg" @@ "restricted" :> "flag"

MCWords == {"/b/k", "k", "a", "A"} \cup DOMAIN MCOptions \cup DOMAIN MCImage \cup ImageItems
MCFold == [v \in MCWords |-> IF v = "A" THEN "a" ELSE v]
MCBase == [v \in MCWords |-> IF v = "/b/k" THEN "k" ELSE v]

It(i, v) == [item |-> i, value |-> v]

MCItems == {It("image", "/b/k"), It("image", "k"), It("image[ours]", "a"),
            It("image[other]", "k"), It("label", "a"), It("label", "A"),
            It("alias", "a"), It("initrd", "k"), It("restricted", NULL)}

(* A file as it is written: its items, and the ending if it has one.       *)
Place(its) ==
    FoldLeft(LAMBDA at, it : Append(at, Last(at) + IF it.value = NULL THEN 1 ELSE 3), <<1>>, its)

File(its, ending) ==
    [items |-> its, ending |-> ending, at |-> Place(its),
     toks |-> FlattenSeq([n \in 1 .. Len(its) |->
                  IF its[n].value = NULL THEN <<its[n].item>>
                  ELSE <<its[n].item, "=", its[n].value>>]) \o ending]

MCFiles == {File(f, <<>>) : f \in UNION {[1 .. n -> MCItems] : n \in 0 .. MaxItems}}

Endings == {<<>>, <<"=">>, <<"label", "=">>, <<"label", "=", "=">>, <<Bad>>,
            <<"restricted", Bad>>}

MCEarlier ==
    {File(f, e) :
        f \in {<<It("initrd", "a"), It("image", "/b/k"), It("label", "A")>>,
               <<It("image", "k"), It("restricted", NULL)>>,
               <<It("default", "A"), It("image[other]", "k"), It("label", NULL)>>},
        e \in Endings}

MCSequence == <<MCEarlier, MCFiles>>
=============================================================================
