-------------------------------- MODULE MCWire --------------------------------
(***************************************************************************)
(* Descriptors and representations that between them use every construct,  *)
(* and every way of getting one wrong.  MCWire.cfg sends them all on every *)
(* transport; MCIndex.cfg follows pointers into an array.                  *)
(***************************************************************************)
EXTENDS LanguageProps, TLC

(* What the functions of the languages call is these functions.  TLC's     *)
(* statistics would unfold them for ever, but for the LETs.                *)
MCPlain(v) == LET result == Plain(v) IN result
MCParse(v, topLevel) == LET result == Parse(v, topLevel) IN result
MCEval(t, input) == LET result == Eval(t, input) IN result
MCRead(doc) == LET result == Read(doc) IN result
MCValid(vd) == LET result == Valid(vd) IN result
MCMarshal(p) == LET result == Marshal(p) IN result
MCToJSON(t) == LET result == ToJSON(t) IN result
MCWrite(vd) == LET result == Write(vd) IN result
MCRebased(t, path) == LET result == Rebased(t, path) IN result
MCRemovals(v) == LET result == Removals(v) IN result

(* A small int stands for Go's: "9" is a numeral that does not fit.        *)
MCIndex == "0" :> 0 @@ "1" :> 1 @@ "9" :> 9
MCFold == "REL" :> "rel"
MCHostPort == Text("127.0.0.1:8080/t")
MCBadURI == {Text("%zz")}
MCBadReference == MCBadURI \cup {MCHostPort}

One(k, v) == << k, v >>
P(k) == Pointer(<< k >>)
Obj(pairs) == Decode(pairs)
T == One("template", Text("/t"))
With(transform) == Obj(<< T, One("transform", transform) >>)
InSlot(value) == Obj(<< T, One("slots", Obj(<< One("main", value) >>)) >>)
Leaf == Obj(<< T >>)
Broken == Obj(<< One("type", Text("html")) >>)
Ref(url) == Obj(<< One("descriptor", url) >>)

Rows == Obj(<< One("$map", P("items")),
               One("$to", Obj(<< One("v", P("a")), One("all", Pointer(<< >>)),
                                 One("w", Obj(<< One("$get", P("b")),
                                                 One("$default", Null) >>)) >>)) >>)
Entries(to) == Obj(<< One("$entries", Pointer(<< >>)) >> \o to)
Mapper == Obj(<< One("$mapper", Text("totals")) >>)

MCDoc ==
    {Leaf,
     With(Obj(<< One("rows", Rows), One("total", Obj(<< One("$count", P("items")) >>)),
                 One("x-note", P("n")) >>)),
     With(Rows),
     With(Obj(<< One("$map", P("items")), One("$to", Array(<< Rows, P("a") >>)) >>)),
     With(Obj(<< One("$merge", Array(<< P("map"), P("n"), Obj(<< One("c", P("n")) >>) >>)),
                 One("x-by", Text("us")) >>)),
     With(Entries(<< >>)),
     With(Entries(<< One("$to", Array(<< P("key"), P("value") >>)) >>)),
     With(Obj(<< One("$get", P("opt")), One("$default", Obj(<< One("c", Number(1)) >>)) >>)),
     With(Array(<< Pointer(<< "items", "1" >>), Pointer(<< "items", "9" >>),
                   Pointer(<< "n", "a" >>) >>)),
     With(Mapper),
     Obj(<< One("type", Text("html")), T, One("integrity", Text("sha256-")),
            One("slots", Null), One("x-kind", Null) >>),
     InSlot(Array(<< Leaf >>)),
     InSlot(Leaf), Obj(<< One("template", MCHostPort) >>),
     InSlot(Array(<< InSlot(Array(<< Ref(P("nav")), With(P("n")) >>)), Leaf >>)),
     Obj(<< One("views", Obj(<< One("default", With(P("n"))), One("compact", Leaf) >>)) >>),
     \* invalid
     InSlot(Array(<< Leaf, Broken >>)), InSlot(Null), Broken,
     Obj(<< One("views", Obj(<< One("default", Leaf), One("compact", Broken) >>)) >>),
     InSlot(Ref(Text("%zz"))), InSlot(Array(<< Leaf, Ref(MCHostPort) >>)),
     Obj(<< One("template", Null) >>),
     \* undecodable
     With(Array(<< Mapper >>)), With(Obj(<< One("$merge", Array(<< Mapper >>)) >>)),
     With(Obj(<< One("$map", P("items")) >>)), With(Null), With(Number(1)),
     With(Obj(<< One("$sum", P("n")) >>)),
     With(Obj(<< One("$count", P("n")), One("$to", P("a")) >>)),
     With(Obj(<< One("$get", Text("n")), One("$default", Null) >>)),
     InSlot(Array(<< >>)), InSlot(Obj(<< T, One("layout", Text("wide")) >>)),
     InSlot(Obj(<< One("descriptor", P("nav")), T >>)), InSlot(Ref(Null)),
     Ref(P("nav")), Obj(<< One("views", Obj(<< >>)), One("slots", Obj(<< >>)) >>),
     Obj(<< One("views", Null), T >>)}

MCPayload ==
    {<< One("items", Array(<< Obj(<< One("a", Number(1)), One("b", Number(2)) >>),
                              Obj(<< One("a", Null) >>) >>)),
        One("n", Number(3)), One("opt", Null) >>,
     << One("n", Number(1)), One("map", Obj(<< One("b", Number(1)), One("c", Null) >>)),
        One("items", Array(<< Array(<< >>) >>)), One("n", Number(2)),
        One("opt", Obj(<< >>)) >>}

(* All that documents consist of, and what it is written as.               *)
MCNesting == 8
Within(roots) ==
    LET within[n \in 0 .. MCNesting] ==
          roots \cup IF n = 0 THEN {} ELSE UNION {Contents(v) : v \in within[n - 1]}
    IN  within[MCNesting]
Written(values) ==
    {Marshal(Plain(v)) : v \in values}
        \cup {ToJSON(t) : t \in {Parse(v, top) : v \in values, top \in BOOLEAN} \ {Error}}
        \cup {Write(vd) : vd \in {Read(v) : v \in values} \ {Error}}
MCValue == LET values == Within(MCDoc) IN Within(values \cup Written(values))
MCInput == Within({Decode(p) : p \in MCPayload})

MCEntry ==
    {<< "<", "/a", ",", "/b", ">", ";", " ", "REL", "=", "next" >>,
     << "<", "/c", ">", ";", "title", "=", Quote, "<", ",", ";", "x", Quote, ";",
        "rel", "=", Quote, "prev", " ", "last", Quote, ";", "rel", "=", "view-descriptor" >>}
MCLinkText == << "/views", ",", "v2" >>
=============================================================================
