------------------------------ MODULE LinkHeader ------------------------------
(***************************************************************************)
(* vdp/transport.go: the grammar of the Link header.  The text of a header *)
(* is the sequence of its marks (angle brackets, comma, semicolon, equals  *)
(* sign, quote, blank) and of the words between them.                      *)
(***************************************************************************)
EXTENDS Naturals, Sequences, SequencesExt, FiniteSetsExt

CONSTANT Fold       \* Fold[w]: the word w in lower case, where it differs

Quote == "DQUOTE"
Blank == " "
ViewRel == "view-descriptor"     \* LinkRel
NoParams == [k \in {} |-> << >>]

Lowered(s) == [i \in DOMAIN s |-> IF s[i] \in DOMAIN Fold THEN Fold[s[i]] ELSE s[i]]
First(s, mark) == SelectInSeq(s, LAMBDA t : t = mark)
Trim(s) ==
    LET solid == {i \in DOMAIN s : s[i] # Blank}
    IN  IF solid = {} THEN << >> ELSE SubSeq(s, Min(solid), Max(solid))

(* A defect: every separator splits.                                       *)
BadSplit(s, separator, opening) ==
    LET scan(st, t) ==
          IF t = separator THEN [parts |-> Append(st.parts, st.part), part |-> << >>]
          ELSE [st EXCEPT !.part = Append(@, t)]
        end == FoldLeft(scan, [parts |-> << >>, part |-> << >>], s)
    IN  Append(end.parts, end.part)

(* The loop of splitLinkFields and of splitParams: cut at the separators   *)
(* that are not inside <...> or "...".                                     *)
Begun == [parts |-> << << >> >>, inside |-> "nothing"]
Inside(inside, t, opening) ==
    CASE inside = "nothing" -> IF t \in opening THEN t ELSE "nothing"
      [] inside # "nothing" -> IF t = (IF inside = "<" THEN ">" ELSE Quote) THEN "nothing" ELSE inside
Advance(st, t, separator, opening) ==
    IF st.inside = "nothing" /\ t = separator
    THEN [parts |-> Append(st.parts, << >>), inside |-> "nothing"]
    ELSE [parts |-> [st.parts EXCEPT ![Len(st.parts)] = Append(@, t)],
          inside |-> Inside(st.inside, t, opening)]
Scan(s, separator, opening) ==
    LET st[i \in 0 .. Len(s)] ==
          IF i = 0 THEN Begun ELSE Advance(st[i - 1], s[i], separator, opening)
    IN  st[Len(s)]
Split(s, separator, opening) == Scan(s, separator, opening).parts

SplitLinkFields(value) == Split(value, ",", {Quote, "<"})
Closed(value) == Scan(value, ",", {Quote, "<"}).inside = "nothing"
SplitParams(s) == Split(s, ";", {Quote})   \* blank ones too: they have no key

Unquoted(val) ==
    IF Len(val) >= 2 /\ Head(val) = Quote /\ Last(val) = Quote
    THEN SubSeq(val, 2, Len(val) - 1) ELSE val

(* One key=value parameter: of several of one name the first counts.       *)
AddParam(params, p) ==
    LET cut == First(p, "=")
        key == Lowered(Trim(SubSeq(p, 1, cut - 1)))
        val == Unquoted(Trim(SubSeq(p, cut + 1, Len(p))))
    IN  IF cut = 0 \/ key \in DOMAIN params THEN params
        ELSE [k \in DOMAIN params \cup {key} |-> IF k = key THEN val ELSE params[k]]

Params(given) ==
    LET params[i \in 0 .. Len(given)] ==
          IF i = 0 THEN NoParams ELSE AddParam(params[i - 1], given[i])
    IN  params[Len(given)]

(* parseLink: "<uri>; key=value", or no link at all.                       *)
LinkIn(f) ==
    LET end == First(f, ">")
    IN  IF f = << >> \/ Head(f) # "<" \/ end = 0 THEN << >>
        ELSE << [url |-> Trim(SubSeq(f, 2, end - 1)),
                 params |-> Params(SplitParams(SubSeq(f, end + 1, Len(f))))] >>
ParseLink(field) == LinkIn(Trim(field))

(* parseLinks on the values of all Link header fields of a response.       *)
ParseLinks(values) ==
    LET fields == FlattenSeq([i \in DOMAIN values |-> SplitLinkFields(values[i])])
    IN  FlattenSeq([i \in DOMAIN fields |-> ParseLink(fields[i])])

(* hasRel: rel is a list of relation types.                                *)
HasRel(l, rel) ==
    /\ << "rel" >> \in DOMAIN l.params
    /\ << rel >> \in {Lowered(r) : r \in Range(Split(l.params[<< "rel" >>], Blank, {}))}

FormatLinkHeader(url) ==
    << "<" >> \o url \o << ">", ";", Blank, "rel", "=", Quote, ViewRel, Quote >>
=============================================================================
