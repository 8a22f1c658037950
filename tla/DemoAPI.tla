-------------------------------- MODULE DemoAPI --------------------------------
(***************************************************************************)
(* server/api.go, server/data.go and server/templates.go: the server of    *)
(* the demonstration.  What it answers depends on the path and the query   *)
(* of a request alone, so its handlers are operators.                      *)
(*                                                                         *)
(* A descriptor is named << node, query >>.  The text of a query stands at *)
(* the end of the last segment of a path.  Names of slots are numbered in  *)
(* their order: mainContent before sidebarNav, activityTable before        *)
(* revenueChart before statsCards, gallery before reviews.                 *)
(***************************************************************************)
EXTENDS Extract, Discovery, TLC, FiniteSetsExt

CONSTANTS
    DemoHost,    \* the Host of the requests
    Query,       \* raw queries, "" for none
    Get,         \* Get[q]: the values url.Values has for query q, by key
    NestedPlain(_), NestedParse(_, _), NestedEval(_, _)     \* as in Transforms

Json == INSTANCE Transforms WITH
            Index <- [t \in {"0"} |-> 0], MaxInt <- 9, Vendor <- {}, Reserved <- {}

ASSUME DemoAssumption ==
    /\ DemoHost \in Host
    /\ "evil.example.com" \in Host
    /\ "" \in Query
    /\ DOMAIN Get = Query

Param(q, key) == IF key \in DOMAIN Get[q] THEN Get[q][key] ELSE ""

(* baseURL of a plain HTTP request without a proxy before it.              *)
BaseURL == [scheme |-> "http", host |-> DemoHost, path |-> << >>]
Below(path) == [BaseURL EXCEPT !.path = path]
WithQuery(file, q) == IF q = "" THEN file ELSE file \o "?" \o q

-----------------------------------------------------------------------------
(* templates.go: the files of the template tree, and which one a path      *)
(* gets; None stands for 404.                                              *)
Files ==
    {<< "layouts", "sidebar.html" >>,
     << "demos", "dashboard.html" >>, << "demos", "product-detail.html" >>,
     << "components", "image-carousel.html" >>, << "components", "review-list.html" >>,
     << "components", "charts", "chart.html" >>,
     << "components", "charts", "chart-legend.html" >>,
     << "components", "forms", "form.html" >>,
     << "components", "navigation", "nav.html" >>}
    \cup {<< "components", "data-display", f >> :
            f \in {"card.html", "table.html", "odata-table.html", "product-card.html"}}

ServeTemplate(path) ==
    LET name == SelectSeq(Tail(path), LAMBDA segment : segment # "")
    IN  IF Head(path) = "templates" /\ name \in Files THEN name ELSE None

-----------------------------------------------------------------------------
(* data.go: payloads.  Texts and amounts are those a transform or mapper   *)
(* does not tell apart; two rows stand for several.                        *)
One(k, v) == << k, v >>
Obj(pairs) == Json!Decode(pairs)
Some == Json!Text("some")
Figures == Obj(<< One("revenue", Json!Number(2)), One("users", Json!Number(1)),
                  One("orders", Json!Number(1)) >>)
Links == One("_links", Obj(<< One("self", Some) >>))

Event == << One("user", Some), One("action", Some), One("time", Some) >>
DashboardData ==
    Obj(<< Links, One("nav", Json!Array(<< Obj(<< One("label", Some), One("href", Some) >>) >>)),
           One("stats", Figures),
           One("recentActivity", Json!Array(
               << Obj(Event \o << One("item", Some) >>), Obj(Event) >>)),
           One("chartData", Obj(<< One("series", Some), One("labels", Json!Array(<< Some >>)),
                                   One("values", Json!Array(<< Json!Number(1) >>)) >>)) >>)
ProductData ==
    Obj(<< One("id", Json!Number(42)), One("name", Some), One("price", Json!Number(3)),
           One("description", Some), One("images", Json!Array(<< Some, Some >>)),
           One("reviews", Json!Array(
               << Obj(<< One("author", Some), One("rating", Json!Number(5)), One("text", Some) >>) >>)) >>)
SummaryData == Obj(<< Links, One("days", Json!Array(<< Figures, Figures >>)) >>)
LoginData ==
    Obj(<< One("csrfToken", Some), One("loginUrl", Some),
           One("fields", Json!Array(
               << Obj(<< One("name", Some), One("type", Some), One("label", Some) >>) >>)) >>)
ODataProducts ==
    LET row == Obj(<< One("ProductID", Json!Number(1)), One("Name", Some),
                      One("Price", Json!Number(3)) >>)
    IN  Obj(<< One("@odata.context", Some), One("value", Json!Array(<< row, row >>)),
               One("@View.descriptor", Some) >>)

-----------------------------------------------------------------------------
(* The descriptors the handlers write.                                     *)

TemplatePath(file) == << "templates" >> \o file
TemplateURL(file) ==
    [form |-> "absolute", scheme |-> "http", host |-> DemoHost, path |-> TemplatePath(file)]
RootedTemplate(file) == [form |-> "rooted", path |-> TemplatePath(file)]

(* integrity: the digest of a file; None is the digest of nothing.         *)
IntegrityOf(file) == << [alg |-> "sha384", of |-> file] >>

Ptr(path) == Json!Pointer(path)
MustTransform(pairs) == Json!ParseTransform(Obj(pairs))
CardFigures ==
    MustTransform(<< One("revenue", Ptr(<< "stats", "revenue" >>)),
                     One("users", Ptr(<< "stats", "users" >>)),
                     One("orders", Ptr(<< "stats", "orders" >>)) >>)
Rows ==
    MustTransform(<< One("rows", Ptr(<< "recentActivity" >>)),
                     One("total", Obj(<< One("$count", Ptr(<< "recentActivity" >>)) >>)) >>)
ChartSeries ==
    MustTransform(<< One("title", Ptr(<< "chartData", "series" >>)),
                     One("labels", Ptr(<< "chartData", "labels" >>)),
                     One("values", Ptr(<< "chartData", "values" >>)) >>)
Legend ==
    MustTransform(<< One("series", Ptr(<< "chartData", "series" >>)),
                     One("values", Ptr(<< "chartData", "values" >>)) >>)
Card == MustTransform(<< One("title", Ptr(<< "name" >>)), One("price", Ptr(<< "price" >>)),
                         One("thumbnail", Ptr(<< "images", "0" >>)) >>)

Template(template, metadata, mapper, transform, slots) ==
    [template |-> template, integrity |-> metadata, mapper |-> mapper,
     transform |-> transform, slots |-> slots]
Bare(template, slots) == Template(template, << >>, None, None, slots)
Shaped(template, transform) == Template(template, << >>, None, transform, [s \in {} |-> << >>])
Only(template) == Shaped(template, None)
Single(d) == << [ref |-> None, desc |-> d] >>
Reference(ref) == << [ref |-> ref, desc |-> None] >>

Charts == << "components", "charts" >>
DataDisplay(file) == << "components", "data-display", file >>
Nav == << "components", "navigation", "nav.html" >>
Sidebar == << "layouts", "sidebar.html" >>
NotThere(dir) == dir \o << "does-not-exist.html" >>

(* A defect: the switches not passed on to the navigation.                 *)
BadNavReference(q) == [form |-> "relative", path |-> << "nav.json" >>]
NavReference(q) == [form |-> "relative", path |-> << WithQuery("nav.json", q) >>]

(* dashboardView, with the switch fail.                                    *)
DashboardView(q) ==
    LET fail   == Param(q, "fail")
        layout == IF fail = "root" THEN NotThere(<< "layouts" >>) ELSE Sidebar
        chart  == IF fail = "chart" THEN NotThere(Charts)
                  ELSE Append(Charts, "chart.html")
        legend == Append(Charts, "chart-legend.html")
    IN  << "dashboard", q >> :>
            Bare(RootedTemplate(layout),
                 1 :> Single(<< "main", q >>) @@ 2 :> Reference(NavReference(q)))
     @@ << "main", q >> :>
            Bare(RootedTemplate(<< "demos", "dashboard.html" >>),
                 1 :> Single(<< "activity", q >>) @@ 2 :> Single(<< "chart", q >>)
              @@ 3 :> Single(<< "stats", q >>))
     @@ << "activity", q >> :> Shaped(RootedTemplate(DataDisplay("table.html")), Rows)
     @@ << "stats", q >> :> Shaped(RootedTemplate(DataDisplay("card.html")), CardFigures)
     @@ << "chart", q >> :>
            Template(RootedTemplate(chart), << >>, None, ChartSeries,
                     1 :> Single(<< "legend", q >>))
     @@ << "legend", q >> :>
            [Shaped(RootedTemplate(legend), Legend) EXCEPT !.integrity =
                 IntegrityOf(IF fail = "integrity" THEN None ELSE legend)]

(* navView, with the switch untrusted.                                     *)
NavView(q) ==
    << "nav", q >> :>
        Only(IF "untrusted" \in DOMAIN Get[q]
             THEN [TemplateURL(Nav) EXCEPT !.host = "evil.example.com", !.scheme = "https",
                                           !.path = << "templates", "nav.html" >>]
             ELSE RootedTemplate(Nav))

(* summary: SummaryMapperURI, or one that nobody registers.                *)
SummaryMapperURI == "summary-totals"
SummaryView(q) ==
    << "summary", q >> :>
        [Only(TemplateURL(DataDisplay("card.html"))) EXCEPT !.mapper =
             IF Param(q, "fail") = "mapper" THEN "not-registered" ELSE SummaryMapperURI]

(* productViews, feed, productListView, and the shorthands.                *)
ProductViews == "default" :> << "detail", "" >> @@ "compact" :> << "compact", "" >>
ProductView ==
    << "detail", "" >> :>
        Bare(TemplateURL(<< "demos", "product-detail.html" >>),
             1 :> Single(<< "gallery", "" >>) @@ 2 :> Single(<< "reviews", "" >>))
 @@ << "gallery", "" >> :> Only(TemplateURL(<< "components", "image-carousel.html" >>))
 @@ << "reviews", "" >> :> Only(TemplateURL(<< "components", "review-list.html" >>))
 @@ << "compact", "" >> :> Shaped(TemplateURL(DataDisplay("product-card.html")), Card)

FeedView ==
    << "feed", "" >> :>
        Bare(TemplateURL(Sidebar),
             1 :> Single(<< "feed.stats", "" >>) \o Single(<< "feed.chart", "" >>)
                  \o Single(<< "feed.activity", "" >>)
          @@ 2 :> Single(<< "feed.nav", "" >>))
 @@ << "feed.nav", "" >> :> Only(TemplateURL(Nav))
 @@ << "feed.stats", "" >> :> Shaped(TemplateURL(DataDisplay("card.html")), CardFigures)
 @@ << "feed.chart", "" >> :> Shaped(TemplateURL(Append(Charts, "chart.html")), ChartSeries)
 @@ << "feed.activity", "" >> :> Shaped(TemplateURL(DataDisplay("table.html")), Rows)

ProductListView ==
    << "product-list", "" >> :>
        Only([form |-> "opaque", host |-> DemoHost,
              path |-> TemplatePath(DataDisplay("odata-table.html"))])

Shorthands ==
    << "login", "" >> :> Only(TemplateURL(<< "components", "forms", "form.html" >>))
 @@ << "partial", "" >> :> Only(TemplateURL(DataDisplay("card.html")))

Written(q) == DashboardView(q) @@ NavView(q) @@ SummaryView(q)
DemoDescriptor ==
    FoldSet(LAMBDA q, acc : acc @@ Written(q),
            ProductView @@ FeedView @@ ProductListView @@ Shorthands, Query)

-----------------------------------------------------------------------------
(* The endpoints: the response, as Extract sees it, and its representation.*)

ViewResource(file) == Below(<< "views", file >>)
LinkTo(url) == << [rel |-> "view-descriptor", url |-> AsIdentity(url)] >>

Respond(path, q) ==
    LET name == path[Len(path)]
        url == Below(Append(Front(path), WithQuery(name, q)))
        data == [url |-> url, json |-> TRUE, whole |-> TRUE, view |-> None,
                 views |-> None, links |-> << >>, header |-> None]
    IN  CASE name = "login" -> [data EXCEPT !.header = << "login", "" >>]
          [] name = "stats" -> [data EXCEPT !.header = << "partial", "" >>]
          [] name = "dashboard" ->
               [data EXCEPT !.links = LinkTo(ViewResource(WithQuery("dashboard.json", q)))]
          [] name = "summary" -> [data EXCEPT !.view = << "summary", q >>]
          [] name = "42" -> [data EXCEPT !.views = ProductViews]
          [] name = "feed" -> [data EXCEPT !.view = << "feed", "" >>]
          [] path = << "api", "odata", "products" >> ->
               [data EXCEPT !.links = LinkTo(ViewResource("product-list.json"))]

Payload(path) ==
    LET name == path[Len(path)]
    IN  CASE name = "login" -> LoginData
          [] name = "stats" -> Figures
          [] name \in {"dashboard", "feed"} -> DashboardData
          [] name = "summary" -> SummaryData
          [] name = "42" -> ProductData
          [] name = "products" -> ODataProducts

(* The descriptor resources: those of a single view, and all of them.      *)
DemoServes ==
    FoldSet(LAMBDA q, acc : acc
              @@ ViewResource(WithQuery("dashboard.json", q)) :> {<< "dashboard", q >>}
              @@ ViewResource(WithQuery("nav.json", q)) :> {<< "nav", q >>},
            ViewResource("product-list.json") :> {<< "product-list", "" >>}, Query)
ResourceViews(url) ==
    IF url = ViewResource("product-detail.json") THEN ProductViews
    ELSE [n \in {"default"} |-> CHOOSE d \in DemoServes[url] : TRUE]

-----------------------------------------------------------------------------
(* discovery.                                                              *)

Endpoints ==
    << << << "api", "dashboard" >>, [form |-> "rooted", path |-> << "views", "dashboard.json" >>] >>,
       << << "api", "odata", "products" >>, AsIdentity(ViewResource("product-list.json")) >>,
       << << "api", "products", "{id}" >>,
          [form |-> "rooted", path |-> << "views", "product-detail.json" >>] >> >>

(* TrustedTemplateURLs: an entry for each form an identity may have.       *)
TrustedTemplateURLs ==
    {AsIdentity(Below(<< "templates", "" >>)), AsIdentity(Below(<< "views", "" >>)),
     [form |-> "opaque", host |-> DemoHost, path |-> << "templates", "" >>]}

-----------------------------------------------------------------------------
(* bff.go: the pages, and the mapping code the client registers.           *)

Pages ==
    {<< "api", "dashboard" >>, << "api", "login" >>, << "api", "products", "42" >>,
     << "api", "feed" >>, << "api", "summary" >>, << "api", "odata", "products" >>}

(* A defect: one of the totals not made.                                   *)
BadSummaryTotals(in) ==
    [map |-> [k \in {"revenue", "users"} |-> Json!Number(0)]]

(* summaryTotals: the sums over the rows, whatever else is in them.        *)
SummaryTotals(in) ==
    LET days == IF "days" \in DOMAIN in.map THEN in.map["days"].slice ELSE << >>
        sum(k) == FoldLeft(LAMBDA n, row : n + row.map[k].number, 0, days)
    IN  [map |-> [k \in {"revenue", "users", "orders"} |-> Json!Number(sum(k))]]

-----------------------------------------------------------------------------
(* templates/: the paths of fields each file displays of its model, "*"    *)
(* standing for every element.  What a file asks for by "with" or "if"     *)
(* only, it does without; layouts and pages of slots read nothing.         *)

Fields(names) == {<< k >> : k \in names}
Each(list, names) == {<< list, "*", k >> : k \in names}

CardReads == Fields({"revenue", "users", "orders"})
TableReads == Each("rows", {"user", "action", "time"})
ODataReads == Each("value", {"ProductID", "Name", "Price"})
ProductCardReads == Fields({"thumbnail", "title", "price"})
ProductDetailReads == Fields({"name", "price", "description"})
CarouselReads == {<< "images", "*" >>}
ReviewReads == Each("reviews", {"author", "rating", "text"})
ChartReads == Fields({"title"}) \cup {<< "labels", "*" >>, << "values", "*" >>}
LegendReads == Fields({"series"}) \cup {<< "values", "*" >>}
FormReads == Fields({"loginUrl", "csrfToken"}) \cup Each("fields", {"label", "type", "name"})
NavReads == Each("nav", {"href", "label"})

Reads ==
    DataDisplay("card.html") :> CardReads
 @@ DataDisplay("table.html") :> TableReads
 @@ DataDisplay("odata-table.html") :> ODataReads
 @@ DataDisplay("product-card.html") :> ProductCardReads
 @@ << "demos", "product-detail.html" >> :> ProductDetailReads
 @@ << "components", "image-carousel.html" >> :> CarouselReads
 @@ << "components", "review-list.html" >> :> ReviewReads
 @@ Append(Charts, "chart.html") :> ChartReads
 @@ Append(Charts, "chart-legend.html") :> LegendReads
 @@ << "components", "forms", "form.html" >> :> FormReads
 @@ Nav :> NavReads
 @@ [file \in Files |-> {}]

(* html/template: what a path leads to; what is missing prints as nil.     *)
Displayed(model, path) ==
    LET below(m, name) ==
          CASE name = "*" /\ DOMAIN m = {"slice"} -> Range(m.slice)
            [] DOMAIN m = {"map"} /\ name \in DOMAIN m.map -> {m.map[name]}
            [] OTHER -> {Json!Null}
    IN  FoldLeft(LAMBDA models, name : UNION {below(m, name) : m \in models}, {model}, path)

-----------------------------------------------------------------------------
(* render.go, model: a mapper, a transform, or the representation.         *)
Model(vd, input) ==
    IF vd.mapper # None THEN SummaryTotals(Json!Plain(input))
    ELSE IF vd.transform # None THEN Json!Eval(vd.transform, input)
    ELSE Json!Plain(input)
=============================================================================
