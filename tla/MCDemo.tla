-------------------------------- MODULE MCDemo --------------------------------
(***************************************************************************)
(* The demonstration as main.go runs it, visited twice by pages of every   *)
(* kind and with every switch.  MCDemo.cfg has it on an IP address, as in  *)
(* integration_test.go, MCOdata.cfg on localhost:8080, as in the README.   *)
(***************************************************************************)
EXTENDS DemoProps

MCPlain(v) == Json!Plain(v)
MCParse(v, topLevel) == Json!Parse(v, topLevel)
MCEval(t, input) == Json!Eval(t, input)

MCHost == {DemoHost, "evil.example.com"}
MCLower == [h \in MCHost \cup {""} |-> h]

MCGet ==
    "" :> [k \in {} |-> ""]
 @@ "fail=root" :> [fail |-> "root"]
 @@ "fail=integrity" :> [fail |-> "integrity"]
 @@ "fail=mapper" :> [fail |-> "mapper"]
 @@ "fail=chart&untrusted=1" :> [fail |-> "chart", untrusted |-> "1"]
 @@ "view=compact" :> [view |-> "compact"]
 @@ "view=card" :> [view |-> "card"]

MCQuery == DOMAIN MCGet

Switches(path) ==
    CASE path = << "api", "dashboard" >> ->
           {"", "fail=root", "fail=integrity", "fail=chart&untrusted=1"}
      [] path = << "api", "summary" >> -> {"", "fail=mapper"}
      [] path = << "api", "products", "42" >> -> {"view=compact", "view=card"}
      [] OTHER -> {""}
MCRequest ==
    UNION {{path} \X Switches(path) : path \in Pages \cup {<< "api", "dashboard", "stats" >>}}
MCODataRequest == {<< << "api", "odata", "products" >>, "" >>}

MCDesc == DOMAIN DemoDescriptor
=============================================================================
