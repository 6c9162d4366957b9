------------------------------ MODULE MCConfigd ------------------------------
(* Programs and manifests for TLC. *)
EXTENDS Configd

CONSTANTS g, h, adm, cfg, ask

Prop(name) == ("name" :> name) @@ ("value" :> "v")
Inst(name, keys) == ("name" :> name) @@ keys
Manifest(name, insts) == ("name" :> <<name>>) @@ ("instances" :> insts)
Group(type, on, paths) == ("grouping" :> type) @@ ("restart-on" :> on) @@ ("paths" :> paths)

\* Three programs at once, with two plain services: a request for the one with
\* two instances queues two notes.
OnePrograms == (g :> "graphd") @@ (adm :> "svcadm") @@ (cfg :> "svccfg")
PlainManifests ==
  {Manifest("a", <<Inst("i", <<>>), Inst("j", <<>>)>>), Manifest("b", <<Inst("i", <<>>)>>)}
PlainPaths == {<<"a", ":", "i">>, <<"svc:/", "a">>, <<"b", ":", "i">>}
FewCalls == (g :> 0) @@ (adm :> 2) @@ (cfg :> 2)
OnePath == {<<"a", ":", "i">>, <<"svc:/", "a">>}
OneManifest == {Manifest("a", <<Inst("i", <<>>)>>)}
OneCall == (g :> 0) @@ (adm :> 1) @@ (cfg :> 1)

Trial == <<"a", "i">>

\* svcs and look-ups beside svccfg, with manifests that have more in them: words
\* that are not in the tables, methods and properties that do not convert, a
\* service imported again with other instances, one without a name.
DataPrograms == (h :> "svcs") @@ (ask :> "lookup") @@ (cfg :> "svccfg")
DataCalls == (h :> 0) @@ (ask :> 1) @@ (cfg :> 2)

Methods ==
  << ("name" :> "start") @@ ("properties" :> <<Prop("exec"), "name" :> "bad", Prop("user")>>),
     ("name" :> "stop") @@ ("properties" :> <<>>),
     ("name" :> "enable") @@ ("properties" :> <<"name" :> "bad", Prop("exec")>>),
     ("name" :> "refresh") @@ ("properties" :> <<"value" :> "v">>),
     "name" :> "restart",
     "properties" :> <<Prop("exec")>> >>

Groups ==
  << Group("require-all", "restart", <<<<"svc:/", "b", ":", "(null)">>, <<"b">>>>),
     Group("exclude-all", "any", <<<<"d">>>>),
     Group("needs", "error", <<>>) >>

DataManifests ==
  { Manifest("a", <<Inst("i", ("dependencies" :> Groups) @@ ("methods" :> Methods)), Inst("j", <<>>)>>),
    ("dependencies" :> Tail(Groups)) @@ Manifest("a", <<Inst("i", "enabled" :> FALSE)>>),
    ("name" :> <<"svc:/", "b">>) @@ ("instances" :> <<"properties" :> <<Prop("p")>>>>),
    "instances" :> <<Inst("k", <<>>)>>,
    "name" :> <<"d">> }

DataPaths == {<<"a", ":", "i">>, <<"svc:/", "a", ":", "j">>, <<"a">>, <<"b", ":", "(null)">>}

=============================================================================
