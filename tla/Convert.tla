------------------------------- MODULE Convert -------------------------------
(***************************************************************************)
(* Services and their forms: the structures of S16/Service.h with the      *)
(* functions that copy them (usr/src/lib/s16/s16.c), the UCL objects that  *)
(* travel between configd and its clients (lib/s16/db/convert.c), and what *)
(* svccfg makes of a manifest (cmd/svccfg/svccfg.c).                       *)
(*                                                                         *)
(* A UCL object is a function whose domain is the set of keys it has; a    *)
(* UCL array and a list are sequences.  The text of a path is the sequence *)
(* of its tokens, so that "svc:/a:i" is <<"svc:/", "a", ":", "i">>.  No    *)
(* service is called "svc" (README says what happens to one that is).      *)
(***************************************************************************)
EXTENDS Integers, Sequences, SequencesExt

NULL == "NULL"  \* a null pointer

Has(obj, key) == key \in DOMAIN obj

\* name_list_map of S16/List.h: F of every element, in order.
Map(F(_), list) == [k \in DOMAIN list |-> F(list[k])]

\* ins_key, as an object with one key; the keys of two objects in one, those of
\* the first taking precedence; a key that is inserted only under a condition.
Entry(key, val) == [k \in {key} |-> val]
obj ++ more == [k \in DOMAIN obj \cup DOMAIN more |-> IF k \in DOMAIN obj THEN obj[k] ELSE more[k]]
KeyIf(cond, key, val) == IF cond THEN Entry(key, val) ELSE <<>>

\* The add_* loops of convert.c: the elements of a UCL array, appended in order;
\* a list without the key stays empty.
AddAll(obj, key, F(_)) == IF Has(obj, key) THEN Map(F, obj[key]) ELSE <<>>

\* The elements of a list that are in S, in order
Keep(list, S) ==
  LET kept[k \in 0 .. Len(list)] ==
        IF k = 0 THEN <<>>
        ELSE IF list[k] \in S THEN Append(kept[k - 1], list[k]) ELSE kept[k - 1]
  IN  kept[Len(list)]

\* AddAll without the elements that do not convert
AddGood(obj, key, Good(_), F(_)) ==
  IF Has(obj, key) THEN Map(F, Keep(obj[key], {x \in ToSet(obj[key]) : Good(x)})) ELSE <<>>

-----------------------------------------------------------------------------
(* Paths *)

S16PathNew(svc, inst) == [full_qual |-> TRUE, svc |-> svc, inst |-> inst]

S16PathCopy(path) == S16PathNew(path.svc, path.inst)

\* The qualification of a path is not compared.
S16PathEqual(a, b) == a.svc = b.svc /\ a.inst = b.inst

S16PathToString(path) ==
  (IF path.full_qual THEN <<"svc:/">> ELSE <<>>) \o <<path.svc>>
    \o (IF path.inst = NULL THEN <<>> ELSE <<":", path.inst>>)

\* Also s16db_ucl_to_path.
s16db_string_to_path(txt) ==
  LET qual == Len(txt) > 1 /\ Head(txt) = "svc:/"
      rest == IF qual THEN Tail(txt) ELSE txt
  IN  [full_qual |-> qual,
       svc       |-> Head(rest),
       inst      |-> IF Len(rest) > 1 THEN rest[3] ELSE NULL]

-----------------------------------------------------------------------------
(* Dependency groups.  Types and conditions are kept as the words of a
   manifest; -1 is written as an invalid word. *)

GroupTypes == {"require-all", "require-any", "optional-all", "exclude-all"}

\* kS16RestartOnAny has no word in either table of convert.c.
RestartWords == {"none", "error", "refresh", "restart"}

string_to_type(txt)      == IF txt \in GroupTypes THEN txt ELSE "INVALID-TYPE"
string_to_restarton(txt) == IF txt \in RestartWords THEN txt ELSE "INVALID"

\* Mutant: the copy is made without the paths.
shallow_copy(g) ==
  [name |-> g.name, type |-> g.type, restart_on |-> g.restart_on, paths |-> <<>>]

S16DependencyGroupCopy(g) ==
  [name |-> g.name, type |-> g.type, restart_on |-> g.restart_on,
   paths |-> Map(S16PathCopy, g.paths)]

\* The name of a group is not sent.
s16db_S16DependencyGroupo_ucl(g) ==
  Entry("grouping", g.type) ++ Entry("restart-on", g.restart_on)
    ++ Entry("paths", Map(S16PathToString, g.paths))

s16db_ucl_to_depgroup(u) ==
  [name |-> NULL,
   type |-> string_to_type(u["grouping"]),
   restart_on |-> string_to_restarton(u["restart-on"]),
   paths |-> Map(s16db_string_to_path, u["paths"])]

-----------------------------------------------------------------------------
(* Properties and methods *)

S16PropertyCopy(p) == p

s16db_prop_to_ucl(p) == Entry("name", p.name) ++ Entry("value", p.value)

\* A property without a name or a value is dropped.
prop_converts(u)     == Has(u, "name") /\ Has(u, "value")
s16db_ucl_to_prop(u) == [name |-> u["name"], value |-> u["value"]]

add_props(u) == AddGood(u, "properties", prop_converts, s16db_ucl_to_prop)

S16MethodCopy(m) == [name |-> m.name, props |-> Map(S16PropertyCopy, m.props)]

\* Mutant: the list of properties is taken for empty when it has one element.
meth_without_only_prop(m) ==
  Entry("name", m.name) ++ KeyIf(Len(m.props) > 1, "properties", Map(s16db_prop_to_ucl, m.props))

\* An empty list of properties is left out ...
s16db_meth_to_ucl(m) ==
  Entry("name", m.name)
    ++ KeyIf(m.props # <<>>, "properties", Map(s16db_prop_to_ucl, m.props))

\* ... and a method without properties is dropped.
meth_converts(u)     == Has(u, "name") /\ Has(u, "properties")
s16db_ucl_to_meth(u) == [name |-> u["name"], props |-> add_props(u)]

add_meths(u) == AddGood(u, "methods", meth_converts, s16db_ucl_to_meth)

add_depgroups(u) == AddAll(u, "dependencies", s16db_ucl_to_depgroup)

\* The keys that services and instances have in common.
CommonKeys(x) ==
  KeyIf(x.props # <<>>, "properties", Map(s16db_prop_to_ucl, x.props))
    ++ KeyIf(x.meths # <<>>, "methods", Map(s16db_meth_to_ucl, x.meths))
    ++ KeyIf(x.depgroups # <<>>, "dependencies",
             Map(s16db_S16DependencyGroupo_ucl, x.depgroups))

-----------------------------------------------------------------------------
(* Instances *)

\* The copy is allocated with malloc and "enabled" is not assigned: junk is
\* what the memory happens to hold.
S16InstanceCopy(i, junk) ==
  [path |-> S16PathCopy(i.path),
   props |-> Map(S16PropertyCopy, i.props),
   meths |-> Map(S16MethodCopy, i.meths),
   depgroups |-> Map(S16DependencyGroupCopy, i.depgroups),
   state |-> i.state,
   enabled |-> junk]

s16db_inst_to_ucl(i) ==
  Entry("path", S16PathToString(i.path)) ++ CommonKeys(i)
    ++ Entry("enabled", i.enabled) ++ Entry("state", i.state)

inst_converts(u) == Has(u, "path")

s16db_ucl_to_inst(u) ==
  [path |-> s16db_string_to_path(u["path"]),
   props |-> add_props(u),
   meths |-> add_meths(u),
   depgroups |-> add_depgroups(u),
   state |-> IF Has(u, "state") THEN u["state"] ELSE "None",
   enabled |-> IF Has(u, "enabled") THEN u["enabled"] ELSE TRUE]

-----------------------------------------------------------------------------
(* Services *)

\* junk: position of the instance -> what its copy holds in "enabled".
S16ServiceCopy(svc, junk) ==
  [path |-> S16PathCopy(svc.path),
   def_inst |-> svc.def_inst,
   props |-> Map(S16PropertyCopy, svc.props),
   meths |-> Map(S16MethodCopy, svc.meths),
   insts |-> [k \in DOMAIN svc.insts |-> S16InstanceCopy(svc.insts[k], junk[k])],
   depgroups |-> Map(S16DependencyGroupCopy, svc.depgroups),
   state |-> svc.state]

s16db_S16Serviceo_ucl(svc) ==
  Entry("path", S16PathToString(svc.path))
    ++ KeyIf(svc.def_inst # NULL, "default-instance", svc.def_inst)
    ++ CommonKeys(svc)
    ++ KeyIf(svc.insts # <<>>, "instances", Map(s16db_inst_to_ucl, svc.insts))
    ++ Entry("state", svc.state)

\* A service without a path, or with an instance without one, is refused.
svc_converts(u) ==
  /\ Has(u, "path")
  /\ Has(u, "instances") => \A k \in DOMAIN u["instances"] : inst_converts(u["instances"][k])

s16db_ucl_to_svc(u) ==
  [path |-> s16db_string_to_path(u["path"]),
   def_inst |-> IF Has(u, "default-instance") THEN u["default-instance"] ELSE NULL,
   props |-> add_props(u),
   meths |-> add_meths(u),
   insts |-> AddAll(u, "instances", s16db_ucl_to_inst),
   depgroups |-> add_depgroups(u),
   state |-> IF Has(u, "state") THEN u["state"] ELSE "None"]

\* A reply with many services; the code asserts that each of them converts.
s16db_ucl_to_svcs(us) == Map(s16db_ucl_to_svc, us)

-----------------------------------------------------------------------------
(* Notes *)

\* s16note_new copies the path, and so qualifies it.
s16note_new(note_type, type, path, reason) ==
  [note_type |-> note_type, type |-> type, path |-> S16PathCopy(path), reason |-> reason]

s16db_note_to_ucl(n) ==
  Entry("note-type", n.note_type) ++ Entry("type", n.type)
    ++ Entry("path", S16PathToString(n.path)) ++ Entry("reason", n.reason)

s16db_ucl_to_note(u) ==
  [note_type |-> u["note-type"], type |-> u["type"],
   path |-> s16db_string_to_path(u["path"]), reason |-> u["reason"]]

-----------------------------------------------------------------------------
(* Manifests.  Names become paths; an instance without a name is called
   "(null)" by asprintf, and so is a service that has none. *)

WithoutName(u) == [key \in DOMAIN u \ {"name"} |-> u[key]]

\* An instance of the service that is called name
canonicalise_inst(name, i) ==
  Entry("path", name \o <<":", IF Has(i, "name") THEN i["name"] ELSE "(null)">>) ++ WithoutName(i)

canonicalise_svc(u) ==
  LET name == IF Has(u, "name") THEN u["name"] ELSE <<"(null)">>
      Inst(i) == canonicalise_inst(name, i)
  IN  KeyIf(Has(u, "name"), "path", name)
        ++ KeyIf(Has(u, "instances"), "instances", Map(Inst, u["instances"]))
        ++ WithoutName(u)

=============================================================================
