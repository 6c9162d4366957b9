------------------------------ MODULE Repository ------------------------------
(***************************************************************************)
(* What configd does to its data: the layers of the repository             *)
(* (usr/src/agent/configd/db.c), the look-up they share with the clients   *)
(* (lib/s16/db/local.c) and the handlers of the remote calls               *)
(* (agent/configd/rpc.c), as operators from a repository and a request to  *)
(* the outcome.  Module Configd has the processes.                         *)
(*                                                                         *)
(* A repository is [manifest, merged], two lists of services.  Nothing     *)
(* ever adds to the admin layer (db_import does not look at the layer it   *)
(* is given), so that update_merged has nothing to merge and copies.       *)
(***************************************************************************)
EXTENDS Convert

CONSTANT
  Garbage  \* what memory that was never written may hold where a flag is read

EmptyDb == [manifest |-> <<>>, merged |-> <<>>]

\* Mutant: the search for a service stops at the first one.
first_match(svcs, path) ==
  LET s == SelectInSeq(svcs, LAMBDA x : x.path.svc = path.svc)
      instance == s # 0 /\ path.inst # NULL
  IN  [type |-> IF instance THEN "INSTANCE" ELSE "SVC",
       s    |-> s,
       i    |-> IF instance
                THEN SelectLastInSeq(svcs[s].insts, LAMBDA x : x.path.inst = path.inst)
                ELSE 0]

\* s16db_lookup_path_in_scope: the last service and the last instance that
\* match; 0 is a null pointer.  NOTFOUND is never returned.
s16db_lookup_path_in_scope(svcs, path) ==
  LET s == SelectLastInSeq(svcs, LAMBDA x : x.path.svc = path.svc)
      instance == s # 0 /\ path.inst # NULL
  IN  [type |-> IF instance THEN "INSTANCE" ELSE "SVC",
       s    |-> s,
       i    |-> IF instance
                THEN SelectLastInSeq(svcs[s].insts, LAMBDA x : x.path.inst = path.inst)
                ELSE 0]

db_lookup_path_merged(db, path) == s16db_lookup_path_in_scope(db.manifest, path)

\* The pointer that the callers follow without looking.
Found(lu) == IF lu.type = "SVC" THEN lu.s # 0 ELSE lu.i # 0

\* The values "enabled" may have in the copies of the instances of svcs.
Junk(svcs) ==
  [DOMAIN svcs -> [1 .. Max({Len(svcs[k].insts) : k \in DOMAIN svcs} \cup {0}) -> Garbage]]

update_merged(manifest, junk) ==
  [k \in DOMAIN manifest |-> S16ServiceCopy(manifest[k], junk[k])]

\* Mutant: the merged view is left as it is.
import_only(db, svc, junk) == [db EXCEPT !.manifest = Append(@, svc)]

db_import(db, svc, junk) ==
  LET manifest == Append(db.manifest, svc)
  IN  [manifest |-> manifest, merged |-> update_merged(manifest, junk)]

\* Mutant: the flag of an instance is not stored.
set_nothing(db, path, enabled) == db

\* db_set_enabled of a path that is Found: the flags, and the notes to send.
\* The flags of a service's instances are cleared in either case.
SetFlags(db, path, enabled) ==
  LET lu == db_lookup_path_merged(db, path)
      insts == db.manifest[lu.s].insts
      Flag(k) == IF lu.type = "SVC" THEN FALSE
                 ELSE IF k = lu.i THEN enabled ELSE insts[k].enabled
  IN  [db EXCEPT !.manifest[lu.s].insts =
         [k \in DOMAIN insts |-> [insts[k] EXCEPT !.enabled = Flag(k)]]]

NotesOf(db, path, enabled) ==
  LET lu == db_lookup_path_merged(db, path)
      Request(p) == s16note_new("N_ADMIN_REQ", IF enabled THEN "A_ENABLE" ELSE "A_DISABLE", p, 0)
  IN  IF lu.type = "SVC"
      THEN [k \in DOMAIN db.manifest[lu.s].insts |-> Request(db.manifest[lu.s].insts[k].path)]
      ELSE <<Request(path)>>

-----------------------------------------------------------------------------
(* The handlers.  An outcome is the new repository, the notes queued and the
   result that is sent back. *)

Outcome(db, notes, result) == [db |-> db, notes |-> notes, result |-> result]

\* enable, disable: 0 whatever happens.
handle_disable(db, upath, enable) ==
  LET path == s16db_string_to_path(upath)
  IN  Outcome(SetFlags(db, path, enable), NotesOf(db, path, enable), 0)

\* import-service: a manifest that does not convert is dropped, and the result
\* is 0 all the same.  The set is over what the copies hold in "enabled".
handle_import_service(db, umanifest) ==
  IF ~svc_converts(umanifest) THEN {Outcome(db, <<>>, 0)}
  ELSE LET svc == s16db_ucl_to_svc(umanifest)
       IN  {Outcome(db_import(db, svc, junk), <<>>, 0) : junk \in Junk(Append(db.manifest, svc))}

handle_get_all_services_merged(db) ==
  Outcome(db, <<>>, Map(s16db_S16Serviceo_ucl, db.merged))

\* get-path-merged: an instance is labelled as a service as well.
handle_get_path_merged(db, upath) ==
  LET lu == db_lookup_path_merged(db, s16db_string_to_path(upath)) IN
  Outcome(db, <<>>,
    CASE ~Found(lu) -> Entry("type", "error")
      [] Found(lu) /\ lu.type = "SVC" ->
           Entry("type", "svc") ++ Entry("value", s16db_S16Serviceo_ucl(db.manifest[lu.s]))
      [] OTHER ->
           Entry("type", "svc") ++ Entry("value", s16db_inst_to_ucl(db.manifest[lu.s].insts[lu.i])))

=============================================================================
