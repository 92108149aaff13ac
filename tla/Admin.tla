-------------------------------- MODULE Admin --------------------------------
(***************************************************************************)
(* The two state-changing admin requests: DELETE /admin/files/{id}         *)
(* (AdminDeleteFileHandler) and POST /admin/cleanup                        *)
(* (AdminManualCleanupHandler).                                            *)
(***************************************************************************)
EXTENDS Store

CONSTANT Admins     \* admin requests

VARIABLE adm        \* locals and reply of each admin request

AdminPC == {"idle", "remove", "delete", "sweep", "sweepDelete", "done"}
AdminReply == {"none", "not found", "db error", "disabled", "deleted", "swept"}
Item == [file : FileId, status : Status]

AdminTypeOK ==
    adm \in [Admins -> [pc : AdminPC, cur : FileId \cup {None},
                        todo : SUBSET Item, reply : AdminReply]]

AdminInit ==
    adm = [a \in Admins |-> [pc |-> "idle", cur |-> None, todo |-> {}, reply |-> "none"]]

AnswerAdmin(a, r) ==
    adm' = [adm EXCEPT ![a] = [@ EXCEPT !.pc = "done", !.todo = {}, !.reply = r]]

-----------------------------------------------------------------------------
\* AdminDeleteFileHandler: SELECT status; any error is "not found". The object
\* is removed only if the file was not pending at this point.
DeleteSelect(a, f) ==
    /\ adm[a].pc = "idle"
    /\ \/ /\ files[f].status = "absent" \/ "db" \in Faults
          /\ AnswerAdmin(a, "not found")
       \/ /\ files[f].status # "absent"
          /\ adm' = [adm EXCEPT ![a] = [@ EXCEPT !.cur = f,
                                !.pc = IF files[f].status = "pending"
                                       THEN "delete" ELSE "remove"]]
    /\ UNCHANGED storeVars

\* RemoveObject of the object named by the bare id, whose error is only logged.
DeleteRemove(a) ==
    /\ adm[a].pc = "remove"
    /\ \E o \in Outcomes("store") :
          objects' = IF Applied(o) THEN RemoveObject(BareKey(adm[a].cur)) ELSE objects
    /\ adm' = [adm EXCEPT ![a].pc = "delete"]
    /\ UNCHANGED <<files, late, issued, now>>

\* DELETE by id; 500, 404 when no row was there, or 204.
DeleteDelete(a) ==
    /\ adm[a].pc = "delete"
    /\ \E o \in Outcomes("db") :
          /\ files' = IF Applied(o) THEN DeleteRow(adm[a].cur) ELSE files
          /\ AnswerAdmin(a, CASE Failed(o) -> "db error"
                              [] ~Failed(o) /\ files[adm[a].cur].status = "absent" -> "not found"
                              [] OTHER -> "deleted")
    /\ UNCHANGED <<objects, late, issued, now>>

-----------------------------------------------------------------------------
\* AdminManualCleanupHandler: 503 when disabled, 500 when the SELECT fails,
\* else every reclaimable row with the status it has now.
SweepSelect(a) ==
    /\ adm[a].pc = "idle"
    /\ \/ ~CleanupEnabled /\ AnswerAdmin(a, "disabled")
       \/ CleanupEnabled /\ "db" \in Faults /\ AnswerAdmin(a, "db error")
       \/ /\ CleanupEnabled
          /\ adm' = [adm EXCEPT ![a] = [@ EXCEPT !.pc = "sweep",
                         !.todo = {[file |-> f, status |-> files[f].status] :
                                      f \in {g \in FileId : Reclaimable(g)}}]]
    /\ UNCHANGED storeVars

\* The next row: RemoveObject of the bare id unless the row was pending.
SweepRemove(a, item) ==
    /\ adm[a].pc = "sweep"
    /\ item \in adm[a].todo
    /\ \E o \in Outcomes("store") :
          objects' = IF item.status # "pending" /\ Applied(o)
                     THEN RemoveObject(BareKey(item.file)) ELSE objects
    /\ adm' = [adm EXCEPT ![a] = [@ EXCEPT !.pc = "sweepDelete", !.cur = item.file,
                                          !.todo = adm[a].todo \ {item}]]
    /\ UNCHANGED <<files, late, issued, now>>

\* DELETE by id alone; an error only skips the row.
SweepDelete(a) ==
    /\ adm[a].pc = "sweepDelete"
    /\ \E o \in Outcomes("db") :
          files' = IF Applied(o) THEN DeleteRow(adm[a].cur) ELSE files
    /\ adm' = [adm EXCEPT ![a] = [@ EXCEPT !.pc = "sweep", !.cur = None]]
    /\ UNCHANGED <<objects, late, issued, now>>

SweepEnd(a) ==
    /\ adm[a].pc = "sweep"
    /\ adm[a].todo = {}
    /\ AnswerAdmin(a, "swept")
    /\ UNCHANGED storeVars

AdminStep(a) ==
    \/ DeleteRemove(a) \/ DeleteDelete(a)
    \/ \E item \in adm[a].todo : SweepRemove(a, item)
    \/ SweepDelete(a) \/ SweepEnd(a)

AdminNext ==
    \E a \in Admins : \/ \E f \in FileId : DeleteSelect(a, f)
                      \/ SweepSelect(a)
                      \/ AdminStep(a)

AdminCrash ==
    adm' = [a \in Admins |-> IF adm[a].pc \in {"idle", "done"} THEN adm[a]
                             ELSE [adm[a] EXCEPT !.pc = "done", !.todo = {}]]
=============================================================================
