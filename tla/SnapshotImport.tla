---------------------------- MODULE SnapshotImport ----------------------------
(***************************************************************************)
(* What a snapshot job imports: runSnapshot's steps over all the records   *)
(* of the source, each through apply, which keeps an item per record and   *)
(* the job's counters, and reconcile's comparison of counts at the end.    *)
(* Every statement commits by itself.  A run may be stopped between any    *)
(* two of them (cancelled, failed by an error, or the process ends) and    *)
(* the job resumed; meanwhile users sign in and editors create spaces.     *)
(* When a job has ended, reconciliations of their own repeat its checks.   *)
(*                                                                         *)
(* A record of the source is identified by its place in the order of the   *)
(* import.  The row with the id derived from record i (deterministicID) is *)
(* i, a row of the same name that the import did not create is -i, and the *)
(* space for pages whose space is unknown is 0.                            *)
(***************************************************************************)
EXTENDS Integers, Sequences, FiniteSets, AccessRules

CONSTANTS
  Sources,    \* the sources considered: sequences of records
  Included,   \* the sets of entities a job may be asked for
  Local,      \* names that users and editors may take
  MaxRuns,    \* bound on runs of jobs
  MaxFaults   \* bound on statements that fail and runs that are stopped

Named == {"USER", "GROUP", "SPACE"}
Content == {"PAGE", "COMMENT", "ATTACHMENT"}
Permissions == {"SPACE_PERMISSION", "PAGE_PERMISSION"}
Entities == Named \cup {"GROUP_MEMBER"} \cup Content \cup Permissions

\* A source record: its name (USER, GROUP, SPACE), the record it belongs to
\* (0: none in the source), the user of a membership, the user that created
\* it or is permitted, the group permitted, and the permission.
Fields == [entity : Entities, name : STRING, of : Nat, member : Nat,
           user : STRING, group : STRING, permission : STRING]

\* The kind of record that the others belong to.
Owner == [GROUP_MEMBER |-> "GROUP", PAGE |-> "SPACE", COMMENT |-> "PAGE",
          ATTACHMENT |-> "PAGE", SPACE_PERMISSION |-> "SPACE", PAGE_PERMISSION |-> "PAGE"]

ASSUME SourcesAssumption ==
  \A src \in Sources :
    /\ src \in Seq(Fields)
    /\ \A i \in DOMAIN src :
         LET r == src[i] IN
         /\ r.of # 0 => /\ r.of < i /\ r.entity \in DOMAIN Owner
                        /\ src[r.of].entity = Owner[r.entity]
         /\ r.member # 0 => r.member < i /\ src[r.member].entity = "USER"
\* One option each for groups with their members and for both kinds of permissions.
ASSUME IncludedAssumption ==
  \A options \in Included :
    /\ options \subseteq Entities
    /\ "GROUP" \in options <=> "GROUP_MEMBER" \in options
    /\ Permissions \subseteq options \/ Permissions \cap options = {}
ASSUME BoundsAssumption == MaxRuns \in Nat /\ MaxFaults \in Nat

VARIABLES
  source,      \* the records of the source
  included,    \* migration_jobs.options of the job
  status,      \* migration_jobs.status
  processed, failed,   \* migration_jobs.processed_items, failed_items
  item,        \* migration_items.status of the job, NONE for no row
  mapping,     \* migration_mapping.target_id, by record
  origin,      \* users, groups, spaces: legacy_system, by id; NONE for no row
  members,     \* group_members
  pages,       \* pages.space_id
  notes,       \* comments and attachments
  grants,      \* space_permissions and page_permissions, by record
  checks,      \* migration_checks.status
  run,         \* the goroutine's variables, lost when it stops
  runs, faults,
  torn,        \* a run was stopped where the counters miss an item's outcome
  blind        \* a count was taken as zero because its query failed

database == <<status, processed, failed, item, mapping, origin, members, pages,
              notes, grants, checks>>
content == <<origin, members, pages, notes, grants>>
vars == <<source, included, database, run, runs, faults, torn, blind>>

-----------------------------------------------------------------------------

Ids == DOMAIN source
NoId == Len(source) + 1
Abs(id) == IF id < 0 THEN -id ELSE id

Is(i, entity) == i \in Ids /\ source[i].entity = entity
Of(entities) == {i \in Ids : source[i].entity \in entities}

\* The record after i that the job is asked for.
Following(i) ==
  LET left == {j \in Ids : j > i /\ source[j].entity \in included}
  IN IF left = {} THEN NoId ELSE CHOOSE j \in left : \A k \in left : j <= k

\* The row of users, groups or spaces with a name.
Rows(entity, name) ==
  {id \in DOMAIN origin : /\ origin[id] # "NONE" /\ id # 0
                          /\ Is(Abs(id), entity) /\ source[Abs(id)].name = name}

Exists(id) == id \in DOMAIN origin /\ origin[id] # "NONE"

\* importUsers, importGroups, importSpaces: the row that has the name, or
\* the id derived from the record.
TargetOf(i) ==
  LET same == Rows(source[i].entity, source[i].name)
  IN IF source[i].entity \in Named /\ same # {} THEN CHOOSE id \in same : TRUE ELSE i

\* usersByName and groupsByName: the last record with the name.
KnownByName(entity, name) ==
  LET seen == {i \in Of({entity}) : source[i].name = name /\ run.known[i] # NoId}
  IN IF seen = {} THEN NoId
     ELSE run.known[CHOOSE i \in seen : \A j \in seen : j <= i]

\* permissionSubject: the name is looked up among this run's records, then in
\* the database.
SubjectId(entity, name) ==
  LET known == KnownByName(entity, name)
      same == Rows(entity, name)
  IN IF known # NoId THEN known
     ELSE IF same # {} THEN CHOOSE id \in same : TRUE ELSE NoId

permissionSubject(r) ==
  IF r.user # "" THEN Subject("USER", SubjectId("USER", r.user))
                 ELSE Subject("GROUP", SubjectId("GROUP", r.group))

HasSubject(r) ==
  /\ (r.user = "") # (r.group = "")
  /\ permissionSubject(r).id # NoId

\* permissionSpace and permissionPage: this run's targets, then the mapping.
permissionTarget(r) ==
  IF r.of = 0 THEN NoId
  ELSE IF r.entity = "SPACE_PERMISSION"
       THEN IF run.known[r.of] # NoId THEN run.known[r.of] ELSE mapping[r.of]
       ELSE IF included \cap Content # {} THEN r.of ELSE mapping[r.of]

\* What the names of space permissions, written in capitals, stand for.
Meanings ==
  [VIEW |-> {"VIEWSPACE", "VIEW"}, CREATE |-> {"ADDPAGE", "CREATE"},
   EDIT |-> {"EDITSPACE", "EDITPAGE", "EDIT"},
   DELETE |-> {"REMOVEPAGE", "REMOVEOWNCONTENT", "DELETE"}, COMMENT |-> {"COMMENT"},
   ATTACH |-> {"CREATEATTACHMENT", "REMOVEATTACHMENT", "ATTACH"},
   EXPORT |-> {"EXPORTSPACE", "EXPORT"}, RESTRICT |-> {"SETPAGEPERMISSIONS", "RESTRICT"},
   SPACE_ADMIN |-> {"ADMINISTERSPACE", "SPACE_ADMIN"}]

\* canonicalSpacePermission, canonicalPagePermission
canonicalPermission(r) ==
  LET meant == IF r.entity = "SPACE_PERMISSION"
               THEN {c \in DOMAIN Meanings : r.permission \in Meanings[c]}
               ELSE {"VIEW", "EDIT"} \cap {r.permission}
  IN IF meant = {} THEN "NONE" ELSE CHOOSE c \in meant : TRUE

\* userFor: names that this run has not seen stay NULL.
userFor(name) == IF name = "" THEN NoId ELSE KnownByName("USER", name)

\* Foreign keys of pages, comments and attachments to users.
CreatorFits(r) == userFor(r.user) # NoId => Exists(userFor(r.user))

Grant(i) ==
  [target |-> permissionTarget(source[i]), permission |-> canonicalPermission(source[i]),
   subject |-> permissionSubject(source[i])]

NoGrant == [target |-> 0, permission |-> "NONE", subject |-> Subject("USER", 0)]

\* UNIQUE over target, permission and subject: two permissions of the source
\* that mean the same do not fit.
GrantIsNew(i) ==
  \A j \in Ids : j # i /\ source[j].entity = source[i].entity => grants[j] # Grant(i)

-----------------------------------------------------------------------------
(* Jobs and runs                                                           *)

NoRun == [pc |-> "idle", at |-> 0, target |-> 0, space |-> 0, previous |-> "NONE",
          ok |-> FALSE, known |-> <<>>]

NewRun(i) == [NoRun EXCEPT !.pc = IF i = NoId THEN "reconcile" ELSE "begin", !.at = i,
                           !.known = [j \in Ids |-> NoId]]

At(pc) == run.pc = pc
Goto(pc) == run' = [run EXCEPT !.pc = pc]
This == source[run.at]

NoItems == [i \in Ids |-> "NONE"]

Init ==
  /\ source \in Sources
  /\ included \in Included
  /\ status = "NONE" /\ processed = 0 /\ failed = 0
  /\ item = NoItems
  /\ mapping = [i \in Ids |-> NoId]
  /\ origin = [id \in -Len(source)..Len(source) |-> "NONE"]
  /\ members = {} /\ notes = {}
  /\ pages = [i \in Ids |-> NoId]
  /\ grants = [i \in Ids |-> NoGrant]
  /\ checks = [entity \in Entities |-> "NONE"]
  /\ run = NoRun /\ runs = 0 /\ faults = 0
  /\ torn = FALSE /\ blind = FALSE

\* A new job has no items; what former jobs imported is still there.
StartSnapshot(options) ==
  /\ status # "RUNNING" /\ runs < MaxRuns
  /\ runs' = runs + 1
  /\ included' = options
  /\ status' = "RUNNING" /\ processed' = 0 /\ failed' = 0
  /\ item' = NoItems
  /\ run' = LET first == {j \in Ids : source[j].entity \in options}
            IN NewRun(IF first = {} THEN NoId ELSE CHOOSE j \in first : \A k \in first : j <= k)
  /\ torn' = FALSE /\ blind' = FALSE
  /\ UNCHANGED <<source, mapping, content, checks, faults>>

\* The maps of targets are empty again and every record is gone through anew,
\* and so will be every check.
ResumeSnapshot ==
  /\ status \in {"STOPPED", "COMPLETED_WITH_ERRORS"} /\ runs < MaxRuns
  /\ runs' = runs + 1
  /\ status' = "RUNNING"
  /\ run' = NewRun(Following(0))
  /\ blind' = FALSE
  /\ UNCHANGED <<source, included, processed, failed, item, mapping, content, checks,
                 faults, torn>>

\* Mutant: the job is left as it is.
LeftRunning == "RUNNING"

Stopped == "STOPPED"

\* FAILED, CANCELLED or INTERRUPTED, after any statement.
Stop ==
  /\ status = "RUNNING" /\ faults < MaxFaults
  /\ faults' = faults + 1
  /\ status' = Stopped
  /\ run' = NoRun
  /\ torn' = (torn \/ At("count")
                   \/ (run.pc \in {"work", "map", "finish"} /\ run.previous = "FAILED"))
  /\ UNCHANGED <<source, included, processed, failed, item, mapping, content, checks,
                 runs, blind>>

\* A user signs in for the first time, or a space or group is created.  Names are
\* equal here as the importers' lower() finds them: the unique constraints, which
\* tell "Ann" from "ann", also allow a second row that differs in case.
CreateLocal(i) ==
  /\ source[i].entity \in Named /\ source[i].name \in Local
  /\ Rows(source[i].entity, source[i].name) = {}
  /\ origin' = [origin EXCEPT ![-i] = "LOCAL"]
  /\ UNCHANGED <<source, included, status, processed, failed, item, mapping, members,
                 pages, notes, grants, checks, run, runs, faults, torn, blind>>

-----------------------------------------------------------------------------
(* apply, statement by statement                                           *)

Advance(target) ==
  run' = [NewRun(Following(run.at)) EXCEPT
            !.known = [run.known EXCEPT ![run.at] = target]]

\* A COMPLETE item is left alone; its target is known to what follows.
SkipItem ==
  /\ At("begin") /\ item[run.at] = "COMPLETE"
  /\ Advance(TargetOf(run.at))
  /\ UNCHANGED <<source, included, database, runs, faults, torn, blind>>

\* resolveSpace: this run's spaces, the mapping, or the space of orphans.
resolveSpace(r) ==
  IF r.of # 0 /\ run.known[r.of] # NoId THEN run.known[r.of]
  ELSE IF r.of # 0 /\ mapping[r.of] # NoId THEN mapping[r.of] ELSE 0

BeginItem ==
  /\ At("begin") /\ item[run.at] # "COMPLETE"
  /\ item' = [item EXCEPT ![run.at] = "RUNNING"]
  /\ LET space == IF This.entity = "PAGE" THEN resolveSpace(This) ELSE NoId
     IN /\ run' = [run EXCEPT !.pc = "work", !.target = TargetOf(run.at),
                              !.space = space, !.previous = item[run.at]]
        /\ origin' = IF space = 0 THEN [origin EXCEPT ![0] = "ORPHAN"] ELSE origin
  /\ UNCHANGED <<source, included, status, processed, failed, mapping, members, pages,
                 notes, grants, checks, runs, faults, torn, blind>>

\* What each importer's function needs of the database to succeed.
Fits(r) ==
  CASE r.entity \in Named ->
         Exists(run.target) \/ Rows(r.entity, r.name) = {}
    [] r.entity = "GROUP_MEMBER" ->
         /\ r.of # 0 /\ r.member # 0
         /\ Exists(run.known[r.of]) /\ Exists(run.known[r.member])
    [] r.entity = "PAGE" -> Exists(run.space) /\ CreatorFits(r)
    [] r.entity \in {"COMMENT", "ATTACHMENT"} ->
         r.of # 0 /\ pages[r.of] # NoId /\ CreatorFits(r)
    [] r.entity = "SPACE_PERMISSION" ->
         /\ canonicalPermission(r) # "NONE" /\ HasSubject(r)
         /\ Exists(permissionTarget(r)) /\ GrantIsNew(run.at)
    [] r.entity = "PAGE_PERMISSION" ->
         /\ canonicalPermission(r) # "NONE" /\ HasSubject(r)
         /\ permissionTarget(r) # NoId /\ pages[permissionTarget(r)] # NoId
         /\ GrantIsNew(run.at)

Succeed == At("work") /\ Fits(This) /\ run' = [run EXCEPT !.pc = "map", !.ok = TRUE]

Kept == <<source, included, status, processed, failed, item, mapping, checks, runs,
          faults, torn, blind>>

\* Mutant: a row that is there keeps its origin.
KeptOrigin == IF origin[run.target] = "NONE" THEN "CONFLUENCE" ELSE origin[run.target]

Origin == "CONFLUENCE"

\* The upserts of importUsers, importGroups and importSpaces: also a row that is
\* there already becomes one of Confluence's.
ImportNamed(entity) ==
  /\ Succeed /\ This.entity = entity
  /\ origin' = [origin EXCEPT ![run.target] = Origin]
  /\ UNCHANGED <<Kept, members, pages, notes, grants>>

importUser == ImportNamed("USER")
importGroup == ImportNamed("GROUP")
importSpace == ImportNamed("SPACE")

importMembership ==
  /\ Succeed /\ This.entity = "GROUP_MEMBER"
  /\ members' = members \cup {<<run.known[This.of], run.known[This.member]>>}
  /\ UNCHANGED <<Kept, origin, pages, notes, grants>>

importPage ==
  /\ Succeed /\ This.entity = "PAGE"
  /\ pages' = [pages EXCEPT ![run.at] = run.space]
  /\ UNCHANGED <<Kept, origin, members, notes, grants>>

\* importComments, importAttachments
importNote ==
  /\ Succeed /\ This.entity \in {"COMMENT", "ATTACHMENT"}
  /\ notes' = notes \cup {run.at}
  /\ UNCHANGED <<Kept, origin, members, pages, grants>>

\* importSpacePermissions, importPagePermissions
importPermission ==
  /\ Succeed /\ This.entity \in Permissions
  /\ grants' = [grants EXCEPT ![run.at] = Grant(run.at)]
  /\ UNCHANGED <<Kept, origin, members, pages, notes>>

Fault == faults < MaxFaults /\ faults' = faults + 1

\* The importer's function returns an error: what it needs is not there, or
\* its statement fails.
FailRecord ==
  /\ At("work")
  /\ Fault \/ (~Fits(This) /\ UNCHANGED faults)
  /\ run' = [run EXCEPT !.pc = "finish", !.ok = FALSE]
  /\ UNCHANGED <<source, included, database, runs, torn, blind>>

\* Mutant: the derived id, also when the name has another row.
MappedDerived == run.at

MappedTarget == run.target

UpsertMapping ==
  /\ At("map")
  /\ \/ /\ mapping' = [mapping EXCEPT ![run.at] = MappedTarget]
        /\ Goto("finish")
        /\ UNCHANGED faults
     \/ /\ Fault
        /\ run' = [run EXCEPT !.pc = "finish", !.ok = FALSE]
        /\ UNCHANGED mapping
  /\ UNCHANGED <<source, included, status, processed, failed, item, content, checks,
                 runs, torn, blind>>

FinishItem ==
  /\ At("finish")
  /\ item' = [item EXCEPT ![run.at] = IF run.ok THEN "COMPLETE" ELSE "FAILED"]
  /\ Goto("count")
  /\ UNCHANGED <<source, included, status, processed, failed, mapping, content, checks,
                 runs, faults, torn, blind>>

\* Mutant: every run of an item counts as processed.
ProcessedEachTime == 1

ProcessedDelta == IF run.previous \in {"COMPLETE", "FAILED"} THEN 0 ELSE 1

FailedDelta == (IF run.ok THEN 0 ELSE 1) - (IF run.previous = "FAILED" THEN 1 ELSE 0)

CountItem ==
  /\ At("count")
  /\ processed' = processed + ProcessedDelta
  /\ failed' = LET n == failed + FailedDelta IN IF n < 0 THEN 0 ELSE n
  /\ Advance(run.target)
  /\ UNCHANGED <<source, included, status, item, mapping, content, checks, runs, faults,
                 torn, blind>>

-----------------------------------------------------------------------------
(* The end of a run                                                        *)

\* The order of the checks, each of which compares the items of some entities with
\* the rows that came from Confluence; both kinds of permissions are one check.
Rank == [USER |-> 1, GROUP |-> 2, GROUP_MEMBER |-> 3, SPACE |-> 4, PAGE |-> 5,
         COMMENT |-> 6, ATTACHMENT |-> 7, SPACE_PERMISSION |-> 8, PAGE_PERMISSION |-> 8]

LastCheck == 8

Checked(entity) == {e \in Entities : Rank[e] = Rank[entity]}

Items(entities, statuses) == Cardinality({i \in Of(entities) : item[i] \in statuses})

AnyItem == {"RUNNING", "COMPLETE", "FAILED"}

Imported(entity) == {id \in DOMAIN origin : /\ origin[id] = "CONFLUENCE"
                                            /\ Is(Abs(id), entity)}

targetEntityCount(entity) ==
  CASE entity \in Named -> Cardinality(Imported(entity))
    [] entity = "GROUP_MEMBER" ->
         Cardinality(members \cap (Imported("GROUP") \X Imported("USER")))
    [] entity = "PAGE" -> Cardinality({i \in Ids : pages[i] # NoId})
    [] entity \in {"COMMENT", "ATTACHMENT"} ->
         Cardinality({i \in notes : Is(i, entity)})
    [] entity \in Permissions -> Cardinality({i \in Ids : grants[i] # NoGrant})

CountCheck(entity) ==
  LET n == Items(Checked(entity), AnyItem)
  IN /\ Items(Checked(entity), {"FAILED"}) = 0
     /\ Items(Checked(entity), {"COMPLETE"}) = n
     /\ n = targetEntityCount(entity)

\* The k-th check, if it is asked for: its counts and its upsert, between which
\* nobody else changes what it counts.  An error of the query over the items is
\* discarded and leaves zeros; other errors stop the run.
Check(k) ==
  LET these == {e \in included : Rank[e] = k}
      Passes(e, read) == IF read THEN CountCheck(e) ELSE targetEntityCount(e) = 0
  IN \E read \in BOOLEAN :
       /\ checks' = [e \in Entities |->
            IF e \in these THEN (IF Passes(e, read) THEN "PASS" ELSE "FAIL") ELSE checks[e]]
       /\ IF read THEN UNCHANGED <<faults, blind>>
                  ELSE these # {} /\ Fault /\ blind' = TRUE

\* A run that has reached the checks counts them on from NoId.
reconcile ==
  /\ At("reconcile")
  /\ Check(run.at - Len(source))
  /\ run' = IF run.at < Len(source) + LastCheck THEN [run EXCEPT !.at = run.at + 1]
                                               ELSE [run EXCEPT !.pc = "end"]
  /\ UNCHANGED <<source, included, status, processed, failed, item, mapping, content,
                 runs, torn>>

\* runReconciliation: a job of its own repeats the checks for the latest snapshot
\* that has ended; here only while no snapshot runs.
Reconciliation(k) ==
  /\ status \in {"COMPLETE", "COMPLETED_WITH_ERRORS"}
  /\ Check(k)
  /\ UNCHANGED <<source, included, status, processed, failed, item, mapping, content,
                 run, runs, torn>>

\* Mutant: the job ends by its counter of failures.
CountedErrors == failed

Errors == Items(Entities, {"FAILED"})

EndJob ==
  /\ At("end")
  /\ \/ /\ processed' = Items(Entities, {"COMPLETE", "FAILED"}) /\ failed' = Errors
        /\ status' = IF Errors > 0 THEN "COMPLETED_WITH_ERRORS" ELSE "COMPLETE"
        /\ torn' = FALSE
        /\ UNCHANGED <<faults, blind>>
     \/ /\ Fault /\ blind' = TRUE
        /\ processed' = 0 /\ failed' = 0 /\ status' = "COMPLETE"
        /\ UNCHANGED torn
  /\ run' = NoRun
  /\ UNCHANGED <<source, included, item, mapping, content, checks, runs>>

Next ==
  \/ \E options \in Included : StartSnapshot(options)
  \/ ResumeSnapshot
  \/ Stop
  \/ \E i \in Ids : CreateLocal(i)
  \/ SkipItem \/ BeginItem
  \/ importUser \/ importGroup \/ importMembership \/ importSpace
  \/ importPage \/ importNote \/ importPermission
  \/ FailRecord \/ UpsertMapping \/ FinishItem \/ CountItem
  \/ reconcile \/ EndJob
  \/ \E k \in 1..LastCheck : Reconciliation(k)

Spec == Init /\ [][Next]_vars
-----------------------------------------------------------------------------
(* Properties                                                              *)

Pcs == {"idle", "begin", "work", "map", "finish", "count", "reconcile", "end"}

TypeOK ==
  /\ source \in Sources /\ included \in Included
  /\ status \in {"NONE", "RUNNING", "STOPPED", "COMPLETED_WITH_ERRORS", "COMPLETE"}
  /\ {processed, failed} \subseteq Nat
  /\ item \in [Ids -> {"NONE"} \cup AnyItem]
  /\ mapping \in [Ids -> Ids \cup {-i : i \in Ids} \cup {NoId}]
  /\ origin \in [-Len(source)..Len(source) -> {"NONE", "LOCAL", "CONFLUENCE", "ORPHAN"}]
  /\ \A m \in members : Exists(m[1]) /\ Exists(m[2])
  /\ \A i \in Ids : pages[i] # NoId => Exists(pages[i])
  /\ notes \subseteq Ids
  /\ checks \in [Entities -> {"NONE", "PASS", "FAIL"}]
  /\ run.pc \in Pcs /\ (run.pc = "idle" <=> status # "RUNNING")
  /\ runs \in 0..MaxRuns /\ faults \in 0..MaxFaults
  /\ torn \in BOOLEAN /\ blind \in BOOLEAN

\* apply's deltas, also for records that failed before and are run again:
\* between two records the job's counters say how many items are finished and
\* how many failed, unless a run was stopped between an item and its counting.
CountersExact ==
  (status = "STOPPED" \/ At("begin") \/ At("reconcile")) /\ ~torn =>
    /\ processed = Items(Entities, {"COMPLETE", "FAILED"})
    /\ failed = Items(Entities, {"FAILED"})

\* Ids that a permission may have been given before somebody took the name that
\* belongs to them: usersByName and groupsByName are set also for a record that
\* fails, and its retry is then given the row that has the name.
GivenAway(entity, name) ==
  {j \in Of({entity}) : source[j].name = name /\ mapping[j] \in Rows(entity, name) \ {j}}

\* A permission's row says what the source says, of a subject that has a row.
GrantLanded(i) ==
  LET r == source[i]
      g == grants[i]
      ForOneOf(entity, name) ==
        name # "" /\ \E id \in Rows(entity, name) \cup GivenAway(entity, name) :
                       g.subject = Subject(entity, id)
  IN /\ g.permission = canonicalPermission(r) /\ g.permission # "NONE"
     /\ ForOneOf("USER", r.user) \/ ForOneOf("GROUP", r.group)

Landed(i) ==
  LET r == source[i] IN
  CASE r.entity \in Named -> \E id \in Rows(r.entity, r.name) : origin[id] = "CONFLUENCE"
    [] r.entity = "GROUP_MEMBER" ->
         Rows("GROUP", source[r.of].name) \X Rows("USER", source[r.member].name) \subseteq members
    [] r.entity = "PAGE" ->
         /\ pages[i] # NoId
         /\ r.of # 0 => pages[i] \in Rows("SPACE", source[r.of].name) \cup {0}
    [] r.entity \in {"COMMENT", "ATTACHMENT"} -> i \in notes
    [] r.entity = "SPACE_PERMISSION" ->
         GrantLanded(i) /\ grants[i].target \in Rows("SPACE", source[r.of].name)
    [] r.entity = "PAGE_PERMISSION" ->
         GrantLanded(i) /\ grants[i].target = r.of /\ pages[r.of] # NoId

\* A job that ends COMPLETE, after whatever stops and repetitions, has every
\* record it was asked for in the database, in rows that carry its name: a
\* membership joins the rows of its group and its user, a page is in its space or
\* the space of orphans, a permission is on its space or page, for the row of the
\* user or group it names.  Excepted by name (GivenAway) is the permission of a
\* user or group that failed in an earlier run of the job.
CompleteJobLanded ==
  status = "COMPLETE" /\ ~blind =>
    \A i \in Of(included) : item[i] = "COMPLETE" /\ Landed(i)

\* The counts of a job that ends COMPLETE agree with the rows in the database,
\* which former jobs and runs wrote as well, and accounts that were there; also
\* when reconciliations of their own have counted again.  (A permission whose
\* subject is GivenAway counts as well.)
CompleteJobPasses ==
  status = "COMPLETE" /\ ~blind => \A e \in included : checks[e] = "PASS"

\* The mapping of a user, group or space leads to the row of that name, also
\* when somebody took the name between the lookup and the insert.
MappingNamesRow ==
  \A i \in Of(Named) : item[i] = "COMPLETE" =>
    mapping[i] \in Rows(source[i].entity, source[i].name)

GrantRows(entity) == {grants[i] : i \in {i \in Of({entity}) : grants[i] # NoGrant}}

\* The source's own rule: VIEW permissions name users and groups.
SourceAllows(u, entity, target) ==
  LET views == {i \in Of({entity}) : source[i].of = target
                                      /\ source[i].permission \in {"VIEWSPACE", "VIEW"}}
      groups == {source[source[m].of].name :
                   m \in {m \in Of({"GROUP_MEMBER"}) : source[m].member = u}}
  IN views = {} \/ \E i \in views : \/ source[i].user = source[u].name
                                    \/ source[i].group \in groups

\* A source without repetitions: of users, groups and spaces of one name, and of
\* memberships of one user in one group.
RecordsOnce ==
  \A src \in Sources : \A i, j \in DOMAIN src :
    /\ src[i].entity = src[j].entity
    /\ \/ src[i].entity \in Named /\ src[i].name = src[j].name
       \/ /\ src[i].entity = "GROUP_MEMBER"
          /\ src[i].of = src[j].of /\ src[i].member = src[j].member
    => i = j

\* No two users and no two spaces of a source have the same name.
NamesOnce ==
  \A src \in Sources : \A i, j \in DOMAIN src :
    /\ src[i].entity = src[j].entity /\ src[i].entity \in {"USER", "SPACE"}
    /\ src[i].name = src[j].name
    => i = j

Finished == status \in {"COMPLETE", "COMPLETED_WITH_ERRORS"} /\ ~blind

Passed(entities) == entities \subseteq included /\ \A e \in entities : checks[e] = "PASS"

\* When a job has ended and its checks of pages and permissions pass, no user
\* sees a page or a space that the source's permissions keep from that user.
AccessNotWidened ==
  Finished /\ Passed({"PAGE"} \cup Permissions) =>
    \A u \in Of({"USER"}) : \A id \in Rows("USER", source[u].name) :
      LET mine == Subjects(id, members)
          spaceRows == GrantRows("SPACE_PERMISSION")
      IN /\ \A p \in Of({"PAGE"}) :
              CanPage(GrantRows("PAGE_PERMISSION"), spaceRows, p, pages[p], "VIEW", mine)
              => /\ SourceAllows(u, "PAGE_PERMISSION", p)
                 /\ SourceAllows(u, "SPACE_PERMISSION", source[p].of)
         /\ \A s \in Of({"SPACE"}) : \A row \in Rows("SPACE", source[s].name) :
              (\/ row \in ListSpaces(spaceRows, Imported("SPACE"), mine)
               \/ CanSpace(spaceRows, row, "VIEW", mine))
              => SourceAllows(u, "SPACE_PERMISSION", s)

\* Nobody has the name of the user or group that a permission is for.
Unconfirmed(r) ==
  IF r.user # "" THEN Rows("USER", r.user) = {} ELSE Rows("GROUP", r.group) = {}

\* "A permission whose subject cannot be confirmed is not taken to be public but
\* fails, which keeps information from being disclosed" (docs/MIGRATION.md): when a
\* job has ended, a page whose permission has failed that way is open to none of
\* the source's users that the source keeps from it.
UnconfirmedStaysClosed ==
  Finished =>
    \A i \in Of({"PAGE_PERMISSION"}) :
      LET p == source[i].of IN
      item[i] = "FAILED" /\ Unconfirmed(source[i]) /\ p # 0 /\ pages[p] # NoId =>
        \A u \in Of({"USER"}) : \A id \in Rows("USER", source[u].name) :
          CanPage(GrantRows("PAGE_PERMISSION"), GrantRows("SPACE_PERMISSION"), p, pages[p],
                  "VIEW", Subjects(id, members))
          => SourceAllows(u, "PAGE_PERMISSION", p)
=============================================================================
