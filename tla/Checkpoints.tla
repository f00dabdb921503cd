----------------------------- MODULE Checkpoints -----------------------------
(***************************************************************************)
(* Database checkpoints on demand (internal/controller/checkpoint.go and   *)
(* the Copilot extension, internal/extension/checkpoint_api.go): a client  *)
(* writes a request into the spec, the operator runs a Job for it, stores  *)
(* the dump in a ConfigMap, clears the request and publishes the list of   *)
(* checkpoints in the status.                                              *)
(*                                                                         *)
(* A reconcile pass is one action per call that other processes can see or *)
(* that can fail: it works on a copy of the Preview, which may be stale    *)
(* from the start and gets stale on the way.  A status Update fails when   *)
(* the copy is not the current object (optimistic locking); a merge Patch  *)
(* of the spec has no such precondition.                                   *)
(***************************************************************************)
EXTENDS Naturals, FiniteSets

CONSTANTS
  Names,         \* checkpoint names
  Clients,       \* users of the extension or of kubectl
  MaxRequests,   \* bound: requests sent by all clients
  MaxWrites,     \* bound: writes of the application to the database
  MaxAborts,     \* bound: passes cut short by a crash or a failing API call
  CacheLag,      \* TRUE: the operator's caches may lag behind the API server
  SlowGC,        \* TRUE: a deleted Job stays visible until it is collected
  Patient,       \* TRUE: a client starts when no request is pending, and waits for its save
  TasksEnabled,  \* TRUE: the migration and seed tasks of the database are enabled
  PromptOperator \* TRUE: a succeeded Job is noticed before its TTL runs out

None  == "none"
Kinds == {"save", "restore"}

ASSUME NamesAssumption  == None \notin Names /\ Names # {}
ASSUME BoundsAssumption == MaxRequests \in Nat /\ MaxWrites \in Nat /\ MaxAborts \in Nat
ASSUME FlagsAssumption  ==
  /\ CacheLag \in BOOLEAN /\ SlowGC \in BOOLEAN /\ Patient \in BOOLEAN
  /\ TasksEnabled \in BOOLEAN /\ PromptOperator \in BOOLEAN

VARIABLES
  preview,   \* the Preview object in the API server, as far as it matters here
  view,      \* the copy in the operator's cache
  seen,      \* the checkpoints whose ConfigMap the operator's cache shows
  op,        \* the pass under way: where it is, and what it works on
  suiteJobs, \* the Jobs of the test suite have not been deleted
  jobs,      \* the save and the restore Job of every name
  cms,       \* the ConfigMap db-checkpoint-<name> of every name
  db,        \* contents of the database: the last write in it, or Torn
  clients,   \* what each client is doing
  asked,     \* requests sent so far; a request is known by its number
  writes, aborts,
  mishaps    \* what has gone wrong so far (no state of the program: see Mishaps)

vars == <<preview, view, seen, op, suiteJobs, jobs, cms, db, clients, asked, writes, aborts,
          mishaps>>

-----------------------------------------------------------------------------
(* Types *)

\* The contents of the database, or of a dump of it, are known by the last write
\* of the application they include.
Torn   == MaxWrites + 1   \* a restore has emptied the tables and not replayed yet
NoDump == MaxWrites + 2   \* nothing stored
Data   == 0 .. Torn
Dumps  == 0 .. NoDump
MaxGen == 1 + 2 * MaxRequests

PreviewType == [save : Names \cup {None}, restore : Names \cup {None},
                gen : 1 .. MaxGen, observed : 1 .. MaxGen,
                published : SUBSET Names, ready : BOOLEAN, results : BOOLEAN]

PassType == [pc : {"idle", "pass", "stored", "deleted", "cleared", "refreshed"},
             copy : PreviewType, listed : SUBSET Names, wasReady : BOOLEAN]

\* taken: the number of requests sent before the dump was taken.
JobType == [st : {"absent", "active", "midway", "succeeded", "failed"}, term : BOOLEAN,
            taken : 0 .. MaxRequests, dump : Dumps]
CMType  == [dump : Dumps, taken : 0 .. MaxRequests]

ClientType == [st : {"idle", "read", "waiting", "acked", "restoring", "midway"},
               kind : Kinds \cup {"api"}, name : Names, id : 0 .. MaxRequests,
               save : Names \cup {None}, restore : Names \cup {None}]

\* Events after which a client is promised less.
\*  crossed  a request was sent while another one, or a restore of the API, was under way
\*  revived  a pass on an old copy created a Job for a request that is not pending
\*  dying    a pass took the result of a Job that is being deleted
\*  told     the API told a client that its restore failed or took too long
\*  cut      a pass ended between the patch of the spec and the status update
\*  between  a pass began on a copy from between the patch and the status update
Mishaps == {"crossed", "revived", "dying", "told", "cut", "between"}

TypeOK ==
  /\ preview \in PreviewType /\ view \in PreviewType /\ seen \subseteq Names
  /\ op \in PassType
  /\ suiteJobs \in BOOLEAN
  /\ jobs \in [Kinds -> [Names -> JobType]]
  /\ cms \in [Names -> CMType]
  /\ db \in Data
  /\ clients \in [Clients -> ClientType]
  /\ asked \in 0 .. MaxRequests /\ writes \in 0 .. MaxWrites /\ aborts \in 0 .. MaxAborts
  /\ mishaps \subseteq Mishaps

-----------------------------------------------------------------------------
(* Initial state: a preview that runs, with a finished suite and no request *)

Preview0 == [save |-> None, restore |-> None, gen |-> 1, observed |-> 1,
             published |-> {}, ready |-> TRUE, results |-> TRUE]
Idle     == [pc |-> "idle", copy |-> Preview0, listed |-> {}, wasReady |-> TRUE]
NoRequest == [st |-> "idle", kind |-> "save", name |-> CHOOSE n \in Names : TRUE, id |-> 0,
              save |-> None, restore |-> None]
NoJob    == [st |-> "absent", term |-> FALSE, taken |-> 0, dump |-> NoDump]

Init ==
  /\ preview = Preview0 /\ view = Preview0 /\ seen = {}
  /\ op = Idle
  /\ suiteJobs = TRUE
  /\ jobs = [k \in Kinds |-> [n \in Names |-> NoJob]]
  /\ cms = [n \in Names |-> [dump |-> NoDump, taken |-> 0]]
  /\ db = 0
  /\ clients = [c \in Clients |-> NoRequest]
  /\ asked = 0 /\ writes = 0 /\ aborts = 0 /\ mishaps = {}

Exists(n)  == cms[n].dump # NoDump
NewJob     == [NoJob EXCEPT !.st = "active"]
Pending(p) == p.save # None \/ p.restore # None

Note(event, happens) == mishaps' = mishaps \cup {e \in {event} : happens}

-----------------------------------------------------------------------------
(* Clients *)

\* The handler reads the Preview.  A restore is refused unless the status lists
\* the checkpoint; "api" is the restore of the HTTP API, which runs its own Job.
Read(c, kind, n) ==
  /\ clients[c].st \in {"idle", "acked"} /\ asked < MaxRequests
  /\ kind # "save" => n \in preview.published
  /\ Patient => ~Pending(preview)
  /\ clients' = [clients EXCEPT ![c] = [st |-> "read", kind |-> kind, name |-> n, id |-> 0,
                                        save |-> preview.save, restore |-> preview.restore]]
  /\ UNCHANGED <<preview, view, seen, op, suiteJobs, jobs, cms, db, asked, writes,
                 aborts, mishaps>>

\* A merge patch sends the fields that differ from what was read.
Patched(old, new, live) == IF old = new THEN live ELSE new

\* Mutant: every patch counts as a change of the spec.
AlwaysBumped(p) == [p EXCEPT !.gen = preview.gen + 1]

\* A patch that changes nothing does not change the generation either.
Bumped(p) == IF p = preview THEN p ELSE [p EXCEPT !.gen = preview.gen + 1]

\* Something else is under way: a request in the spec or in what the client has
\* read of it, or a restore of the API by someone else.
Crossing(c) ==
  \/ Pending(preview) \/ Pending(clients[c])
  \/ \E d \in Clients \ {c} : clients[d].st \in {"restoring", "midway"}

\* The client sends its request: one field is set, the other one emptied.
Send(c) ==
  /\ clients[c].st = "read" /\ clients[c].kind \in Kinds
  /\ asked < MaxRequests /\ asked' = asked + 1
  /\ LET r    == clients[c]
         want == [k \in Kinds |-> IF k = r.kind THEN r.name ELSE None]
     IN  /\ preview' = Bumped([preview EXCEPT
                         !.save    = Patched(r.save, want["save"], preview.save),
                         !.restore = Patched(r.restore, want["restore"], preview.restore)])
         \* cmdRestoreDB returns, handleCheckpointSave waits
         /\ clients' = [clients EXCEPT ![c].st = IF r.kind = "save" THEN "waiting" ELSE "idle",
                                       ![c].id = asked + 1]
  /\ Note("crossed", Crossing(c))
  /\ UNCHANGED <<view, seen, op, suiteJobs, jobs, cms, db, writes, aborts>>

\* waitForCheckpointAction: the request is done when the field is empty.
Acknowledge(c) ==
  /\ clients[c].st = "waiting" /\ preview.save = None
  /\ clients' = [clients EXCEPT ![c].st = "acked"]
  /\ UNCHANGED <<preview, view, seen, op, suiteJobs, jobs, cms, db, asked, writes,
                 aborts, mishaps>>

\* The 90 seconds of the call are over: the request stays in the spec.
GiveUp(c) ==
  /\ clients[c].st = "waiting" /\ ~Patient
  /\ clients' = [clients EXCEPT ![c].st = "idle"]
  /\ UNCHANGED <<preview, view, seen, op, suiteJobs, jobs, cms, db, asked, writes, aborts,
                 mishaps>>

\* runRestoreJob: a Job with a name of its own truncates, then replays.
ApiRestoreStarts(c) ==
  /\ clients[c].st = "read" /\ clients[c].kind = "api"
  /\ asked < MaxRequests /\ asked' = asked + 1
  /\ clients' = [clients EXCEPT ![c].st = "restoring", ![c].id = asked + 1]
  /\ Note("crossed", Crossing(c))
  /\ UNCHANGED <<preview, view, seen, op, suiteJobs, jobs, cms, db, writes, aborts>>

ApiRestoreWipes(c) ==
  /\ clients[c].st = "restoring"
  /\ clients' = [clients EXCEPT ![c].st = "midway"] /\ db' = Torn
  /\ UNCHANGED <<preview, view, seen, op, suiteJobs, jobs, cms, asked, writes, aborts,
                 mishaps>>

\* The Job fails (it is not tried again), or the 90 seconds are over: the client
\* is told, the Job is deleted, and the database stays as it is.
ApiRestoreFails(c) ==
  /\ clients[c].st \in {"restoring", "midway"}
  /\ clients' = [clients EXCEPT ![c].st = "idle"]
  /\ Note("told", TRUE)
  /\ UNCHANGED <<preview, view, seen, op, suiteJobs, jobs, cms, db, asked, writes,
                 aborts>>

ApiRestoreEnds(c) ==
  /\ clients[c].st = "midway"
  /\ clients' = [clients EXCEPT ![c].st = "idle"] /\ db' = cms[clients[c].name].dump
  /\ UNCHANGED <<preview, view, seen, op, suiteJobs, jobs, cms, asked, writes, aborts,
                 mishaps>>

-----------------------------------------------------------------------------
(* The operator's pass *)

Seen  == IF CacheLag THEN view ELSE preview
Known == IF CacheLag THEN seen ELSE {n \in Names : Exists(n)}

\* Mutant: the resource version of the copy is not compared.
AlwaysAccepted(p) == TRUE

\* A status update of copy p is accepted when p is current; it writes all of the
\* status and nothing of the spec.
Accepted(p) == p = preview
Written(p)  == [preview EXCEPT !.observed = p.observed, !.published = p.published,
                               !.ready = p.ready, !.results = p.results]

\* resetDerivedStateForNewGeneration.  A new generation that carries a request
\* is only noted; any other one deletes the suite's Jobs and its results.  The
\* status Update is refused when the copy is stale, after the Jobs are deleted.
Noted(p) == [p EXCEPT !.observed = p.gen]
Reset(p) == [Noted(p) EXCEPT !.results = FALSE]

BeginPass ==
  /\ op.pc = "idle"
  /\ LET p == Seen
         q == IF p.gen = p.observed THEN p ELSE IF Pending(p) THEN Noted(p) ELSE Reset(p)
     IN  /\ suiteJobs' = (suiteJobs /\ (p.gen = p.observed \/ Pending(p)))
         /\ IF q = p \/ Accepted(p)
            THEN /\ op' = [Idle EXCEPT !.pc = "pass", !.copy = q]
                 /\ preview' = IF q = p THEN preview ELSE Written(q)
            ELSE UNCHANGED <<preview, op>>
         /\ Note("between", p # preview /\ p.gen # p.observed /\ ~Pending(p))
  /\ UNCHANGED <<view, seen, jobs, cms, db, clients, asked, writes, aborts>>

\* reconcileCheckpoints, when there is nothing to do: no request, two of them,
\* a restore of a checkpoint that does not exist, or a Job not yet finished.
Kind(p) == IF p.save # None THEN "save" ELSE "restore"
Name(p) == IF p.save # None THEN p.save ELSE p.restore
Job(p)  == jobs[Kind(p)][Name(p)]

Refused(p) ==
  \/ ~Pending(p)
  \/ p.save # None /\ p.restore # None
  \/ Kind(p) = "restore" /\ Name(p) \notin Known

EndPass ==
  /\ op.pc = "pass"
  /\ ~Refused(op.copy) => Job(op.copy).st \in {"active", "midway", "failed"}
  /\ op' = Idle
  /\ UNCHANGED <<preview, view, seen, suiteJobs, jobs, cms, db, clients, asked, writes,
                 aborts, mishaps>>

CreateJob ==
  /\ op.pc = "pass" /\ ~Refused(op.copy) /\ Job(op.copy).st = "absent"
  /\ jobs' = [jobs EXCEPT ![Kind(op.copy)][Name(op.copy)] = NewJob]
  /\ op' = Idle
  /\ Note("revived", preview[Kind(op.copy)] # Name(op.copy))
  /\ UNCHANGED <<preview, view, seen, suiteJobs, cms, db, clients, asked, writes, aborts>>

\* Mutant: a Job that is over, either way.
Over(j) == j.st \in {"succeeded", "failed"}

\* A Job that has succeeded is all the code asks for.
Finished(j) == j.st = "succeeded"

\* Mutant: an existing ConfigMap is left alone.
StoredOnce(n, j) ==
  [cms EXCEPT ![n] = IF @.dump = NoDump THEN [dump |-> j.dump, taken |-> j.taken] ELSE @]

\* CreateOrUpdate of the ConfigMap.
Stored(n, j) == [cms EXCEPT ![n] = [dump |-> j.dump, taken |-> j.taken]]

\* The dump of a save is read from the pod of the Job and stored.
StoreDump ==
  /\ op.pc = "pass" /\ ~Refused(op.copy) /\ Finished(Job(op.copy))
  /\ op' = [op EXCEPT !.pc = "stored"]
  /\ cms' = IF Kind(op.copy) = "restore" THEN cms ELSE Stored(Name(op.copy), Job(op.copy))
  /\ Note("dying", Job(op.copy).term)
  /\ UNCHANGED <<preview, view, seen, suiteJobs, jobs, db, clients, asked, writes,
                 aborts>>

DeleteJob ==
  /\ op.pc = "stored"
  /\ op' = [op EXCEPT !.pc = "deleted"]
  /\ jobs' = [jobs EXCEPT ![Kind(op.copy)][Name(op.copy)] =
                IF SlowGC /\ @.st # "absent" THEN [@ EXCEPT !.term = TRUE] ELSE NoJob]
  /\ UNCHANGED <<preview, view, seen, suiteJobs, cms, db, clients, asked, writes, aborts,
                 mishaps>>

\* Mutant: a restore clears the field of the save.
SaveCleared(k) == [preview EXCEPT !.save = None]

\* The field of the request of kind k is emptied, whatever it holds by now.
Cleared(k) == IF k = "save" THEN [preview EXCEPT !.save = None]
              ELSE [preview EXCEPT !.restore = None]

\* Readiness as the pass sees it: a disabled migration or seed task sets the
\* flag of the copy to false on its way (setDatabaseTaskStatus).
WasReady(p) == p.ready /\ TasksEnabled

\* clearCheckpointRequest, first half: a merge patch of the spec.
ClearRequest ==
  /\ op.pc = "deleted"
  /\ preview' = Bumped(Cleared(Kind(op.copy)))
  /\ op' = [op EXCEPT !.pc = "cleared", !.wasReady = WasReady(op.copy)]
  /\ UNCHANGED <<view, seen, suiteJobs, jobs, cms, db, clients, asked, writes, aborts,
                 mishaps>>

\* Second half: read the Preview again (past the cache), list the ConfigMaps.
Refresh ==
  /\ op.pc = "cleared"
  /\ op' = [op EXCEPT !.pc = "refreshed", !.copy = preview,
                      !.listed = Known]
  /\ UNCHANGED <<preview, view, seen, suiteJobs, jobs, cms, db, clients, asked, writes,
                 aborts, mishaps>>

\* Mutants: the generation of the patch is not noted; the list is not written.
NotNoted(p)   == [p EXCEPT !.published = op.listed, !.ready = op.wasReady]
NotListed(p)  == [Noted(p) EXCEPT !.ready = op.wasReady]

\* The status clearCheckpointRequest writes.
Published(p) == [Noted(p) EXCEPT !.published = op.listed, !.ready = op.wasReady]

Publish ==
  /\ op.pc = "refreshed"
  /\ preview' = IF Accepted(op.copy) THEN Written(Published(op.copy)) ELSE preview
  /\ op' = Idle
  /\ UNCHANGED <<view, seen, suiteJobs, jobs, cms, db, clients, asked, writes, aborts,
                 mishaps>>

\* The operator crashes, or a call of it fails: the next pass starts over.
Abort ==
  /\ op.pc # "idle" /\ aborts < MaxAborts /\ aborts' = aborts + 1
  /\ op' = Idle
  /\ Note("cut", op.pc \in {"cleared", "refreshed"})
  /\ UNCHANGED <<preview, view, seen, suiteJobs, jobs, cms, db, clients, asked, writes>>

-----------------------------------------------------------------------------
(* The cluster *)

\* The informers of Previews and of ConfigMaps catch up, each on its own.
CacheSync ==
  /\ CacheLag
  /\ \/ view' = preview /\ UNCHANGED seen
     \/ seen' = {n \in Names : Exists(n)} /\ UNCHANGED view
  /\ UNCHANGED <<preview, op, suiteJobs, jobs, cms, db, clients, asked, writes, aborts,
                 mishaps>>

\* pg_dump sees the database as it is.
SaveSucceeds(n) ==
  /\ jobs["save"][n].st = "active"
  /\ jobs' = [jobs EXCEPT !["save"][n].st = "succeeded", !["save"][n].dump = db,
                             !["save"][n].taken = asked]
  /\ UNCHANGED <<preview, view, seen, op, suiteJobs, cms, db, clients, asked, writes,
                 aborts, mishaps>>

\* A restore truncates the tables in one psql call and replays in the next.
RestoreWipes(n) ==
  /\ jobs["restore"][n].st = "active"
  /\ jobs' = [jobs EXCEPT !["restore"][n].st = "midway"] /\ db' = Torn
  /\ UNCHANGED <<preview, view, seen, op, suiteJobs, cms, clients, asked, writes, aborts,
                 mishaps>>

RestoreSucceeds(n) ==
  /\ jobs["restore"][n].st = "midway"
  /\ jobs' = [jobs EXCEPT !["restore"][n].st = "succeeded"] /\ db' = cms[n].dump
  /\ UNCHANGED <<preview, view, seen, op, suiteJobs, cms, clients, asked, writes, aborts,
                 mishaps>>

JobFails(k, n) ==
  /\ jobs[k][n].st \in {"active", "midway"}
  /\ jobs' = [jobs EXCEPT ![k][n].st = "failed"]
  /\ UNCHANGED <<preview, view, seen, op, suiteJobs, cms, db, clients, asked, writes,
                 aborts, mishaps>>

\* TTLSecondsAfterFinished.
JobExpires(k, n) ==
  /\ \/ jobs[k][n].st = "failed"
     \/ jobs[k][n].st = "succeeded" /\ (PromptOperator => preview[k] # n)
  /\ jobs' = [jobs EXCEPT ![k][n] = NoJob]
  /\ UNCHANGED <<preview, view, seen, op, suiteJobs, cms, db, clients, asked, writes,
                 aborts, mishaps>>

JobCollected(k, n) ==
  /\ jobs[k][n].term
  /\ jobs' = [jobs EXCEPT ![k][n] = NoJob]
  /\ UNCHANGED <<preview, view, seen, op, suiteJobs, cms, db, clients, asked, writes,
                 aborts, mishaps>>

AppWrites ==
  /\ writes < MaxWrites /\ db # Torn
  /\ writes' = writes + 1 /\ db' = writes + 1
  /\ UNCHANGED <<preview, view, seen, op, suiteJobs, jobs, cms, clients, asked, aborts,
                 mishaps>>

-----------------------------------------------------------------------------
Pass == BeginPass \/ EndPass \/ CreateJob \/ StoreDump \/ DeleteJob \/ ClearRequest
          \/ Refresh \/ Publish

ClientStep(c) ==
  \/ \E kind \in Kinds \cup {"api"}, n \in Names : Read(c, kind, n)
  \/ Send(c) \/ Acknowledge(c) \/ GiveUp(c)
  \/ ApiRestoreStarts(c) \/ ApiRestoreWipes(c) \/ ApiRestoreFails(c) \/ ApiRestoreEnds(c)

Cluster ==
  \/ CacheSync \/ AppWrites
  \/ \E n \in Names : SaveSucceeds(n) \/ RestoreWipes(n) \/ RestoreSucceeds(n)
  \/ \E k \in Kinds, n \in Names : JobFails(k, n) \/ JobExpires(k, n) \/ JobCollected(k, n)

Next == Pass \/ Abort \/ (\E c \in Clients : ClientStep(c)) \/ Cluster

Spec == Init /\ [][Next]_vars

(* Fairness.  Every pass is followed by another (a pending request is requeued *)
(* after two seconds, an error with backoff), the caches, the TTL and the      *)
(* garbage collector do their work, a client keeps polling, and a Job that is  *)
(* run again and again is not unlucky for ever.                                *)
FairSpec ==
  /\ Spec
  /\ WF_vars(Pass) /\ WF_vars(CacheSync)
  /\ \A c \in Clients : WF_vars(Acknowledge(c)) /\ WF_vars(ApiRestoreWipes(c))
                        /\ WF_vars(ApiRestoreEnds(c))
  /\ \A n \in Names : SF_vars(SaveSucceeds(n)) /\ SF_vars(RestoreWipes(n))
                      /\ SF_vars(RestoreSucceeds(n))
  /\ \A k \in Kinds, n \in Names : WF_vars(JobExpires(k, n)) /\ WF_vars(JobCollected(k, n))

-----------------------------------------------------------------------------
(* Properties *)

\* A save that has been acknowledged is stored, and what is stored was taken
\* after it was asked for: neither an older dump under the same name nor a
\* request that vanished passes for it.  Clients, stale copies, crashes, failed
\* and expired Jobs may come in between; it takes a request sent across another
\* one, a Job created for a request already served, or the result of a Job that
\* is being deleted to break it (clearCheckpointRequest clears whatever request
\* is there, and reconcileCheckpointSave takes any succeeded Job of the name).
AckedSaveIsStored ==
  mishaps \cap {"crossed", "revived", "dying"} = {} =>
    \A c \in Clients :
      clients[c].st = "acked" => LET cm == cms[clients[c].name]
                                 IN  cm.dump # NoDump /\ cm.taken >= clients[c].id

\* A stored checkpoint is a snapshot of a database that no restore was halfway
\* through (TRUNCATE and replay are two transactions), unless one of the events
\* above happened or a client was told that its restore of the API failed: the
\* database is then left empty, and nothing keeps it from being saved.
CheckpointsAreWhole ==
  mishaps \cap {"crossed", "revived", "dying", "told"} = {} =>
    \A n \in Names : cms[n].dump # Torn

\* Saving and restoring leave the results of the test suite and its Jobs alone:
\* the generations they cause do not reset what was derived from the spec, also
\* when the next request falls between the patch and the status update.  A pass
\* that ends there, or begins there from the cache, resets them.
DerivedStateSurvives ==
  mishaps \cap {"crossed", "cut", "between"} = {} => suiteJobs /\ preview.results

\* The status never goes back to an older generation, whatever the caches show
\* and whoever else writes the object between the operator's read and write.
ObservedForward == [][preview'.observed >= preview.observed /\ preview'.gen >= preview.gen]_vars

\* Every request is served and cleared in the end.
RequestsComplete == <>[]~Pending(preview)

\* An acknowledged checkpoint gets into the list the status publishes, without
\* which every restore of it is refused, unless the pass that served it ended
\* before its status update: no later pass is bound to make up for that.
SavesGetListed ==
  \A c \in Clients, n \in Names :
    clients[c].st = "acked" /\ clients[c].name = n
      ~> n \in preview.published \/ "cut" \in mishaps
=============================================================================
