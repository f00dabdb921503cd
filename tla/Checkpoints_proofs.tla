-------------------------- MODULE Checkpoints_proofs --------------------------
(***************************************************************************)
(* Theorems about Checkpoints, for every number of names, clients,         *)
(* requests, writes and aborts, and with any caches, garbage collector,    *)
(* clients and tasks.  What a promise of Checkpoints is lost by is in the  *)
(* statement of the promise (mishaps), not in an assumption about the      *)
(* constants.                                                              *)
(***************************************************************************)
EXTENDS Checkpoints, TLAPS

(***************************************************************************)
(* Types, generations, and what is known of the stored checkpoints         *)
(***************************************************************************)

\* The request fields that are set.
Fields(p) == (IF p.save = None THEN 0 ELSE 1) + (IF p.restore = None THEN 0 ELSE 1)

\* A request costs two generations: the one that sets its field, and the one
\* that will empty it.  The status has seen no generation that does not exist.
Budget ==
  /\ preview.gen + Fields(preview) <= 1 + 2 * asked
  /\ preview.observed <= preview.gen

\* Whoever knows of a checkpoint knows of one that is stored: the caches, the
\* status and its copies, the Jobs and the clients that restore it.
Backed ==
  /\ \A n \in seen : Exists(n)
  /\ \A n \in preview.published \union view.published : Exists(n)
  /\ \A n \in op.copy.published \union op.listed : Exists(n)
  /\ op.pc \in {"stored", "deleted"} => Pending(op.copy)
  /\ \A n \in Names : jobs["save"][n].st = "succeeded" => jobs["save"][n].dump \in Data
  /\ \A n \in Names : jobs["restore"][n].st \in {"active", "midway"} => Exists(n)
  /\ \A c \in Clients :
       /\ clients[c].st = "read" /\ clients[c].kind # "save" => Exists(clients[c].name)
       /\ clients[c].st \in {"restoring", "midway"} => Exists(clients[c].name)

TInv == TypeOK /\ Budget /\ Backed

USE NamesAssumption, BoundsAssumption, FlagsAssumption

LEMMA InitTInv == Init => TInv
<1> SUFFICES ASSUME Init PROVE TInv
  OBVIOUS
<1>1. Preview0 \in PreviewType
  BY DEF Preview0, PreviewType, MaxGen
<1>2. Idle \in PassType
  BY <1>1 DEF Idle, PassType
<1>3. NoJob \in JobType
  BY DEF NoJob, JobType, Dumps, NoDump
<1>4. (CHOOSE n \in Names : TRUE) \in Names
  OBVIOUS
<1>5. NoRequest \in ClientType
  BY <1>4 DEF NoRequest, ClientType, Kinds
<1>6. 0 \in Data
  BY DEF Data, Torn
<1>7. TypeOK
  BY <1>1, <1>2, <1>3, <1>5, <1>6 DEF TypeOK, Init, CMType, Dumps, NoDump
<1>8. Budget
  BY DEF Budget, Init, Preview0, Fields
<1>9. Backed
  BY DEF Backed, Init, Preview0, Idle, NoJob, NoRequest, Kinds
<1> QED
  BY <1>7, <1>8, <1>9 DEF TInv

LEMMA DataDumps == Data \subseteq Dumps /\ NoDump \in Dumps /\ NoDump \notin Data /\ Torn \in Data
                   /\ \A d \in Dumps : d # NoDump => d \in Data
BY DEF Data, Dumps, NoDump, Torn

\* A merge patch of the two request fields, if it has the budget.
Patch(s, r) == [preview EXCEPT !.save = s, !.restore = r]

LEMMA BumpedType ==
  ASSUME TypeOK, Budget,
         NEW s \in Names \union {None}, NEW r \in Names \union {None},
         NEW a \in 0 .. MaxRequests, asked <= a,
         Patch(s, r) # preview => preview.gen + 1 + Fields(Patch(s, r)) <= 1 + 2 * a
  PROVE  /\ Bumped(Patch(s, r)) \in PreviewType
         /\ Bumped(Patch(s, r)).gen + Fields(Bumped(Patch(s, r))) <= 1 + 2 * a
         /\ Bumped(Patch(s, r)).observed = preview.observed
         /\ Bumped(Patch(s, r)).published = preview.published
         /\ Bumped(Patch(s, r)).gen >= preview.gen
         /\ Bumped(Patch(s, r)).observed <= Bumped(Patch(s, r)).gen
<1> DEFINE p == Patch(s, r)
<1>1. preview \in PreviewType /\ asked \in Nat
  BY DEF TypeOK
<1>2. preview.gen \in Nat /\ preview.gen >= 1 /\ preview.observed \in Nat
  BY <1>1 DEF PreviewType
<1>0. Fields(preview) \in Nat
  BY DEF Fields
<1>3. CASE p = preview
  <2>1. Bumped(p) = preview
    BY <1>3 DEF Bumped
  <2>2. preview.gen + Fields(preview) <= 1 + 2 * a
    BY <1>0, <1>1, <1>2 DEF Budget
  <2> QED
    BY <1>1, <1>2, <2>1, <2>2 DEF Budget
<1>4. CASE p # preview
  <2>1. Fields(p) \in 0 .. 2
    BY DEF Fields
  <2>2. preview.gen + 1 \in 1 .. MaxGen
    BY <1>2, <1>4, <2>1 DEF MaxGen
  <2>3. /\ p \in PreviewType
        /\ p.observed = preview.observed /\ p.published = preview.published
    BY <1>1 DEF PreviewType, Patch
  <2>4. Bumped(p) = [p EXCEPT !.gen = preview.gen + 1]
    BY <1>4 DEF Bumped
  <2> HIDE DEF p
  <2>5. Bumped(p) \in PreviewType
    BY <2>2, <2>3, <2>4 DEF PreviewType
  <2>6. /\ Bumped(p).gen = preview.gen + 1 /\ Bumped(p).observed = preview.observed
        /\ Bumped(p).published = preview.published
        /\ Bumped(p).save = p.save /\ Bumped(p).restore = p.restore
    BY <2>3, <2>4 DEF PreviewType
  <2>7. Fields(Bumped(p)) = Fields(p)
    BY <2>6 DEF Fields
  <2>8. preview.gen + 1 + Fields(p) <= 1 + 2 * a
    BY <1>4 DEF p
  <2>9. /\ Bumped(p) \in PreviewType
        /\ Bumped(p).gen + Fields(Bumped(p)) <= 1 + 2 * a
        /\ Bumped(p).observed = preview.observed
        /\ Bumped(p).published = preview.published
        /\ Bumped(p).gen >= preview.gen
        /\ Bumped(p).observed <= Bumped(p).gen
    BY <1>2, <2>1, <2>5, <2>6, <2>7, <2>8 DEF Budget
  <2> QED
    BY <2>9 DEF p
<1> QED
  BY <1>3, <1>4

\* A status update writes the status and nothing of the spec.
LEMMA WrittenType ==
  ASSUME preview \in PreviewType, NEW q \in PreviewType
  PROVE  /\ Written(q) \in PreviewType
         /\ Written(q).gen = preview.gen /\ Written(q).observed = q.observed
         /\ Written(q).published = q.published
         /\ Fields(Written(q)) = Fields(preview)
<1> DEFINE w == Written(q)
<1>1. w \in PreviewType
  BY DEF Written, PreviewType
<1>2. w.gen = preview.gen /\ w.observed = q.observed /\ w.published = q.published
  BY DEF Written, PreviewType
<1>3. w.save = preview.save /\ w.restore = preview.restore
  BY DEF Written, PreviewType
<1>4. Fields(w) = Fields(preview)
  BY <1>3 DEF Fields
<1> QED
  BY <1>1, <1>2, <1>4

LEMMA NotedType ==
  ASSUME NEW p \in PreviewType, NEW q \in {Noted(p), Reset(p)}
  PROVE  /\ q \in PreviewType
         /\ q.gen = p.gen /\ q.observed = p.gen /\ q.published = p.published
         /\ q.save = p.save /\ q.restore = p.restore
BY DEF Noted, Reset, PreviewType

LEMMA SendBudget ==
  ASSUME TInv, NEW c \in Clients, Send(c)
  PROVE  /\ preview' \in PreviewType /\ Budget'
         /\ preview'.observed = preview.observed /\ preview'.gen >= preview.gen
         /\ preview'.published = preview.published
<1> DEFINE r == clients[c]
           want == [k \in Kinds |-> IF k = r.kind THEN r.name ELSE None]
           s == Patched(r.save, want["save"], preview.save)
           t == Patched(r.restore, want["restore"], preview.restore)
           p == Patch(s, t)
<1>1. preview \in PreviewType /\ r \in ClientType /\ asked \in Nat
  BY DEF TInv, TypeOK
<1>2. /\ r.name \in Names /\ r.kind \in Kinds
      /\ r.save \in Names \union {None} /\ r.restore \in Names \union {None}
  BY <1>1 DEF ClientType, Send
<1>3. want["save"] \in Names \union {None} /\ want["restore"] \in Names \union {None}
  BY <1>2 DEF Kinds
<1>4. want["save"] = None \/ want["restore"] = None
  BY <1>2 DEF Kinds
<1>5. preview.save \in Names \union {None} /\ preview.restore \in Names \union {None}
  BY <1>1 DEF PreviewType
<1> HIDE DEF want
<1>6. s \in Names \union {None} /\ t \in Names \union {None}
  BY <1>3, <1>5 DEF Patched
<1>7. asked' = asked + 1 /\ asked + 1 \in 0 .. MaxRequests /\ preview' = Bumped(p)
  BY <1>1 DEF Send, want, Patch
<1>8. (s = None \/ s = preview.save) \/ (t = None \/ t = preview.restore)
  BY <1>4 DEF Patched
<1> HIDE DEF s, t
<1>9. /\ p.save = s /\ p.restore = t /\ p.gen = preview.gen
      /\ p.observed = preview.observed /\ p.published = preview.published
  BY <1>1 DEF PreviewType, Patch
<1>10. Fields(p) <= Fields(preview) + 1 /\ Fields(p) \in Nat /\ Fields(preview) \in Nat
  BY <1>8, <1>9 DEF Fields
<1>11. preview.gen \in Nat /\ preview.observed \in Nat
  BY <1>1 DEF PreviewType
<1>12. preview.gen + 1 + Fields(p) <= 1 + 2 * (asked + 1)
  BY <1>1, <1>10, <1>11 DEF TInv, Budget
<1>14. PICK a \in 0 .. MaxRequests : a = asked + 1
  BY <1>7
<1>15. asked <= a /\ preview.gen + 1 + Fields(p) <= 1 + 2 * a
  BY <1>1, <1>12, <1>14
<1> HIDE DEF p
<1>16. /\ preview' \in PreviewType
       /\ preview'.gen + Fields(preview') <= 1 + 2 * a
       /\ preview'.observed = preview.observed /\ preview'.published = preview.published
       /\ preview'.gen >= preview.gen /\ preview'.observed <= preview'.gen
  BY <1>6, <1>7, <1>15, BumpedType DEF TInv, p
<1>17. Budget' <=> /\ preview'.gen + Fields(preview') <= 1 + 2 * asked'
                   /\ preview'.observed <= preview'.gen
  BY DEF Budget, Fields
<1> QED
  BY <1>7, <1>14, <1>16, <1>17

LEMMA ClearBudget ==
  ASSUME TInv, ClearRequest
  PROVE  /\ preview' \in PreviewType /\ Budget'
         /\ preview'.observed = preview.observed /\ preview'.gen >= preview.gen
         /\ preview'.published = preview.published
<1> DEFINE k == Kind(op.copy)
           s == IF k = "save" THEN None ELSE preview.save
           t == IF k = "save" THEN preview.restore ELSE None
           p == Patch(s, t)
<1>1. preview \in PreviewType /\ asked \in 0 .. MaxRequests /\ asked \in Nat
  BY DEF TInv, TypeOK
<1>2. s \in Names \union {None} /\ t \in Names \union {None}
  BY <1>1 DEF PreviewType
<1>3. p = Cleared(k)
  BY <1>1 DEF Cleared, PreviewType, Patch
<1>4. preview' = Bumped(p) /\ asked' = asked
  BY <1>3 DEF ClearRequest
<1>5. /\ s = None \/ s = preview.save
      /\ t = None \/ t = preview.restore
  OBVIOUS
<1> HIDE DEF s, t, k
<1>6. /\ p.save = s /\ p.restore = t /\ p.gen = preview.gen
      /\ p.observed = preview.observed /\ p.published = preview.published
  BY <1>1 DEF PreviewType, Patch
<1>7. Fields(p) \in Nat /\ Fields(preview) \in Nat /\ Fields(p) <= Fields(preview)
  BY <1>5, <1>6 DEF Fields
<1>8. ASSUME p # preview PROVE s # preview.save \/ t # preview.restore
  <2> SUFFICES ASSUME s = preview.save, t = preview.restore PROVE p = preview
    BY <1>8
  <2> QED
    BY <1>1 DEF PreviewType, Patch
<1>9. p # preview => Fields(p) + 1 <= Fields(preview)
  BY <1>5, <1>6, <1>8 DEF Fields
<1>10. preview.gen \in Nat
  BY <1>1 DEF PreviewType
<1>11. p # preview => preview.gen + 1 + Fields(p) <= 1 + 2 * asked
  BY <1>1, <1>7, <1>9, <1>10 DEF TInv, Budget
<1>12. /\ preview' \in PreviewType
       /\ preview'.gen + Fields(preview') <= 1 + 2 * asked
       /\ preview'.observed = preview.observed /\ preview'.published = preview.published
       /\ preview'.gen >= preview.gen /\ preview'.observed <= preview'.gen
  BY <1>1, <1>2, <1>4, <1>11, BumpedType DEF TInv
<1>13. Budget' <=> /\ preview'.gen + Fields(preview') <= 1 + 2 * asked'
                   /\ preview'.observed <= preview'.gen
  BY DEF Budget, Fields
<1> QED
  BY <1>4, <1>12, <1>13

\* A pass begins with a copy that is as current as the cache.
LEMMA BeginBudget ==
  ASSUME TInv, BeginPass
  PROVE  /\ preview' \in PreviewType /\ Budget'
         /\ preview'.observed >= preview.observed /\ preview'.gen >= preview.gen
         /\ preview'.published \subseteq preview.published \union view.published
         /\ op' \in PassType
         /\ op'.copy.published \union op'.listed \subseteq
              preview.published \union view.published \union op.copy.published \union op.listed
<1> DEFINE p == Seen
           q == IF p.gen = p.observed THEN p ELSE IF Pending(p) THEN Noted(p) ELSE Reset(p)
           b == [Idle EXCEPT !.pc = "pass", !.copy = q]
<1>1. preview \in PreviewType /\ view \in PreviewType /\ op \in PassType /\ asked \in Nat
  BY DEF TInv, TypeOK
<1>2. p \in PreviewType /\ (p = preview \/ p = view)
  BY <1>1 DEF Seen
<1>3. /\ q \in PreviewType /\ q.gen = p.gen /\ q.published = p.published
      /\ q = p \/ q.observed = p.gen
  BY <1>2, NotedType
<1>4. \/ (q = p \/ Accepted(p)) /\ op' = b /\ preview' = (IF q = p THEN preview ELSE Written(q))
      \/ preview' = preview /\ op' = op
  BY DEF BeginPass
<1>5. asked' = asked
  BY DEF BeginPass
<1> HIDE DEF p, q
<1>6. /\ b \in PassType
      /\ b.copy = q /\ b.listed = {}
  BY <1>3 DEF b, Idle, PassType
<1>7. CASE preview' = preview /\ op' = op
  BY <1>1, <1>5, <1>7 DEF TInv, Budget, Fields, PreviewType
<1>8. CASE op' = b /\ preview' = preview
  BY <1>1, <1>2, <1>3, <1>5, <1>6, <1>8 DEF TInv, Budget, Fields, PreviewType
<1>9. CASE op' = b /\ q # p /\ p = preview /\ preview' = Written(q)
  <2> DEFINE w == Written(q)
  <2>1. /\ w \in PreviewType
        /\ w.gen = preview.gen /\ w.observed = q.observed
        /\ w.published = q.published
        /\ Fields(w) = Fields(preview)
    BY <1>1, <1>3, WrittenType
  <2>2. q.observed = preview.gen
    BY <1>3, <1>9
  <2>3. preview' = w
    BY <1>9
  <2> HIDE DEF w
  <2>4. Fields(preview') = Fields(preview)
    BY <2>1, <2>3
  <2>5. Budget' <=> /\ preview'.gen + Fields(preview') <= 1 + 2 * asked'
                    /\ preview'.observed <= preview'.gen
    BY DEF Budget, Fields
  <2>6. preview.gen \in Nat /\ preview.observed \in Nat
    BY <1>1 DEF PreviewType
  <2>7. Budget' /\ preview'.observed >= preview.observed /\ preview'.gen >= preview.gen
    BY <1>5, <2>1, <2>2, <2>3, <2>4, <2>5, <2>6 DEF TInv, Budget
  <2> QED
    BY <1>2, <1>3, <1>6, <1>9, <2>1, <2>3, <2>7
<1> QED
  BY <1>4, <1>7, <1>8, <1>9 DEF Accepted

LEMMA PublishBudget ==
  ASSUME TInv, Publish
  PROVE  /\ preview' \in PreviewType /\ Budget'
         /\ preview'.observed >= preview.observed /\ preview'.gen >= preview.gen
         /\ preview'.published \subseteq preview.published \union op.listed
<1> DEFINE q == Published(op.copy)
           w == Written(q)
<1>1. preview \in PreviewType /\ op \in PassType /\ asked \in Nat
  BY DEF TInv, TypeOK
<1>2. op.copy \in PreviewType /\ op.listed \subseteq Names /\ op.wasReady \in BOOLEAN
  BY <1>1 DEF PassType
<1>3. q \in PreviewType /\ q.observed = op.copy.gen /\ q.published = op.listed
  BY <1>2 DEF Published, Noted, PreviewType
<1>4. \/ preview' = preview
      \/ op.copy = preview /\ preview' = w
  BY DEF Publish, Accepted
<1>5. asked' = asked
  BY DEF Publish
<1> HIDE DEF q
<1>6. preview.gen \in Nat /\ preview.observed \in Nat
  BY <1>1 DEF PreviewType
<1>7. CASE preview' = preview
  BY <1>1, <1>5, <1>6, <1>7 DEF TInv, Budget, Fields
<1>8. CASE op.copy = preview /\ preview' = w
  <2>1. /\ w \in PreviewType
        /\ w.gen = preview.gen /\ w.observed = q.observed
        /\ w.published = q.published
        /\ Fields(w) = Fields(preview)
    BY <1>1, <1>3, WrittenType
  <2> HIDE DEF w
  <2>2. Fields(preview') = Fields(preview)
    BY <1>8, <2>1
  <2>3. Budget' <=> /\ preview'.gen + Fields(preview') <= 1 + 2 * asked'
                    /\ preview'.observed <= preview'.gen
    BY DEF Budget, Fields
  <2>4. Budget' /\ preview'.observed >= preview.observed /\ preview'.gen >= preview.gen
    BY <1>3, <1>5, <1>6, <1>8, <2>1, <2>2, <2>3 DEF TInv, Budget
  <2> QED
    BY <1>3, <1>8, <2>1, <2>4
<1> QED
  BY <1>4, <1>7, <1>8

\* The steps that leave the Preview alone.
Elsewhere ==
  \/ EndPass \/ CreateJob \/ StoreDump \/ DeleteJob \/ Refresh \/ Abort
  \/ \E c \in Clients :
       \/ \E kind \in Kinds \union {"api"}, n \in Names : Read(c, kind, n)
       \/ Acknowledge(c) \/ GiveUp(c)
       \/ ApiRestoreStarts(c) \/ ApiRestoreWipes(c) \/ ApiRestoreFails(c) \/ ApiRestoreEnds(c)
  \/ Cluster \/ UNCHANGED vars

LEMMA NextCases ==
  [Next]_vars => \/ BeginPass \/ ClearRequest \/ Publish
                 \/ \E c \in Clients : Send(c)
                 \/ Elsewhere
BY DEF Next, Pass, ClientStep, Elsewhere

LEMMA ElsewherePreview ==
  ASSUME TInv, Elsewhere
  PROVE  preview' = preview /\ asked' \in 0 .. MaxRequests /\ asked' >= asked
<1>1. asked \in 0 .. MaxRequests
  BY DEF TInv, TypeOK
<1>2. CASE EndPass \/ CreateJob \/ StoreDump \/ DeleteJob \/ Refresh \/ Abort
  BY <1>1, <1>2 DEF EndPass, CreateJob, StoreDump, DeleteJob, Refresh, Abort
<1>3. ASSUME NEW c \in Clients,
             \/ \E kind \in Kinds \union {"api"}, n \in Names : Read(c, kind, n)
             \/ Acknowledge(c) \/ GiveUp(c)
             \/ ApiRestoreWipes(c) \/ ApiRestoreFails(c) \/ ApiRestoreEnds(c)
      PROVE  preview' = preview /\ asked' = asked
  BY <1>3 DEF Read, Acknowledge, GiveUp, ApiRestoreWipes, ApiRestoreFails, ApiRestoreEnds
<1>4. ASSUME NEW c \in Clients, ApiRestoreStarts(c)
      PROVE  preview' = preview /\ asked' = asked + 1 /\ asked < MaxRequests
  BY <1>4 DEF ApiRestoreStarts
<1>5. CASE Cluster
  <2>1. ASSUME NEW n \in Names, SaveSucceeds(n) \/ RestoreWipes(n) \/ RestoreSucceeds(n)
        PROVE  preview' = preview /\ asked' = asked
    BY <2>1 DEF SaveSucceeds, RestoreWipes, RestoreSucceeds
  <2>2. ASSUME NEW k \in Kinds, NEW n \in Names,
               JobFails(k, n) \/ JobExpires(k, n) \/ JobCollected(k, n)
        PROVE  preview' = preview /\ asked' = asked
    BY <2>2 DEF JobFails, JobExpires, JobCollected
  <2>3. CacheSync \/ AppWrites => preview' = preview /\ asked' = asked
    BY DEF CacheSync, AppWrites
  <2> QED
    BY <1>1, <1>5, <2>1, <2>2, <2>3 DEF Cluster
<1>6. CASE UNCHANGED vars
  BY <1>1, <1>6 DEF vars
<1> QED
  BY <1>1, <1>2, <1>3, <1>4, <1>5, <1>6 DEF Elsewhere

LEMMA PreviewStep ==
  ASSUME TInv, [Next]_vars
  PROVE  /\ preview' \in PreviewType /\ Budget'
         /\ asked' \in 0 .. MaxRequests
         /\ preview'.observed >= preview.observed /\ preview'.gen >= preview.gen
         /\ preview'.published \subseteq preview.published \union view.published \union op.listed
<1>1. preview \in PreviewType /\ asked \in 0 .. MaxRequests
  BY DEF TInv, TypeOK
<1>2. preview.gen \in Nat /\ preview.observed \in Nat
  BY <1>1 DEF PreviewType
<1>3. CASE BeginPass
  BY <1>1, <1>3, BeginBudget DEF BeginPass
<1>4. CASE ClearRequest
  BY <1>1, <1>2, <1>4, ClearBudget DEF ClearRequest
<1>5. CASE Publish
  BY <1>1, <1>5, PublishBudget DEF Publish
<1>6. CASE \E c \in Clients : Send(c)
  <2>1. asked' \in 0 .. MaxRequests
    BY <1>1, <1>6 DEF Send
  <2> QED
    BY <1>2, <1>6, <2>1, SendBudget
<1>7. CASE Elsewhere
  <2>1. preview' = preview /\ asked' \in 0 .. MaxRequests /\ asked' >= asked
    BY <1>7, ElsewherePreview
  <2>2. Fields(preview) \in Nat
    BY DEF Fields
  <2>3. Budget' <=> /\ preview'.gen + Fields(preview') <= 1 + 2 * asked'
                    /\ preview'.observed <= preview'.gen
    BY DEF Budget, Fields
  <2>4. Budget'
    BY <1>1, <1>2, <2>1, <2>2, <2>3 DEF TInv, Budget
  <2> QED
    BY <1>1, <1>2, <2>1, <2>4
<1> QED
  BY <1>3, <1>4, <1>5, <1>6, <1>7, NextCases

LEMMA JobsType ==
  ASSUME jobs \in [Kinds -> [Names -> JobType]],
         NEW k \in Kinds, NEW n \in Names, NEW j \in JobType
  PROVE  /\ [jobs EXCEPT ![k][n] = j] \in [Kinds -> [Names -> JobType]]
         /\ \A l \in Kinds, m \in Names :
              [jobs EXCEPT ![k][n] = j][l][m] = IF l = k /\ m = n THEN j ELSE jobs[l][m]
OBVIOUS

\* What a step makes of the Jobs: one of them changes, if any.
JobStep ==
  \/ jobs' = jobs
  \/ \E k \in Kinds, n \in Names, j \in JobType :
       /\ jobs' = [jobs EXCEPT ![k][n] = j]
       /\ \/ j.st \in {"absent", "failed"}
          \/ j.st = jobs[k][n].st /\ j.dump = jobs[k][n].dump
          \/ k = "save" /\ j.st = "succeeded" /\ j.dump \in Data
          \/ k = "save" /\ j.st = "active"
          \/ k = "restore" /\ j.st = "active" /\ n \in Known
          \/ k = "restore" /\ j.st = "midway" /\ jobs[k][n].st = "active"
          \/ k = "restore" /\ j.st = "succeeded"

LEMMA NoJobType ==
  /\ NoJob \in JobType /\ NoJob.st = "absent"
  /\ NewJob \in JobType /\ NewJob.st = "active"
<1>1. NoDump \in Dumps
  BY DEF Dumps, NoDump
<1>2. NoJob \in JobType /\ NoJob.st = "absent"
  BY <1>1 DEF NoJob, JobType
<1>3. NewJob \in JobType /\ NewJob.st = "active"
  BY <1>2 DEF NewJob, JobType
<1> QED
  BY <1>2, <1>3

\* The Job a pass works on.
LEMMA PassJob ==
  ASSUME TInv, Pending(op.copy)
  PROVE  Kind(op.copy) \in Kinds /\ Name(op.copy) \in Names
<1>1. op.copy \in PreviewType
  BY DEF TInv, TypeOK, PassType
<1> QED
  BY <1>1 DEF Kind, Name, Pending, Kinds, PreviewType

LEMMA JobsStep ==
  ASSUME TInv, [Next]_vars
  PROVE  JobStep
<1>1. /\ jobs \in [Kinds -> [Names -> JobType]]
      /\ \A k \in Kinds, n \in Names : jobs[k][n] \in JobType
      /\ "save" \in Kinds /\ "restore" \in Kinds
  BY DEF TInv, TypeOK, Kinds
<1>2. db \in Data /\ asked \in 0 .. MaxRequests /\ Data \subseteq Dumps
  BY DataDumps DEF TInv, TypeOK
<1>3. CASE CreateJob
  <2>1. Pending(op.copy)
    BY <1>3 DEF CreateJob, Refused
  <2>2. Kind(op.copy) = "restore" => Name(op.copy) \in Known
    BY <1>3 DEF CreateJob, Refused
  <2>3. jobs' = [jobs EXCEPT ![Kind(op.copy)][Name(op.copy)] = NewJob]
    BY <1>3 DEF CreateJob
  <2> QED
    BY <2>1, <2>2, <2>3, PassJob, NoJobType DEF JobStep, Kinds
<1>4. CASE DeleteJob
  <2> DEFINE k == Kind(op.copy)
             n == Name(op.copy)
             j == IF SlowGC /\ jobs[k][n].st # "absent" THEN [jobs[k][n] EXCEPT !.term = TRUE]
                  ELSE NoJob
  <2>1. k \in Kinds /\ n \in Names
    BY <1>4, PassJob DEF TInv, Backed, DeleteJob
  <2>2. jobs' = [jobs EXCEPT ![k][n] = j]
    BY <1>1, <1>4, <2>1 DEF DeleteJob
  <2>3. /\ j \in JobType
        /\ \/ j.st = "absent"
           \/ j.st = jobs[k][n].st /\ j.dump = jobs[k][n].dump
    BY <1>1, <2>1, NoJobType DEF JobType
  <2> HIDE DEF k, n, j
  <2> QED
    BY <2>1, <2>2, <2>3 DEF JobStep
<1>5. ASSUME NEW n \in Names, SaveSucceeds(n)
      PROVE  JobStep
  <2> DEFINE j == [jobs["save"][n] EXCEPT !.st = "succeeded", !.dump = db, !.taken = asked]
  <2>1. jobs' = [jobs EXCEPT !["save"][n] = j]
    BY <1>1, <1>5 DEF SaveSucceeds
  <2>2. j \in JobType /\ j.st = "succeeded" /\ j.dump = db
    BY <1>1, <1>2, ZenonT(60) DEF JobType
  <2> HIDE DEF j
  <2> QED
    BY <1>1, <1>2, <2>1, <2>2 DEF JobStep
<1>6. ASSUME NEW n \in Names, RestoreWipes(n)
      PROVE  JobStep
  <2> DEFINE j == [jobs["restore"][n] EXCEPT !.st = "midway"]
  <2>1. jobs' = [jobs EXCEPT !["restore"][n] = j] /\ jobs["restore"][n].st = "active"
    BY <1>1, <1>6 DEF RestoreWipes
  <2>2. j \in JobType /\ j.st = "midway"
    BY <1>1 DEF JobType
  <2> HIDE DEF j
  <2> QED
    BY <1>1, <2>1, <2>2 DEF JobStep
<1>7. ASSUME NEW n \in Names, RestoreSucceeds(n)
      PROVE  JobStep
  <2> DEFINE j == [jobs["restore"][n] EXCEPT !.st = "succeeded"]
  <2>1. jobs' = [jobs EXCEPT !["restore"][n] = j]
    BY <1>1, <1>7 DEF RestoreSucceeds
  <2>2. j \in JobType /\ j.st = "succeeded"
    BY <1>1 DEF JobType
  <2> HIDE DEF j
  <2> QED
    BY <1>1, <2>1, <2>2 DEF JobStep
<1>8. ASSUME NEW k \in Kinds, NEW n \in Names, JobFails(k, n)
      PROVE  JobStep
  <2> DEFINE j == [jobs[k][n] EXCEPT !.st = "failed"]
  <2>1. jobs' = [jobs EXCEPT ![k][n] = j]
    BY <1>1, <1>8 DEF JobFails
  <2>2. j \in JobType /\ j.st = "failed"
    BY <1>1 DEF JobType
  <2> HIDE DEF j
  <2> QED
    BY <2>1, <2>2 DEF JobStep
<1>9. ASSUME NEW k \in Kinds, NEW n \in Names, JobExpires(k, n) \/ JobCollected(k, n)
      PROVE  JobStep
  <2>1. jobs' = [jobs EXCEPT ![k][n] = NoJob]
    BY <1>9 DEF JobExpires, JobCollected
  <2> QED
    BY <2>1, NoJobType DEF JobStep
<1>10. ASSUME NEW c \in Clients, ClientStep(c)
       PROVE  jobs' = jobs
  BY <1>10 DEF ClientStep, Read, Send, Acknowledge, GiveUp, ApiRestoreStarts, ApiRestoreWipes,
               ApiRestoreFails, ApiRestoreEnds
<1>11. BeginPass \/ EndPass \/ StoreDump \/ ClearRequest \/ Refresh \/ Publish \/ Abort
         => jobs' = jobs
  BY DEF BeginPass, EndPass, StoreDump, ClearRequest, Refresh, Publish, Abort
<1>12. CacheSync \/ AppWrites \/ UNCHANGED vars => jobs' = jobs
  BY DEF CacheSync, AppWrites, vars
<1> QED
  BY <1>3, <1>4, <1>5, <1>6, <1>7, <1>8, <1>9, <1>10, <1>11, <1>12
     DEF Next, Pass, Cluster, JobStep

\* What a step makes of the ConfigMaps: a save's dump is stored, nothing is lost.
LEMMA StoredStep ==
  ASSUME TInv, [Next]_vars
  PROVE  /\ cms' \in [Names -> CMType]
         /\ \A n \in Names : Exists(n) => cms'[n].dump # NoDump
<1>1. /\ cms \in [Names -> CMType]
      /\ \A k \in Kinds, n \in Names : jobs[k][n] \in JobType
  BY DEF TInv, TypeOK
<1>2. CASE StoreDump
  <2> DEFINE n == Name(op.copy)
             j == Job(op.copy)
  <2>1. Pending(op.copy) /\ j.st = "succeeded"
    BY <1>2 DEF StoreDump, Refused, Finished
  <2>2. CASE Kind(op.copy) = "restore"
    BY <1>1, <1>2, <2>2 DEF StoreDump, Exists
  <2>3. CASE Kind(op.copy) = "save"
    <3>1. n \in Names /\ j = jobs["save"][n] /\ j \in JobType
      BY <1>1, <2>1, <2>3, PassJob DEF Job
    <3>2. j.dump \in Data
      BY <2>1, <3>1 DEF TInv, Backed
    <3>3. j.dump # NoDump /\ [dump |-> j.dump, taken |-> j.taken] \in CMType
      BY <3>1, <3>2, DataDumps DEF JobType, CMType
    <3>4. cms' = [cms EXCEPT ![n] = [dump |-> j.dump, taken |-> j.taken]]
      BY <1>2, <2>3 DEF StoreDump, Stored
    <3> HIDE DEF n, j
    <3> QED
      BY <1>1, <3>1, <3>3, <3>4 DEF Exists
  <2> QED
    BY <2>1, <2>2, <2>3, PassJob DEF Kinds
<1>3. ~StoreDump => cms' = cms
  <2>1. ASSUME NEW c \in Clients, ClientStep(c)
        PROVE  cms' = cms
    BY <2>1 DEF ClientStep, Read, Send, Acknowledge, GiveUp, ApiRestoreStarts, ApiRestoreWipes,
                ApiRestoreFails, ApiRestoreEnds
  <2>2. BeginPass \/ EndPass \/ CreateJob \/ DeleteJob \/ ClearRequest \/ Refresh \/ Publish \/ Abort
          => cms' = cms
    BY DEF BeginPass, EndPass, CreateJob, DeleteJob, ClearRequest, Refresh, Publish, Abort
  <2>3. ASSUME NEW n \in Names, SaveSucceeds(n) \/ RestoreWipes(n) \/ RestoreSucceeds(n)
        PROVE  cms' = cms
    BY <2>3 DEF SaveSucceeds, RestoreWipes, RestoreSucceeds
  <2>4. ASSUME NEW k \in Kinds, NEW n \in Names,
               JobFails(k, n) \/ JobExpires(k, n) \/ JobCollected(k, n)
        PROVE  cms' = cms
    BY <2>4 DEF JobFails, JobExpires, JobCollected
  <2>5. CacheSync \/ AppWrites \/ UNCHANGED vars => cms' = cms
    BY DEF CacheSync, AppWrites, vars
  <2> QED
    BY <2>1, <2>2, <2>3, <2>4, <2>5 DEF Next, Pass, Cluster
<1> QED
  BY <1>1, <1>2, <1>3 DEF Exists

\* What a step makes of the pass: its copy is the Preview or the cached one, its
\* list what the cache shows.
LEMMA PassStep ==
  ASSUME TInv, [Next]_vars
  PROVE  /\ op' \in PassType
         /\ op'.copy.published \union op'.listed \subseteq
              preview.published \union view.published \union op.copy.published \union op.listed
                \union Known
         /\ op'.pc \in {"stored", "deleted"} => Pending(op'.copy)
<1>1. preview \in PreviewType /\ view \in PreviewType /\ op \in PassType /\ seen \subseteq Names
  BY DEF TInv, TypeOK
<1>2. op.copy \in PreviewType /\ op.listed \subseteq Names /\ Known \subseteq Names
  BY <1>1 DEF PassType, Known
<1>3. /\ Idle \in PassType /\ Idle.copy.published = {} /\ Idle.listed = {} /\ Idle.pc = "idle"
  <2>1. Preview0 \in PreviewType /\ Preview0.published = {}
    BY DEF Preview0, PreviewType, MaxGen
  <2> QED
    BY <2>1 DEF Idle, PassType
<1>4. op.pc \in {"stored", "deleted"} => Pending(op.copy)
  BY DEF TInv, Backed
<1>5. CASE BeginPass
  <2>1. op' \in PassType
    BY <1>5, BeginBudget
  <2>2. op'.pc \in {"stored", "deleted"} => Pending(op'.copy)
    BY <1>4, <1>5 DEF BeginPass, Idle
  <2> QED
    BY <1>5, <2>1, <2>2, BeginBudget
<1>6. CASE EndPass \/ CreateJob \/ Publish \/ Abort
  BY <1>3, <1>6 DEF EndPass, CreateJob, Publish, Abort
<1>7. CASE StoreDump
  <2>1. Pending(op.copy) /\ op' = [op EXCEPT !.pc = "stored"]
    BY <1>7 DEF StoreDump, Refused
  <2> QED
    BY <1>1, <2>1 DEF PassType
<1>8. CASE DeleteJob
  <2>1. Pending(op.copy) /\ op' = [op EXCEPT !.pc = "deleted"]
    BY <1>4, <1>8 DEF DeleteJob
  <2> QED
    BY <1>1, <2>1 DEF PassType
<1>9. CASE ClearRequest
  <2>1. WasReady(op.copy) \in BOOLEAN
    BY <1>2 DEF WasReady, PreviewType
  <2>2. op' = [op EXCEPT !.pc = "cleared", !.wasReady = WasReady(op.copy)]
    BY <1>9 DEF ClearRequest
  <2> QED
    BY <1>1, <2>1, <2>2 DEF PassType
<1>10. CASE Refresh
  <2>1. op' = [op EXCEPT !.pc = "refreshed", !.copy = preview, !.listed = Known]
    BY <1>10 DEF Refresh
  <2> QED
    BY <1>1, <1>2, <2>1 DEF PassType
<1>11. ASSUME op' = op
       PROVE  /\ op' \in PassType
              /\ op'.copy.published \union op'.listed \subseteq
                   preview.published \union view.published \union op.copy.published \union op.listed
                     \union Known
              /\ op'.pc \in {"stored", "deleted"} => Pending(op'.copy)
  BY <1>1, <1>4, <1>11
<1>12. ASSUME NEW c \in Clients, ClientStep(c)
       PROVE  op' = op
  BY <1>12 DEF ClientStep, Read, Send, Acknowledge, GiveUp, ApiRestoreStarts, ApiRestoreWipes,
               ApiRestoreFails, ApiRestoreEnds
<1>13. ASSUME NEW n \in Names, SaveSucceeds(n) \/ RestoreWipes(n) \/ RestoreSucceeds(n)
       PROVE  op' = op
  BY <1>13 DEF SaveSucceeds, RestoreWipes, RestoreSucceeds
<1>14. ASSUME NEW k \in Kinds, NEW n \in Names,
              JobFails(k, n) \/ JobExpires(k, n) \/ JobCollected(k, n)
       PROVE  op' = op
  BY <1>14 DEF JobFails, JobExpires, JobCollected
<1>15. CacheSync \/ AppWrites \/ UNCHANGED vars => op' = op
  BY DEF CacheSync, AppWrites, vars
<1> QED
  BY <1>5, <1>6, <1>7, <1>8, <1>9, <1>10, <1>11, <1>12, <1>13, <1>14, <1>15
     DEF Next, Pass, Cluster

\* What a step makes of a client: one of them changes, and gets to hold the name
\* of a checkpoint it restores from the published ones.
LEMMA ClientsStep ==
  ASSUME TInv, [Next]_vars
  PROVE  /\ clients' \in [Clients -> ClientType]
         /\ \A c \in Clients :
              /\ clients'[c].st = "read" /\ clients'[c].kind # "save" => Exists(clients'[c].name)
              /\ clients'[c].st \in {"restoring", "midway"} => Exists(clients'[c].name)
<1> DEFINE Known1(r) == /\ r.st = "read" /\ r.kind # "save" => Exists(r.name)
                        /\ r.st \in {"restoring", "midway"} => Exists(r.name)
<1>1. /\ clients \in [Clients -> ClientType]
      /\ \A c \in Clients : clients[c] \in ClientType /\ Known1(clients[c])
      /\ preview \in PreviewType /\ asked \in 0 .. MaxRequests
  BY DEF TInv, TypeOK, Backed
<1>2. ASSUME NEW c \in Clients, NEW r \in ClientType, Known1(r), clients' = [clients EXCEPT ![c] = r]
      PROVE  clients' \in [Clients -> ClientType] /\ \A d \in Clients : Known1(clients'[d])
  <2>1. \A d \in Clients : clients'[d] = IF d = c THEN r ELSE clients[d]
    BY <1>1, <1>2
  <2>2. \A d \in Clients : clients'[d] \in ClientType /\ Known1(clients'[d])
    BY <1>1, <1>2, <2>1
  <2> QED
    BY <1>1, <1>2, <2>2
<1>3. ASSUME NEW c \in Clients, NEW kind \in Kinds \union {"api"}, NEW n \in Names, Read(c, kind, n)
      PROVE  clients' \in [Clients -> ClientType] /\ \A d \in Clients : Known1(clients'[d])
  <2> DEFINE r == [st |-> "read", kind |-> kind, name |-> n, id |-> 0,
                   save |-> preview.save, restore |-> preview.restore]
  <2>1. clients' = [clients EXCEPT ![c] = r] /\ (kind # "save" => n \in preview.published)
    BY <1>3 DEF Read
  <2>2. preview.save \in Names \union {None} /\ preview.restore \in Names \union {None}
    BY <1>1 DEF PreviewType
  <2>3. r \in ClientType
    BY <2>2 DEF ClientType
  <2>4. Known1(r)
    BY <2>1 DEF TInv, Backed
  <2> HIDE DEF r, Known1
  <2> QED
    BY <1>2, <2>1, <2>3, <2>4
<1>4. ASSUME NEW c \in Clients, Send(c)
      PROVE  clients' \in [Clients -> ClientType] /\ \A d \in Clients : Known1(clients'[d])
  <2> DEFINE s == IF clients[c].kind = "save" THEN "waiting" ELSE "idle"
             r == [clients[c] EXCEPT !.st = s, !.id = asked + 1]
  <2>1. clients' = [clients EXCEPT ![c] = r]
    BY <1>1, <1>4 DEF Send
  <2>2. asked + 1 \in 0 .. MaxRequests
    BY <1>1, <1>4 DEF Send
  <2>3. r \in ClientType /\ r.st \in {"waiting", "idle"}
    BY <1>1, <2>2 DEF ClientType
  <2>4. Known1(r)
    BY <2>3
  <2> HIDE DEF r, Known1
  <2> QED
    BY <1>2, <2>1, <2>3, <2>4
<1>5. ASSUME NEW c \in Clients, NEW s \in {"acked", "idle"}, clients' = [clients EXCEPT ![c].st = s]
      PROVE  clients' \in [Clients -> ClientType] /\ \A d \in Clients : Known1(clients'[d])
  <2> DEFINE r == [clients[c] EXCEPT !.st = s]
  <2>1. clients' = [clients EXCEPT ![c] = r]
    BY <1>1, <1>5
  <2>2. r \in ClientType /\ r.st \in {"acked", "idle"}
    BY <1>1 DEF ClientType
  <2>3. Known1(r)
    BY <2>2
  <2> HIDE DEF r, Known1
  <2> QED
    BY <1>2, <2>1, <2>2, <2>3
<1>6. ASSUME NEW c \in Clients, ApiRestoreStarts(c)
      PROVE  clients' \in [Clients -> ClientType] /\ \A d \in Clients : Known1(clients'[d])
  <2> DEFINE r == [clients[c] EXCEPT !.st = "restoring", !.id = asked + 1]
  <2>1. clients' = [clients EXCEPT ![c] = r]
    BY <1>1, <1>6 DEF ApiRestoreStarts
  <2>2. asked + 1 \in 0 .. MaxRequests
    BY <1>1, <1>6 DEF ApiRestoreStarts
  <2>3. r \in ClientType /\ r.name = clients[c].name /\ r.st = "restoring"
    BY <1>1, <2>2 DEF ClientType
  <2>4. Exists(clients[c].name)
    BY <1>1, <1>6 DEF ApiRestoreStarts
  <2>5. Known1(r)
    BY <2>3, <2>4
  <2> HIDE DEF r, Known1
  <2> QED
    BY <1>2, <2>1, <2>3, <2>5
<1>7. ASSUME NEW c \in Clients, ApiRestoreWipes(c)
      PROVE  clients' \in [Clients -> ClientType] /\ \A d \in Clients : Known1(clients'[d])
  <2> DEFINE r == [clients[c] EXCEPT !.st = "midway"]
  <2>1. clients' = [clients EXCEPT ![c] = r]
    BY <1>1, <1>7 DEF ApiRestoreWipes
  <2>2. r \in ClientType /\ r.name = clients[c].name /\ r.st = "midway"
    BY <1>1 DEF ClientType
  <2>3. Exists(clients[c].name)
    BY <1>1, <1>7 DEF ApiRestoreWipes
  <2>4. Known1(r)
    BY <2>2, <2>3
  <2> HIDE DEF r, Known1
  <2> QED
    BY <1>2, <2>1, <2>2, <2>4
<1>8. ASSUME NEW c \in Clients, Acknowledge(c) \/ GiveUp(c) \/ ApiRestoreFails(c) \/ ApiRestoreEnds(c)
      PROVE  \E s \in {"acked", "idle"} : clients' = [clients EXCEPT ![c].st = s]
  BY <1>8 DEF Acknowledge, GiveUp, ApiRestoreFails, ApiRestoreEnds
<1>9. Pass \/ Abort \/ Cluster \/ UNCHANGED vars => clients' = clients
  <2>1. Pass \/ Abort => clients' = clients
    BY DEF Pass, Abort, BeginPass, EndPass, CreateJob, StoreDump, DeleteJob, ClearRequest,
           Refresh, Publish
  <2>2. ASSUME NEW n \in Names, SaveSucceeds(n) \/ RestoreWipes(n) \/ RestoreSucceeds(n)
        PROVE  clients' = clients
    BY <2>2 DEF SaveSucceeds, RestoreWipes, RestoreSucceeds
  <2>3. ASSUME NEW k \in Kinds, NEW n \in Names,
               JobFails(k, n) \/ JobExpires(k, n) \/ JobCollected(k, n)
        PROVE  clients' = clients
    BY <2>3 DEF JobFails, JobExpires, JobCollected
  <2>4. CacheSync \/ AppWrites \/ UNCHANGED vars => clients' = clients
    BY DEF CacheSync, AppWrites, vars
  <2> QED
    BY <2>1, <2>2, <2>3, <2>4 DEF Cluster
<1> QED
  <2> HIDE DEF Known1
  <2>1. clients' \in [Clients -> ClientType] /\ \A d \in Clients : Known1(clients'[d])
    <3>1. ASSUME NEW c \in Clients, ClientStep(c)
          PROVE  clients' \in [Clients -> ClientType] /\ \A d \in Clients : Known1(clients'[d])
      BY <1>3, <1>4, <1>5, <1>6, <1>7, <1>8, <3>1 DEF ClientStep
    <3> QED
      BY <1>1, <1>9, <3>1 DEF Next
  <2> QED
    BY <2>1 DEF Known1

LEMMA RestStep ==
  ASSUME TInv, [Next]_vars
  PROVE  /\ db' \in Data /\ writes' \in 0 .. MaxWrites /\ aborts' \in 0 .. MaxAborts
         /\ suiteJobs' \in BOOLEAN
         /\ view' \in {view, preview} /\ seen' \in {seen, {n \in Names : Exists(n)}}
<1>1. /\ db \in Data /\ writes \in 0 .. MaxWrites /\ aborts \in 0 .. MaxAborts
      /\ suiteJobs \in BOOLEAN /\ Torn \in Data
      /\ \A n \in Names : Exists(n) => cms[n].dump \in Data
  BY DataDumps DEF TInv, TypeOK, CMType, Exists
<1>2. ASSUME NEW c \in Clients, ClientStep(c)
      PROVE  db' \in Data /\ UNCHANGED <<view, seen, suiteJobs, writes, aborts>>
  <2>1. /\ clients[c] \in ClientType /\ clients[c].name \in Names
        /\ clients[c].st = "midway" => Exists(clients[c].name)
    BY DEF TInv, TypeOK, ClientType, Backed
  <2>2. CASE ApiRestoreEnds(c)
    BY <1>1, <2>1, <2>2 DEF ApiRestoreEnds
  <2>3. CASE ApiRestoreWipes(c)
    BY <1>1, <2>3 DEF ApiRestoreWipes
  <2>4. CASE ~ApiRestoreEnds(c) /\ ~ApiRestoreWipes(c)
    BY <1>1, <1>2, <2>4 DEF ClientStep, Read, Send, Acknowledge, GiveUp, ApiRestoreStarts,
                            ApiRestoreFails
  <2> QED
    BY <2>2, <2>3, <2>4
<1>3. ASSUME Pass
      PROVE  UNCHANGED <<db, view, seen, writes, aborts>> /\ suiteJobs' \in BOOLEAN
  <2>1. CASE BeginPass
    BY <1>1, <2>1 DEF BeginPass
  <2>2. CASE ~BeginPass
    BY <1>1, <1>3, <2>2 DEF Pass, EndPass, CreateJob, StoreDump, DeleteJob, ClearRequest, Refresh,
                            Publish
  <2> QED
    BY <2>1, <2>2
<1>4. Abort => UNCHANGED <<db, view, seen, writes, suiteJobs>> /\ aborts' \in 0 .. MaxAborts
  BY <1>1 DEF Abort
<1>5. ASSUME NEW n \in Names, SaveSucceeds(n) \/ RestoreWipes(n) \/ RestoreSucceeds(n)
      PROVE  db' \in Data /\ UNCHANGED <<view, seen, suiteJobs, writes, aborts>>
  <2>1. jobs["restore"][n].st = "midway" => Exists(n)
    BY DEF TInv, Backed
  <2> QED
    BY <1>1, <1>5, <2>1 DEF SaveSucceeds, RestoreWipes, RestoreSucceeds
<1>6. ASSUME NEW k \in Kinds, NEW n \in Names,
             JobFails(k, n) \/ JobExpires(k, n) \/ JobCollected(k, n)
      PROVE  UNCHANGED <<db, view, seen, suiteJobs, writes, aborts>>
  BY <1>6 DEF JobFails, JobExpires, JobCollected
<1>7. CacheSync => /\ UNCHANGED <<db, suiteJobs, writes, aborts>>
                   /\ view' \in {view, preview} /\ seen' \in {seen, {n \in Names : Exists(n)}}
  BY DEF CacheSync
<1>8. AppWrites => /\ db' \in Data /\ writes' \in 0 .. MaxWrites
                   /\ UNCHANGED <<view, seen, suiteJobs, aborts>>
  BY <1>1 DEF AppWrites, Data, Torn
<1>9. UNCHANGED vars => UNCHANGED <<db, view, seen, suiteJobs, writes, aborts>>
  BY DEF vars
<1> QED
  BY <1>1, <1>2, <1>3, <1>4, <1>5, <1>6, <1>7, <1>8, <1>9 DEF Next, Cluster

LEMMA MishapsStep ==
  ASSUME TInv, [Next]_vars
  PROVE  mishaps' \subseteq Mishaps /\ mishaps \subseteq mishaps'
<1>1. mishaps \subseteq Mishaps
  BY DEF TInv, TypeOK
<1>2. ASSUME NEW e \in Mishaps, NEW b, Note(e, b)
      PROVE  mishaps' \subseteq Mishaps /\ mishaps \subseteq mishaps'
  BY <1>1, <1>2 DEF Note
<1>3. {"crossed", "revived", "dying", "told", "cut", "between"} = Mishaps
  BY DEF Mishaps
<1>4. ASSUME NEW c \in Clients, ClientStep(c)
      PROVE  \/ mishaps' = mishaps
             \/ Note("crossed", Crossing(c)) \/ Note("told", TRUE)
  BY <1>4 DEF ClientStep, Read, Send, Acknowledge, GiveUp, ApiRestoreStarts, ApiRestoreWipes,
              ApiRestoreFails, ApiRestoreEnds
<1>5. ASSUME Pass \/ Abort
      PROVE  mishaps' = mishaps \/ \E e \in Mishaps, b \in BOOLEAN : Note(e, b)
  <2>1. BeginPass => LET p == Seen
                     IN  Note("between", p # preview /\ p.gen # p.observed /\ ~Pending(p))
    BY DEF BeginPass
  <2>2. CreateJob => Note("revived", preview[Kind(op.copy)] # Name(op.copy))
    BY DEF CreateJob
  <2>3. StoreDump => Note("dying", Job(op.copy).term)
    BY DEF StoreDump
  <2>4. Abort => Note("cut", op.pc \in {"cleared", "refreshed"})
    BY DEF Abort
  <2>5. EndPass \/ DeleteJob \/ ClearRequest \/ Refresh \/ Publish => mishaps' = mishaps
    BY DEF EndPass, DeleteJob, ClearRequest, Refresh, Publish
  <2>6. \A e, b : Note(e, b) => Note(e, b = TRUE)
    BY DEF Note
  <2> QED
    BY <1>3, <1>5, <2>1, <2>2, <2>3, <2>4, <2>5, <2>6 DEF Pass
<1>6. Cluster \/ UNCHANGED vars => mishaps' = mishaps
  BY DEF Cluster, CacheSync, AppWrites, SaveSucceeds, RestoreWipes, RestoreSucceeds, JobFails,
         JobExpires, JobCollected, vars
<1> QED
  BY <1>1, <1>2, <1>3, <1>4, <1>5, <1>6 DEF Next

LEMMA TInvStep == TInv /\ [Next]_vars => TInv'
<1> SUFFICES ASSUME TInv, [Next]_vars PROVE TInv'
  OBVIOUS
<1>1. /\ preview \in PreviewType /\ view \in PreviewType /\ seen \subseteq Names
      /\ jobs \in [Kinds -> [Names -> JobType]]
      /\ op \in PassType
  BY DEF TInv, TypeOK
<1>2. jobs' \in [Kinds -> [Names -> JobType]]
  BY <1>1, JobsStep, JobsType DEF JobStep
<1>3. TypeOK'
  <2>1. view' \in PreviewType /\ seen' \subseteq Names
    BY <1>1, RestStep
  <2> QED
    BY <1>2, <2>1, PreviewStep, PassStep, StoredStep, ClientsStep, RestStep,
       MishapsStep DEF TypeOK
<1>4. \A n \in Names : Exists(n) => Exists(n)'
  BY StoredStep DEF Exists
<1>5. Known \subseteq Names /\ \A n \in Known : Exists(n)
  BY <1>1 DEF Known, TInv, Backed
<1>6. /\ preview.published \subseteq Names /\ view.published \subseteq Names
      /\ op.copy.published \subseteq Names /\ op.listed \subseteq Names
  BY <1>1 DEF PreviewType, PassType
<1>7. \A n \in Names : (\/ n \in seen \union Known \union preview.published \union view.published
                        \/ n \in op.copy.published \union op.listed) => Exists(n)'
  BY <1>1, <1>4, <1>5, <1>6 DEF TInv, Backed
<1>8. \A n \in seen' : Exists(n)'
  <2>1. CASE seen' = seen
    BY <1>1, <1>7, <2>1
  <2>2. CASE seen' = {n \in Names : Exists(n)}
    BY <1>4, <2>2
  <2> QED
    BY <2>1, <2>2, RestStep
<1>9. \A n \in preview'.published \union view'.published : Exists(n)'
  <2>1. view' = view \/ view' = preview
    BY RestStep
  <2>2. preview'.published \subseteq preview.published \union view.published \union op.listed
    BY PreviewStep
  <2> QED
    BY <1>6, <1>7, <2>1, <2>2
<1>10. \A n \in op'.copy.published \union op'.listed : Exists(n)'
  BY <1>5, <1>6, <1>7, PassStep
<1>11. (op.pc \in {"stored", "deleted"} => Pending(op.copy))'
  <2>1. op'.pc \in {"stored", "deleted"} => Pending(op'.copy)
    BY PassStep
  <2> QED
    BY <2>1 DEF Pending
<1>12. \A m \in Names : /\ jobs'["save"][m].st = "succeeded" => jobs'["save"][m].dump \in Data
                        /\ jobs'["restore"][m].st \in {"active", "midway"} => Exists(m)'
  <2>1. /\ "save" \in Kinds /\ "restore" \in Kinds /\ "save" # "restore"
        /\ \A m \in Names :
             /\ jobs["save"][m].st = "succeeded" => jobs["save"][m].dump \in Data
             /\ jobs["restore"][m].st \in {"active", "midway"} => Exists(m)
    BY DEF TInv, Backed, Kinds
  <2>2. CASE jobs' = jobs
    BY <1>4, <2>1, <2>2
  <2>3. CASE jobs' # jobs
    <3>1. PICK k \in Kinds, n \in Names, j \in JobType :
            /\ jobs' = [jobs EXCEPT ![k][n] = j]
            /\ \/ j.st \in {"absent", "failed"}
               \/ j.st = jobs[k][n].st /\ j.dump = jobs[k][n].dump
               \/ k = "save" /\ j.st = "succeeded" /\ j.dump \in Data
               \/ k = "save" /\ j.st = "active"
               \/ k = "restore" /\ j.st = "active" /\ n \in Known
               \/ k = "restore" /\ j.st = "midway" /\ jobs[k][n].st = "active"
               \/ k = "restore" /\ j.st = "succeeded"
      BY <2>3, JobsStep DEF JobStep
    <3>2. \A l \in Kinds, m \in Names : jobs'[l][m] = IF l = k /\ m = n THEN j ELSE jobs[l][m]
      BY <1>1, <3>1, JobsType
    <3>3. k = "save" /\ j.st = "succeeded" => j.dump \in Data
      BY <2>1, <3>1
    <3>4. k = "restore" /\ j.st \in {"active", "midway"} => Exists(n)
      BY <1>5, <2>1, <3>1
    <3> QED
      BY <1>4, <2>1, <3>2, <3>3, <3>4
  <2> QED
    BY <2>2, <2>3
<1>13. ASSUME NEW c \in Clients
       PROVE  /\ clients'[c].st = "read" /\ clients'[c].kind # "save"
                   => cms'[clients'[c].name].dump # NoDump
              /\ clients'[c].st \in {"restoring", "midway"}
                   => cms'[clients'[c].name].dump # NoDump
  <2>1. clients'[c].name \in Names
    BY ClientsStep DEF ClientType
  <2>2. Exists(clients'[c].name) => cms'[clients'[c].name].dump # NoDump
    BY <1>4, <2>1 DEF Exists
  <2> QED
    BY <2>2, ClientsStep
<1>14. Backed'
  BY <1>8, <1>9, <1>10, <1>11, <1>12, <1>13 DEF Backed, Exists
<1> QED
  BY <1>3, <1>14, PreviewStep DEF TInv

LEMMA TInvAlways == Spec => []TInv
BY InitTInv, TInvStep, PTL DEF Spec

\* Every reachable state is well typed: in particular no pass, however stale its
\* copy, and no restore brings back contents that were never stored.
THEOREM TypeCorrect == Spec => []TypeOK
<1>1. TInv => TypeOK
  BY DEF TInv
<1> QED
  BY <1>1, TInvAlways, PTL

\* The generation and the observed generation never go back, whichever status
\* update or patch comes from a stale copy (resetDerivedStateForNewGeneration and
\* clearCheckpointRequest write them).
THEOREM ObservedForwardAlways == Spec => ObservedForward
<1>1. TInv /\ [Next]_vars => [preview'.observed >= preview.observed /\ preview'.gen >= preview.gen]_vars
  BY PreviewStep
<1> QED
  BY <1>1, TInvAlways, PTL DEF Spec, ObservedForward

\* A checkpoint the status lists is stored, whatever the caches show, so that a
\* restore the extension lets through has a dump to replay.
ListedIsStored == \A n \in preview.published : Exists(n)

THEOREM ListedIsStoredAlways == Spec => []ListedIsStored
<1>1. TInv => ListedIsStored
  BY DEF TInv, Backed, ListedIsStored
<1> QED
  BY <1>1, TInvAlways, PTL

(***************************************************************************)
(* One request at a time                                                   *)
(*                                                                         *)
(* Any number of clients, caches that lag, Jobs that linger, passes and    *)
(* restores that fail: as long as no request is sent across another one,   *)
(* no Job is created for a request already served and no result is taken   *)
(* from a Job that is being deleted, the request in the spec, the Job that *)
(* serves it and the pass that works on it belong together.                *)
(***************************************************************************)
Sound == mishaps \intersect {"crossed", "revived", "dying"} = {}

Wanted(k) == IF k = "save" THEN preview.save ELSE preview.restore

Live(k, n) == jobs[k][n].st # "absent" /\ jobs[k][n].term = FALSE

Serving == op.pc \in {"stored", "deleted"}

Requested ==
  /\ preview.save = None \/ preview.restore = None
  /\ \A k \in Kinds, n \in Names : Live(k, n) => Wanted(k) = n
  /\ \A k \in Kinds, n \in Names : jobs[k][n].term = TRUE => jobs[k][n].st = "succeeded"
  /\ Serving => Wanted(Kind(op.copy)) = Name(op.copy)
  /\ op.pc = "stored" => Job(op.copy).st \in {"succeeded", "absent"}
  /\ op.pc = "deleted" => ~Live(Kind(op.copy), Name(op.copy))
  /\ Pending(preview) => \A c \in Clients : clients[c].st \notin {"restoring", "midway"}

\* A checkpoint that is stored, and was asked for before it was taken.
Has(n, i) == cms[n].dump # NoDump /\ cms[n].taken >= i

Fresh ==
  /\ \A n \in Names : Live("save", n) /\ jobs["save"][n].st = "succeeded"
                        => jobs["save"][n].taken = asked
  /\ Serving /\ Kind(op.copy) = "save" => Has(Name(op.copy), asked)

\* What a client can rely on in each of its states.
Promised(r) ==
  /\ r.id <= asked
  /\ r.st = "waiting" => preview.save = r.name \/ Has(r.name, r.id)
  /\ r.st = "acked" => Has(r.name, r.id)

Whole ==
  /\ \A n \in Names : cms[n].dump # Torn /\ jobs["save"][n].dump # Torn
  /\ \A n \in Names : Live("restore", n) /\ jobs["restore"][n].st = "succeeded" => db # Torn
  /\ Serving /\ Kind(op.copy) = "restore" => db # Torn
  /\ db = Torn => \/ preview.restore # None
                  \/ \E c \in Clients : clients[c].st = "midway"

Core == /\ Requested /\ Fresh /\ (\A c \in Clients : Promised(clients[c]))
        /\ "told" \notin mishaps => Whole

SInv == Sound => Core

LEMMA InitSInv == Init => SInv
<1> SUFFICES ASSUME Init PROVE Core
  BY DEF SInv
<1>1. /\ preview.save = None /\ preview.restore = None
      /\ op.pc = "idle" /\ db = 0 /\ asked = 0
      /\ \A k \in Kinds, n \in Names : jobs[k][n] = NoJob
      /\ \A n \in Names : cms[n].dump = NoDump
      /\ \A c \in Clients : clients[c].st = "idle" /\ clients[c].id = 0
  BY DEF Init, Preview0, Idle, NoRequest
<1>2. /\ NoJob.st = "absent" /\ NoJob.dump = NoDump /\ NoJob.term = FALSE
      /\ NoDump # Torn /\ Torn # 0
      /\ "save" \in Kinds /\ "restore" \in Kinds
  BY DEF NoJob, NoDump, Torn, Kinds
<1>3. Requested
  BY <1>1, <1>2 DEF Requested, Serving, Live, Pending
<1>4. Fresh
  BY <1>1, <1>2 DEF Fresh, Serving, Live
<1>5. \A c \in Clients : Promised(clients[c])
  BY <1>1 DEF Promised
<1>6. Whole
  BY <1>1, <1>2 DEF Whole, Serving, Live
<1> QED
  BY <1>3, <1>4, <1>5, <1>6 DEF Core

LEMMA TwoKinds == "save" \in Kinds /\ "restore" \in Kinds /\ "save" # "restore"
                  /\ \A k \in Kinds : k = "save" \/ k = "restore"
BY DEF Kinds

\* With no request in the spec there is no live Job, and no pass that serves one.
LEMMA Quiet ==
  ASSUME TInv, Requested, ~Pending(preview)
  PROVE  /\ preview.save = None /\ preview.restore = None
         /\ ~Serving
         /\ \A k \in Kinds, n \in Names : ~Live(k, n)
<1>1. preview.save = None /\ preview.restore = None
  BY DEF Pending
<1>2. ASSUME Serving PROVE FALSE
  <2>1. Name(op.copy) \in Names
    BY <1>2, PassJob DEF Serving, TInv, Backed
  <2>2. Name(op.copy) = None
    BY <1>1, <1>2 DEF Requested, Wanted
  <2> QED
    BY <2>1, <2>2
<1>3. \A k \in Kinds, n \in Names : ~Live(k, n)
  BY <1>1 DEF Requested, Wanted
<1> QED
  BY <1>1, <1>2, <1>3

\* While a request is served, it is the one in the spec, and no Job of another
\* name or kind is live.
LEMMA Served ==
  ASSUME TInv, Requested, Serving
  PROVE  /\ Kind(op.copy) \in Kinds /\ Name(op.copy) \in Names
         /\ Pending(preview)
         /\ Kind(op.copy) = "save" => preview.save = Name(op.copy) /\ preview.restore = None
         /\ Kind(op.copy) = "restore" => preview.restore = Name(op.copy) /\ preview.save = None
         /\ \A l \in Kinds, m \in Names : Live(l, m) => l = Kind(op.copy) /\ m = Name(op.copy)
<1>1. Kind(op.copy) \in Kinds /\ Name(op.copy) \in Names
  BY PassJob DEF Serving, TInv, Backed
<1>2. /\ Kind(op.copy) = "save" => preview.save = Name(op.copy) /\ preview.restore = None
      /\ Kind(op.copy) = "restore" => preview.restore = Name(op.copy) /\ preview.save = None
  BY <1>1 DEF Requested, Wanted
<1>3. Pending(preview)
  BY <1>1, <1>2, TwoKinds DEF Pending
<1>4. ASSUME NEW l \in Kinds, NEW m \in Names, Live(l, m)
      PROVE  l = Kind(op.copy) /\ m = Name(op.copy)
  <2>1. Wanted(l) = m
    BY <1>4 DEF Requested
  <2> QED
    BY <1>1, <1>2, <2>1, TwoKinds DEF Wanted
<1> QED
  BY <1>1, <1>2, <1>3, <1>4

\* A step of the operator that neither serves a request nor changes one.
LEMMA Aside ==
  ASSUME TInv, Core, preview'.save = preview.save, preview'.restore = preview.restore,
         UNCHANGED <<jobs, cms, db, asked, clients>>, mishaps \subseteq mishaps',
         op'.pc \notin {"stored", "deleted"} \/ op' = op
  PROVE  Core'
<1>1. Requested'
  <2>1. Serving' => Serving /\ op' = op
    BY DEF Serving
  <2>2. op'.pc = "stored" => op.pc = "stored" /\ op' = op
    OBVIOUS
  <2>3. op'.pc = "deleted" => op.pc = "deleted" /\ op' = op
    OBVIOUS
  <2> QED
    BY <2>1, <2>2, <2>3 DEF Core, Requested, Wanted, Job, Kind, Name, Pending, Live
<1>2. Fresh'
  BY DEF Core, Fresh, Has, Live, Serving, Kind, Name
<1>3. \A c \in Clients : Promised(clients[c])'
  BY DEF Core, Promised, Has
<1>4. "told" \notin mishaps' => Whole'
  BY DEF Core, Whole, Live, Serving, Kind, Name
<1> QED
  BY <1>1, <1>2, <1>3, <1>4 DEF Core

LEMMA OperatorAside ==
  ASSUME TInv, Core, mishaps \subseteq mishaps',
         BeginPass \/ EndPass \/ Refresh \/ Publish \/ Abort \/ CacheSync \/ UNCHANGED vars
  PROVE  Core'
<1>1. preview \in PreviewType /\ op \in PassType
  BY DEF TInv, TypeOK
<1>2. Idle.pc = "idle"
  BY DEF Idle
<1>3. \A q : Written(q).save = preview.save /\ Written(q).restore = preview.restore
  BY <1>1 DEF Written, PreviewType
<1>4. CASE BeginPass
  <2>1. \/ op' = op
        \/ op'.pc = "pass"
    BY <1>4 DEF BeginPass, Idle
  <2>2. preview' = preview \/ \E q : preview' = Written(q)
    BY <1>4 DEF BeginPass
  <2>3. preview'.save = preview.save /\ preview'.restore = preview.restore
    BY <1>3, <2>2
  <2>4. UNCHANGED <<jobs, cms, db, asked, clients>>
    BY <1>4 DEF BeginPass
  <2> QED
    BY <2>1, <2>3, <2>4, Aside
<1>5. CASE EndPass \/ Abort
  <2>1. op'.pc = "idle" /\ UNCHANGED <<preview, jobs, cms, db, asked, clients>>
    BY <1>2, <1>5 DEF EndPass, Abort
  <2> QED
    BY <2>1, Aside
<1>6. CASE Refresh
  <2>1. op'.pc = "refreshed" /\ UNCHANGED <<preview, jobs, cms, db, asked, clients>>
    BY <1>1, <1>6 DEF Refresh, PassType
  <2> QED
    BY <2>1, Aside
<1>7. CASE Publish
  <2>1. op'.pc = "idle" /\ UNCHANGED <<jobs, cms, db, asked, clients>>
    BY <1>2, <1>7 DEF Publish
  <2>2. preview'.save = preview.save /\ preview'.restore = preview.restore
    BY <1>3, <1>7 DEF Publish
  <2> QED
    BY <2>1, <2>2, Aside
<1>8. CASE CacheSync \/ UNCHANGED vars
  <2>1. UNCHANGED <<preview, op, jobs, cms, db, asked, clients>>
    BY <1>8 DEF CacheSync, vars
  <2> QED
    BY <2>1, Aside
<1> QED
  BY <1>4, <1>5, <1>6, <1>7, <1>8

LEMMA CreateJobCore ==
  ASSUME TInv, Core, CreateJob, Sound', mishaps \subseteq mishaps'
  PROVE  Core'
<1> DEFINE k == Kind(op.copy)
           n == Name(op.copy)
<1>1. Pending(op.copy)
  BY DEF CreateJob, Refused
<1>2. k \in Kinds /\ n \in Names
  BY <1>1, PassJob
<1>3. Wanted(k) = n
  <2>1. Note("revived", preview[k] # n)
    BY DEF CreateJob
  <2>2. preview[k] = n
    BY <2>1 DEF Note, Sound
  <2> HIDE DEF k, n
  <2> QED
    BY <1>2, <2>2, TwoKinds DEF Wanted
<1>4. /\ jobs' = [jobs EXCEPT ![k][n] = NewJob] /\ op'.pc = "idle"
      /\ UNCHANGED <<preview, cms, db, asked, clients>>
  BY DEF CreateJob, Idle
<1> HIDE DEF k, n
<1>5. \A l \in Kinds, m \in Names : jobs'[l][m] = IF l = k /\ m = n THEN NewJob ELSE jobs[l][m]
  BY <1>2, <1>4, JobsType, NoJobType DEF TInv, TypeOK
<1>6. NewJob.st = "active" /\ NewJob.term = FALSE /\ NewJob.dump # Torn
  BY DEF NewJob, NoJob, NoDump, Torn
<1>7. ~Serving'
  BY <1>4 DEF Serving
<1>8. Requested'
  <2>1. \A l \in Kinds, m \in Names : Live(l, m)' => Wanted(l)' = m
    BY <1>3, <1>4, <1>5 DEF Core, Requested, Live, Wanted
  <2>2. \A l \in Kinds, m \in Names : jobs'[l][m].term = TRUE => jobs'[l][m].st = "succeeded"
    BY <1>5, <1>6 DEF Core, Requested
  <2> QED
    BY <1>4, <1>7, <2>1, <2>2 DEF Core, Requested, Serving, Pending
<1>9. Fresh'
  BY <1>4, <1>5, <1>6, <1>7, TwoKinds DEF Core, Fresh, Live
<1>10. \A c \in Clients : Promised(clients[c])'
  BY <1>4 DEF Core, Promised, Has
<1>11. "told" \notin mishaps' => Whole'
  BY <1>4, <1>5, <1>6, <1>7, TwoKinds DEF Core, Whole, Live
<1> QED
  BY <1>8, <1>9, <1>10, <1>11 DEF Core

LEMMA StoreDumpCore ==
  ASSUME TInv, Core, StoreDump, Sound', mishaps \subseteq mishaps'
  PROVE  Core'
<1> DEFINE k == Kind(op.copy)
           n == Name(op.copy)
           j == Job(op.copy)
<1>1. Pending(op.copy) /\ j.st = "succeeded"
  BY DEF StoreDump, Refused, Finished
<1>2. k \in Kinds /\ n \in Names
  BY <1>1, PassJob
<1>3. j = jobs[k][n] /\ j \in JobType
  BY <1>2 DEF Job, TInv, TypeOK
<1>4. j.term = FALSE
  <2>1. Note("dying", j.term)
    BY DEF StoreDump
  <2>2. ~j.term
    BY <2>1 DEF Note, Sound
  <2>3. j.term \in BOOLEAN
    BY <1>3 DEF JobType
  <2> HIDE DEF j
  <2> QED
    BY <2>2, <2>3
<1>5. Live(k, n) /\ Wanted(k) = n
  BY <1>1, <1>2, <1>3, <1>4 DEF Live, Core, Requested
<1>6. /\ op'.pc = "stored" /\ op'.copy = op.copy
      /\ UNCHANGED <<preview, jobs, db, asked, clients>>
  BY DEF StoreDump, TInv, TypeOK, PassType
<1>7. Kind(op'.copy) = k /\ Name(op'.copy) = n /\ Job(op.copy)' = j
  BY <1>6 DEF Job, Kind, Name
<1>8. Serving' /\ Kind(op.copy)' = k /\ Name(op.copy)' = n
  BY <1>6 DEF Serving, Kind, Name
<1>9. Requested'
  <2>1. Job(op.copy)'.st = "succeeded"
    BY <1>1, <1>7
  <2> QED
    BY <1>5, <1>6, <1>8, <2>1 DEF Core, Requested, Live, Wanted, Pending
<1>10. cms \in [Names -> CMType] /\ asked \in Nat
  BY DEF TInv, TypeOK
<1>11. CASE k = "save"
  <2>1. j.taken = asked /\ j.dump # NoDump
    BY <1>1, <1>2, <1>3, <1>5, <1>11, DataDumps DEF Core, Fresh, TInv, Backed
  <2>2. cms' = [cms EXCEPT ![n] = [dump |-> j.dump, taken |-> j.taken]]
    BY <1>11 DEF StoreDump, Stored
  <2>3. "told" \notin mishaps => j.dump # Torn
    BY <1>2, <1>3, <1>11 DEF Core, Whole
  <2> HIDE DEF j, n, k
  <2>4. \A m \in Names : cms'[m] = IF m = n THEN [dump |-> j.dump, taken |-> j.taken] ELSE cms[m]
    BY <1>2, <1>10, <2>2
  <2>5. cms'[n].dump # NoDump /\ cms'[n].taken = asked
    BY <1>2, <2>1, <2>4
  <2>6. Fresh'
    <3>1. cms'[n].dump # NoDump /\ cms'[n].taken >= asked'
      BY <1>6, <1>10, <2>5
    <3>2. Has(Name(op.copy), asked)'
      BY <1>8, <3>1 DEF Has
    <3>3. \A m \in Names : Live("save", m)' /\ jobs'["save"][m].st = "succeeded"
                             => jobs'["save"][m].taken = asked'
      BY <1>6 DEF Core, Fresh, Live
    <3> QED
      BY <3>2, <3>3 DEF Fresh
  <2>7. ASSUME NEW c \in Clients PROVE Promised(clients[c])'
    <3>1. Promised(clients[c]) /\ clients[c] \in ClientType
      BY DEF Core, TInv, TypeOK
    <3>2. clients[c].name \in Names /\ clients[c].id \in Nat
      BY <3>1 DEF ClientType
    <3>3. Has(clients[c].name, clients[c].id) => Has(clients[c].name, clients[c].id)'
      BY <1>6, <1>10, <2>4, <2>5, <3>1, <3>2 DEF Has, Promised
    <3> QED
      BY <1>6, <3>1, <3>3 DEF Promised, Has
  <2>8. "told" \notin mishaps' => Whole'
    BY <1>6, <1>8, <1>11, <2>3, <2>4, TwoKinds DEF Core, Whole, Live
  <2> QED
    BY <1>9, <2>6, <2>7, <2>8 DEF Core
<1>12. CASE k = "restore"
  <2>1. cms' = cms
    BY <1>12 DEF StoreDump
  <2>2. "told" \notin mishaps => db # Torn
    BY <1>1, <1>2, <1>3, <1>5, <1>12 DEF Core, Whole
  <2> HIDE DEF j, n, k
  <2>3. Fresh'
    BY <1>6, <1>8, <1>12, <2>1, TwoKinds DEF Core, Fresh, Has, Live
  <2>4. \A c \in Clients : Promised(clients[c])'
    BY <1>6, <2>1 DEF Core, Promised, Has
  <2>5. "told" \notin mishaps' => Whole'
    BY <1>6, <1>8, <2>1, <2>2 DEF Core, Whole, Live
  <2> QED
    BY <1>9, <2>3, <2>4, <2>5 DEF Core
<1> QED
  BY <1>2, <1>11, <1>12, TwoKinds

LEMMA DeleteJobCore ==
  ASSUME TInv, Core, DeleteJob, mishaps \subseteq mishaps'
  PROVE  Core'
<1> DEFINE k == Kind(op.copy)
           n == Name(op.copy)
           j == IF SlowGC /\ jobs[k][n].st # "absent" THEN [jobs[k][n] EXCEPT !.term = TRUE]
                ELSE NoJob
<1>1. op.pc = "stored" /\ Serving /\ Requested
  BY DEF DeleteJob, Serving, Core
<1>2. /\ k \in Kinds /\ n \in Names /\ Wanted(k) = n
      /\ \A l \in Kinds, m \in Names : Live(l, m) => l = k /\ m = n
  BY <1>1, Served DEF Requested
<1>3. jobs \in [Kinds -> [Names -> JobType]] /\ jobs[k][n] \in JobType
  BY <1>2 DEF TInv, TypeOK
<1>4. /\ jobs' = [jobs EXCEPT ![k][n] = j]
      /\ op'.pc = "deleted" /\ op'.copy = op.copy
      /\ UNCHANGED <<preview, cms, db, asked, clients>>
  BY <1>2, <1>3 DEF DeleteJob, TInv, TypeOK, PassType
<1>5. Serving' /\ Kind(op.copy)' = k /\ Name(op.copy)' = n
  BY <1>4 DEF Serving, Kind, Name
<1>6. jobs[k][n].st \in {"succeeded", "absent"}
  BY <1>1 DEF Requested, Job
<1>7. j \in JobType /\ j.dump \in {jobs[k][n].dump, NoDump}
  BY <1>3, NoJobType DEF JobType, NoJob
<1>8. \/ j.st = "absent" /\ j.term = FALSE
      \/ j.st = "succeeded" /\ j.term = TRUE
  BY <1>3, <1>6 DEF JobType, NoJob
<1> HIDE DEF k, n, j
<1>9. \A l \in Kinds, m \in Names : jobs'[l][m] = IF l = k /\ m = n THEN j ELSE jobs[l][m]
  BY <1>2, <1>3, <1>4, <1>7, JobsType
<1>10. \A l \in Kinds, m \in Names : ~Live(l, m)'
  <2> SUFFICES ASSUME NEW l \in Kinds, NEW m \in Names PROVE ~Live(l, m)'
    OBVIOUS
  <2>1. CASE l = k /\ m = n
    BY <1>8, <1>9, <2>1 DEF Live
  <2>2. CASE ~(l = k /\ m = n)
    BY <1>2, <1>9, <2>2 DEF Live
  <2> QED
    BY <2>1, <2>2
<1>11. \A l \in Kinds, m \in Names : jobs'[l][m].term = TRUE => jobs'[l][m].st = "succeeded"
  BY <1>1, <1>8, <1>9 DEF Requested
<1>12. Requested'
  BY <1>1, <1>2, <1>4, <1>5, <1>10, <1>11 DEF Requested, Wanted, Pending
<1>13. Fresh'
  BY <1>1, <1>4, <1>5, <1>10, TwoKinds DEF k, n, Core, Fresh, Has
<1>14. \A c \in Clients : Promised(clients[c])'
  BY <1>4 DEF Core, Promised, Has
<1>15. "told" \notin mishaps' => Whole'
  <2>1. \A m \in Names : "told" \notin mishaps => jobs'["save"][m].dump # Torn
    BY <1>7, <1>9, TwoKinds DEF Core, Whole, NoDump, Torn
  <2> QED
    BY <1>1, <1>4, <1>5, <1>10, <2>1, TwoKinds DEF k, Core, Whole
<1> QED
  BY <1>12, <1>13, <1>14, <1>15 DEF Core

LEMMA ClearRequestCore ==
  ASSUME TInv, Core, ClearRequest, mishaps \subseteq mishaps'
  PROVE  Core'
<1> DEFINE k == Kind(op.copy)
           n == Name(op.copy)
<1>1. op.pc = "deleted" /\ Serving /\ Requested
  BY DEF ClearRequest, Serving, Core
<1>2. /\ k \in Kinds /\ n \in Names /\ Pending(preview)
      /\ k = "save" => preview.save = n /\ preview.restore = None
      /\ k = "restore" => preview.restore = n /\ preview.save = None
      /\ \A l \in Kinds, m \in Names : Live(l, m) => l = k /\ m = n
  BY <1>1, Served
<1>3. \A l \in Kinds, m \in Names : ~Live(l, m)
  BY <1>1, <1>2 DEF Requested
<1>4. op'.pc = "cleared" /\ UNCHANGED <<jobs, cms, db, asked, clients>>
  BY DEF ClearRequest, TInv, TypeOK, PassType
<1>5. ~Serving' /\ \A l \in Kinds, m \in Names : ~Live(l, m)'
  BY <1>3, <1>4 DEF Serving, Live
<1>6. preview'.save = None /\ preview'.restore = None
  <2> DEFINE p == Cleared(k)
  <2>1. preview \in PreviewType
    BY DEF TInv, TypeOK
  <2>2. p.save = None /\ p.restore = None /\ p \in PreviewType
    BY <1>2, <2>1, TwoKinds DEF Cleared, PreviewType
  <2>3. preview' = Bumped(p)
    BY DEF ClearRequest
  <2> HIDE DEF p
  <2> QED
    BY <2>2, <2>3 DEF Bumped, PreviewType
<1>7. Requested'
  BY <1>1, <1>4, <1>5, <1>6 DEF Requested, Serving, Pending
<1>8. Fresh'
  BY <1>5, TwoKinds DEF Fresh
<1>9. ASSUME NEW c \in Clients PROVE Promised(clients[c])'
  <2>1. Promised(clients[c]) /\ clients[c].name \in Names /\ clients[c].id \in Nat /\ asked \in Nat
    BY DEF Core, TInv, TypeOK, ClientType
  <2>2. clients[c].st = "waiting" => Has(clients[c].name, clients[c].id)
    <3> SUFFICES ASSUME clients[c].st = "waiting", preview.save = clients[c].name
                 PROVE  Has(clients[c].name, clients[c].id)
      BY <2>1 DEF Promised
    <3>1. k = "save" /\ n = clients[c].name
      BY <1>2, <2>1, TwoKinds
    <3>2. Has(n, asked) /\ cms[n].taken \in Nat
      BY <1>1, <1>2, <3>1 DEF Core, Fresh, TInv, TypeOK, CMType
    <3> QED
      BY <2>1, <3>1, <3>2 DEF Promised, Has
  <2> QED
    BY <1>4, <2>1, <2>2 DEF Promised, Has
<1>10. "told" \notin mishaps' => Whole'
  <2> SUFFICES ASSUME "told" \notin mishaps' PROVE Whole'
    OBVIOUS
  <2>1. Whole
    BY DEF Core
  <2>2. db # Torn
    <3>1. CASE k = "restore"
      BY <1>1, <2>1, <3>1 DEF Whole
    <3>2. CASE k = "save"
      BY <1>1, <1>2, <2>1, <3>2 DEF Whole, Requested
    <3> QED
      BY <1>2, <3>1, <3>2, TwoKinds
  <2> QED
    BY <1>4, <1>5, <2>1, <2>2, TwoKinds DEF Whole
<1> QED
  BY <1>7, <1>8, <1>9, <1>10 DEF Core

\* A step of one client that starts nothing.
LEMMA ClientAside ==
  ASSUME TInv, Core, UNCHANGED <<preview, op, jobs, cms, asked>>, mishaps \subseteq mishaps',
         NEW c \in Clients, NEW r \in ClientType, clients' = [clients EXCEPT ![c] = r],
         Promised(r),
         r.st \in {"restoring", "midway"} => clients[c].st \in {"restoring", "midway"},
         "told" \notin mishaps' => (db' = Torn => db = Torn \/ r.st = "midway"),
         "told" \notin mishaps' => (db' = Torn => (clients[c].st = "midway" => r.st = "midway")),
         db' = Torn /\ db # Torn => ~Pending(preview)
  PROVE  Core'
<1>1. \A d \in Clients : clients'[d] = IF d = c THEN r ELSE clients[d]
  BY DEF TInv, TypeOK
<1>2. Requested'
  BY <1>1, SMTT(30) DEF Core, Requested, Live, Wanted, Serving, Job, Kind, Name, Pending
<1>3. Fresh'
  BY DEF Core, Fresh, Has, Live, Serving, Kind, Name
<1>4. ASSUME NEW d \in Clients PROVE Promised(clients[d])'
  <2>1. Promised(clients'[d])
    BY <1>1 DEF Core
  <2> QED
    BY <2>1 DEF Promised, Has
<1>5. "told" \notin mishaps' => Whole'
  <2> SUFFICES ASSUME "told" \notin mishaps' PROVE Whole'
    OBVIOUS
  <2>1. Whole
    BY DEF Core
  <2>2. ~Pending(preview) => ~Serving /\ \A k \in Kinds, n \in Names : ~Live(k, n)
    BY Quiet DEF Core
  <2>3. \A n \in Names : Live("restore", n) /\ jobs["restore"][n].st = "succeeded" => db' # Torn
    BY <2>1, <2>2, TwoKinds DEF Whole
  <2>4. Serving /\ Kind(op.copy) = "restore" => db' # Torn
    BY <2>1, <2>2 DEF Whole
  <2>5. db' = Torn => \/ preview.restore # None
                      \/ \E d \in Clients : clients'[d].st = "midway"
    BY <1>1, <2>1 DEF Whole
  <2> QED
    BY <2>1, <2>3, <2>4, <2>5 DEF Whole, Live, Serving, Kind
<1> QED
  BY <1>2, <1>3, <1>4, <1>5 DEF Core

LEMMA ClientCore ==
  ASSUME TInv, Core, mishaps \subseteq mishaps',
         NEW c \in Clients, ClientStep(c), ~Send(c), ~ApiRestoreStarts(c)
  PROVE  Core'
<1>1. /\ clients \in [Clients -> ClientType] /\ clients[c] \in ClientType
      /\ preview \in PreviewType /\ asked \in Nat
  BY DEF TInv, TypeOK
<1>2. Promised(clients[c])
  BY DEF Core
<1>3. ASSUME NEW kind \in Kinds \union {"api"}, NEW n \in Names, Read(c, kind, n)
      PROVE  Core'
  <2> DEFINE r == [st |-> "read", kind |-> kind, name |-> n, id |-> 0,
                   save |-> preview.save, restore |-> preview.restore]
  <2>1. /\ clients' = [clients EXCEPT ![c] = r] /\ clients[c].st \in {"idle", "acked"}
        /\ UNCHANGED <<preview, op, jobs, cms, db, asked>>
    BY <1>3 DEF Read
  <2>2. preview.save \in Names \union {None} /\ preview.restore \in Names \union {None}
    BY <1>1 DEF PreviewType
  <2>3. r \in ClientType /\ r.st = "read" /\ r.id = 0
    BY <2>2 DEF ClientType
  <2>4. Promised(r)
    BY <1>1, <2>3 DEF Promised
  <2> HIDE DEF r
  <2> QED
    BY <2>1, <2>3, <2>4, ClientAside
<1>4. ASSUME NEW s \in {"acked", "idle"}, clients' = [clients EXCEPT ![c].st = s]
      PROVE  \E r \in ClientType : /\ clients' = [clients EXCEPT ![c] = r]
                                   /\ r.st = s /\ r.name = clients[c].name /\ r.id = clients[c].id
  <2> DEFINE r == [clients[c] EXCEPT !.st = s]
  <2>1. r \in ClientType /\ r.st = s /\ r.name = clients[c].name /\ r.id = clients[c].id
    BY <1>1 DEF ClientType
  <2>2. clients' = [clients EXCEPT ![c] = r]
    BY <1>1, <1>4
  <2> QED
    BY <2>1, <2>2
<1>5. CASE Acknowledge(c)
  <2>1. /\ clients[c].st = "waiting" /\ preview.save = None
        /\ clients' = [clients EXCEPT ![c].st = "acked"]
        /\ UNCHANGED <<preview, op, jobs, cms, db, asked>>
    BY <1>5 DEF Acknowledge
  <2>2. PICK r \in ClientType : /\ clients' = [clients EXCEPT ![c] = r]
                                /\ r.st = "acked" /\ r.name = clients[c].name /\ r.id = clients[c].id
    BY <1>4, <2>1
  <2>3. Promised(r)
    BY <1>1, <1>2, <2>1, <2>2 DEF Promised, ClientType
  <2> QED
    BY <2>1, <2>2, <2>3, ClientAside
<1>6. CASE GiveUp(c) \/ ApiRestoreFails(c)
  <2>1. /\ clients[c].st = "waiting" \/ "told" \in mishaps'
        /\ clients' = [clients EXCEPT ![c].st = "idle"]
        /\ UNCHANGED <<preview, op, jobs, cms, db, asked>>
    BY <1>6 DEF GiveUp, ApiRestoreFails, Note
  <2>2. PICK r \in ClientType : /\ clients' = [clients EXCEPT ![c] = r]
                                /\ r.st = "idle" /\ r.name = clients[c].name /\ r.id = clients[c].id
    BY <1>4, <2>1
  <2>3. Promised(r)
    BY <1>2, <2>2 DEF Promised
  <2> QED
    BY <2>1, <2>2, <2>3, ClientAside
<1>7. CASE ApiRestoreWipes(c)
  <2> DEFINE r == [clients[c] EXCEPT !.st = "midway"]
  <2>1. /\ clients[c].st = "restoring" /\ clients' = [clients EXCEPT ![c] = r]
        /\ UNCHANGED <<preview, op, jobs, cms, asked>>
    BY <1>1, <1>7 DEF ApiRestoreWipes
  <2>2. r \in ClientType /\ r.st = "midway" /\ r.id = clients[c].id
    BY <1>1 DEF ClientType
  <2>3. Promised(r)
    BY <1>2, <2>2 DEF Promised
  <2>4. ~Pending(preview)
    BY <2>1 DEF Core, Requested
  <2> HIDE DEF r
  <2> QED
    BY <2>1, <2>2, <2>3, <2>4, ClientAside
<1>8. CASE ApiRestoreEnds(c)
  <2>1. /\ clients[c].st = "midway" /\ clients' = [clients EXCEPT ![c].st = "idle"]
        /\ db' = cms[clients[c].name].dump
        /\ UNCHANGED <<preview, op, jobs, cms, asked>>
    BY <1>8 DEF ApiRestoreEnds
  <2>2. PICK r \in ClientType : /\ clients' = [clients EXCEPT ![c] = r]
                                /\ r.st = "idle" /\ r.name = clients[c].name /\ r.id = clients[c].id
    BY <1>4, <2>1
  <2>3. Promised(r)
    BY <1>2, <2>2 DEF Promised
  <2>4. "told" \notin mishaps' => db' # Torn
    BY <1>1, <2>1 DEF Core, Whole, ClientType
  <2>5. ~Pending(preview)
    BY <2>1 DEF Core, Requested
  <2> QED
    BY <2>1, <2>2, <2>3, <2>4, <2>5, ClientAside
<1> QED
  BY <1>3, <1>5, <1>6, <1>7, <1>8 DEF ClientStep

\* What a client starts, it starts while nothing else is under way.
LEMMA NotCrossing ==
  ASSUME TInv, Core, NEW c \in Clients, clients[c].st = "read", ~Crossing(c)
  PROVE  /\ preview.save = None /\ preview.restore = None /\ ~Pending(preview)
         /\ clients[c].save = None /\ clients[c].restore = None
         /\ ~Serving /\ \A k \in Kinds, n \in Names : ~Live(k, n)
         /\ \A d \in Clients : clients[d].st \notin {"restoring", "midway"}
<1>1. ~Pending(preview) /\ clients[c].save = None /\ clients[c].restore = None
  BY DEF Crossing, Pending
<1>2. \A d \in Clients : clients[d].st \notin {"restoring", "midway"}
  BY DEF Crossing
<1> QED
  BY <1>1, <1>2, Quiet DEF Core

LEMMA ApiRestoreStartsCore ==
  ASSUME TInv, Core, Sound', mishaps \subseteq mishaps', NEW c \in Clients, ApiRestoreStarts(c)
  PROVE  Core'
<1>1. ~Crossing(c)
  <2>1. Note("crossed", Crossing(c))
    BY DEF ApiRestoreStarts
  <2> QED
    BY <2>1 DEF Note, Sound
<1>2. clients[c].st = "read"
  BY DEF ApiRestoreStarts
<1>3. /\ preview.save = None /\ preview.restore = None /\ ~Pending(preview)
      /\ ~Serving /\ \A k \in Kinds, n \in Names : ~Live(k, n)
      /\ \A d \in Clients : clients[d].st \notin {"restoring", "midway"}
  BY <1>1, <1>2, NotCrossing
<1>4. /\ UNCHANGED <<preview, op, jobs, cms, db>> /\ asked' = asked + 1 /\ asked \in Nat
  BY DEF ApiRestoreStarts, TInv, TypeOK
<1>5. ~Serving' /\ \A k \in Kinds, n \in Names : ~Live(k, n)'
  BY <1>3, <1>4 DEF Serving, Live
<1>6. Requested'
  BY <1>3, <1>4, <1>5 DEF Core, Requested, Serving, Pending
<1>7. Fresh'
  BY <1>5, TwoKinds DEF Fresh
<1>8. ASSUME NEW d \in Clients PROVE Promised(clients[d])'
  <2>1. clients \in [Clients -> ClientType] /\ clients[d] \in ClientType /\ clients[d].id \in Nat
    BY DEF TInv, TypeOK, ClientType
  <2>2. Promised(clients[d])
    BY DEF Core
  <2>3. CASE d = c
    <3>1. clients'[d].st = "restoring" /\ clients'[d].id = asked + 1
      BY <2>1, <2>3 DEF ApiRestoreStarts, ClientType
    <3> QED
      BY <1>4, <3>1 DEF Promised
  <2>4. CASE d # c
    <3>1. clients'[d] = clients[d]
      BY <2>1, <2>4 DEF ApiRestoreStarts
    <3> QED
      BY <1>4, <2>1, <2>2, <3>1 DEF Promised, Has
  <2> QED
    BY <2>3, <2>4
<1>9. "told" \notin mishaps' => Whole'
  BY <1>3, <1>4, <1>5, TwoKinds DEF Core, Whole
<1> QED
  BY <1>6, <1>7, <1>8, <1>9 DEF Core

LEMMA SendCore ==
  ASSUME TInv, Core, Sound', mishaps \subseteq mishaps', NEW c \in Clients, Send(c)
  PROVE  Core'
<1> DEFINE r == clients[c]
           want == [k \in Kinds |-> IF k = r.kind THEN r.name ELSE None]
           p == [preview EXCEPT !.save    = Patched(r.save, want["save"], preview.save),
                                !.restore = Patched(r.restore, want["restore"], preview.restore)]
<1>1. /\ clients \in [Clients -> ClientType] /\ r \in ClientType /\ preview \in PreviewType
      /\ "save" \in Kinds /\ "restore" \in Kinds /\ asked \in Nat
  BY DEF TInv, TypeOK, Kinds
<1>2. r.st = "read" /\ r.kind \in Kinds /\ r.name \in Names /\ r.name # None
  BY <1>1 DEF Send, ClientType
<1>3. ~Crossing(c)
  <2>1. Note("crossed", Crossing(c))
    BY DEF Send
  <2> QED
    BY <2>1 DEF Note, Sound
<1>4. /\ preview.save = None /\ preview.restore = None /\ ~Pending(preview)
      /\ r.save = None /\ r.restore = None
      /\ ~Serving /\ \A k \in Kinds, n \in Names : ~Live(k, n)
      /\ \A d \in Clients : clients[d].st \notin {"restoring", "midway"}
  BY <1>2, <1>3, NotCrossing
<1>5. preview' = Bumped(p) /\ UNCHANGED <<op, jobs, cms, db>> /\ asked' = asked + 1
  BY DEF Send
<1>6. /\ p.save = IF r.kind = "save" THEN r.name ELSE None
      /\ p.restore = IF r.kind = "restore" THEN r.name ELSE None
      /\ p \in PreviewType
  <2>1. /\ want["save"] = IF r.kind = "save" THEN r.name ELSE None
        /\ want["restore"] = IF r.kind = "restore" THEN r.name ELSE None
    BY <1>1
  <2> HIDE DEF want
  <2> QED
    BY <1>1, <1>2, <1>4, <2>1 DEF Patched, PreviewType
<1>7. /\ clients'[c].st = IF r.kind = "save" THEN "waiting" ELSE "idle"
      /\ clients'[c].id = asked + 1 /\ clients'[c].name = r.name
      /\ \A d \in Clients \ {c} : clients'[d] = clients[d]
  BY <1>1 DEF Send, ClientType
<1> HIDE DEF p
<1>8. /\ preview'.save = IF r.kind = "save" THEN r.name ELSE None
      /\ preview'.restore = IF r.kind = "restore" THEN r.name ELSE None
  BY <1>5, <1>6 DEF Bumped, PreviewType
<1> HIDE DEF r
<1>9. ~Serving' /\ \A k \in Kinds, n \in Names : ~Live(k, n)'
  BY <1>4, <1>5 DEF Serving, Live
<1>10. Requested'
  <2>1. \A d \in Clients : clients'[d].st \notin {"restoring", "midway"}
    <3> SUFFICES ASSUME NEW d \in Clients PROVE clients'[d].st \notin {"restoring", "midway"}
      OBVIOUS
    <3>1. clients'[c].st \in {"waiting", "idle"}
      BY <1>7
    <3> QED
      BY <1>4, <1>7, <3>1
  <2>2. preview'.save = None \/ preview'.restore = None
    BY <1>8
  <2>3. \A k \in Kinds, n \in Names : jobs'[k][n].term = TRUE => jobs'[k][n].st = "succeeded"
    BY <1>5 DEF Core, Requested
  <2> QED
    BY <1>9, <2>1, <2>2, <2>3 DEF Requested, Serving
<1>11. Fresh'
  BY <1>9, TwoKinds DEF Fresh
<1>12. ASSUME NEW d \in Clients PROVE Promised(clients[d])'
  <2>1. CASE d = c
    BY <1>1, <1>5, <1>7, <1>8, <2>1 DEF Promised
  <2>2. CASE d # c
    <3>1. /\ Promised(clients[d]) /\ clients'[d] = clients[d]
          /\ clients[d].id \in Nat /\ clients[d].name # None
      BY <1>7, <2>2 DEF Core, TInv, TypeOK, ClientType
    <3> QED
      BY <1>1, <1>4, <1>5, <3>1 DEF Promised, Has
  <2> QED
    BY <2>1, <2>2
<1>13. "told" \notin mishaps' => Whole'
  BY <1>1, <1>4, <1>5, <1>9 DEF Core, Whole
<1> QED
  BY <1>10, <1>11, <1>12, <1>13 DEF Core

LEMMA JobSt ==
  ASSUME NEW x \in JobType, NEW s \in {"midway", "succeeded", "failed"}
  PROVE  /\ [x EXCEPT !.st = s] \in JobType
         /\ [x EXCEPT !.st = s].st = s
         /\ [x EXCEPT !.st = s].dump = x.dump
         /\ x.term = FALSE => [x EXCEPT !.st = s].term = FALSE
<1>1. /\ [x EXCEPT !.st = s] \in JobType /\ [x EXCEPT !.st = s].st = s
      /\ [x EXCEPT !.st = s].dump = x.dump
  BY DEF JobType
<1>2. [x EXCEPT !.st = s].term = x.term
  BY DEF JobType
<1> QED
  BY <1>1, <1>2

\* A step of a Job: one that runs, or one that goes away.
LEMMA JobChange ==
  ASSUME TInv, Core, UNCHANGED <<preview, op, cms, asked, clients>>, mishaps \subseteq mishaps',
         NEW k \in Kinds, NEW n \in Names, NEW j \in JobType,
         jobs' = [jobs EXCEPT ![k][n] = j], j.term = FALSE,
         j.st = "absent" \/ jobs[k][n].st \in {"active", "midway"},
         "told" \notin mishaps /\ k = "save" => j.dump # Torn,
         k = "save" /\ j.st = "succeeded" => j.taken = asked,
         "told" \notin mishaps /\ k = "restore" /\ j.st = "succeeded" => db' # Torn,
         \/ db' = db
         \/ "told" \notin mishaps => db' # Torn
         \/ k = "restore" /\ j.st = "midway"
  PROVE  Core'
<1>1. \A l \in Kinds, m \in Names : jobs'[l][m] = IF l = k /\ m = n THEN j ELSE jobs[l][m]
  BY JobsType DEF TInv, TypeOK
<1>2. Requested
  BY DEF Core
<1>3. jobs[k][n] \in JobType /\ jobs[k][n].term \in BOOLEAN
  BY DEF TInv, TypeOK, JobType
<1>4. jobs[k][n].st \in {"active", "midway"} => Live(k, n) /\ Wanted(k) = n
  BY <1>2, <1>3 DEF Requested, Live
<1>5. ASSUME jobs[k][n].st \in {"active", "midway"} PROVE ~Serving
  <2> SUFFICES ASSUME Serving PROVE FALSE
    OBVIOUS
  <2>1. k = Kind(op.copy) /\ n = Name(op.copy)
    BY <1>2, <1>4, <1>5, Served
  <2> QED
    BY <1>2, <1>4, <1>5, <2>1 DEF Requested, Serving, Job
<1>6. \A l \in Kinds, m \in Names : Live(l, m)' => Live(l, m) \/ (l = k /\ m = n /\ Live(k, n))
  <2> SUFFICES ASSUME NEW l \in Kinds, NEW m \in Names, Live(l, m)' PROVE Live(l, m)
    OBVIOUS
  <2>1. CASE l = k /\ m = n
    BY <1>1, <1>4, <2>1 DEF Live
  <2>2. CASE ~(l = k /\ m = n)
    BY <1>1, <2>2 DEF Live
  <2> QED
    BY <2>1, <2>2
<1>7. Requested'
  <2>1. \A l \in Kinds, m \in Names : Live(l, m)' => Wanted(l)' = m
    BY <1>2, <1>6 DEF Requested, Wanted
  <2>2. \A l \in Kinds, m \in Names : jobs'[l][m].term = TRUE => jobs'[l][m].st = "succeeded"
    BY <1>1, <1>2 DEF Requested
  <2>3. /\ Serving' => Serving
        /\ Kind(op.copy)' = Kind(op.copy) /\ Name(op.copy)' = Name(op.copy)
        /\ Job(op.copy)' = jobs'[Kind(op.copy)][Name(op.copy)]
    BY DEF Serving, Kind, Name, Job
  <2>4. Serving => Kind(op.copy) \in Kinds /\ Name(op.copy) \in Names
    BY <1>2, Served
  <2>5. Serving => jobs'[Kind(op.copy)][Name(op.copy)].st \in {"absent", Job(op.copy).st}
    BY <1>1, <1>5, <2>4 DEF Job
  <2>6. op'.pc = "stored" => Job(op.copy)'.st \in {"succeeded", "absent"}
    BY <1>2, <2>3, <2>5 DEF Requested, Serving
  <2>7. op'.pc = "deleted" => ~Live(Kind(op.copy), Name(op.copy))'
    <3> SUFFICES ASSUME op.pc = "deleted" PROVE ~Live(Kind(op.copy), Name(op.copy))'
      OBVIOUS
    <3>1. PICK l \in Kinds, m \in Names : l = Kind(op.copy) /\ m = Name(op.copy)
      BY <2>4 DEF Serving
    <3>2. ~Live(l, m)
      BY <1>2, <3>1 DEF Requested
    <3>3. ~Live(l, m)'
      BY <1>6, <3>2
    <3> QED
      BY <2>3, <3>1, <3>3 DEF Live
  <2>8. Serving' => Wanted(Kind(op.copy))' = Name(op.copy)'
    BY <1>2, <2>3 DEF Requested, Wanted
  <2> QED
    BY <1>2, <2>1, <2>2, <2>6, <2>7, <2>8 DEF Requested, Pending
<1>8. Fresh'
  <2>1. \A m \in Names : Live("save", m)' /\ jobs'["save"][m].st = "succeeded"
                           => jobs'["save"][m].taken = asked
    BY <1>1, <1>6, TwoKinds DEF Core, Fresh
  <2>2. Serving /\ Kind(op.copy) = "save" => Has(Name(op.copy), asked)
    BY DEF Core, Fresh
  <2> QED
    BY <2>1, <2>2 DEF Fresh, Has, Serving, Kind, Name
<1>9. \A c \in Clients : Promised(clients[c])'
  BY DEF Core, Promised, Has
<1>10. "told" \notin mishaps' => Whole'
  <2> SUFFICES ASSUME "told" \notin mishaps PROVE Whole'
    OBVIOUS
  <2>1. Whole
    BY DEF Core
  <2>2. \A m \in Names : cms[m].dump # Torn /\ jobs'["save"][m].dump # Torn
    BY <1>1, <2>1, TwoKinds DEF Whole
  <2>3. \A m \in Names : Live("restore", m)' /\ jobs'["restore"][m].st = "succeeded" => db' # Torn
    <3> SUFFICES ASSUME NEW m \in Names, Live("restore", m)', jobs'["restore"][m].st = "succeeded",
                        db' = Torn
                 PROVE  FALSE
      OBVIOUS
    <3>1. ~(k = "restore" /\ m = n) /\ jobs["restore"][m].st = "succeeded" /\ Live("restore", m)
      BY <1>1, <1>6, TwoKinds
    <3>2. db # Torn
      BY <2>1, <3>1 DEF Whole
    <3>3. k = "restore" /\ j.st = "midway"
      BY <3>2
    <3>4. Wanted("restore") = n /\ Wanted("restore") = m
      BY <1>2, <1>4, <3>1, <3>3, TwoKinds DEF Requested
    <3> QED
      BY <3>1, <3>3, <3>4
  <2>4. Serving /\ Kind(op.copy) = "restore" => db' # Torn
    BY <1>5, <2>1 DEF Whole
  <2>5. db' = Torn => \/ preview.restore # None
                      \/ \E c \in Clients : clients[c].st = "midway"
    <3>1. k = "restore" /\ j.st = "midway" => preview.restore # None
      BY <1>4, TwoKinds DEF Wanted
    <3> QED
      BY <2>1, <3>1 DEF Whole
  <2> QED
    BY <2>2, <2>3, <2>4, <2>5 DEF Whole, Serving, Kind
<1> QED
  BY <1>7, <1>8, <1>9, <1>10 DEF Core

LEMMA ClusterCore ==
  ASSUME TInv, Core, mishaps \subseteq mishaps', Cluster, ~CacheSync
  PROVE  Core'
<1>1. /\ jobs \in [Kinds -> [Names -> JobType]]
      /\ \A k \in Kinds, n \in Names : jobs[k][n] \in JobType
      /\ db \in Data /\ asked \in 0 .. MaxRequests /\ Data \subseteq Dumps
  BY DataDumps DEF TInv, TypeOK
<1>2. \A k \in Kinds, n \in Names :
        jobs[k][n].st \in {"active", "midway"} => jobs[k][n].term = FALSE /\ Wanted(k) = n
  <2> SUFFICES ASSUME NEW k \in Kinds, NEW n \in Names, jobs[k][n].st \in {"active", "midway"}
               PROVE  jobs[k][n].term = FALSE /\ Wanted(k) = n
    OBVIOUS
  <2>1. jobs[k][n].term \in BOOLEAN
    BY <1>1 DEF JobType
  <2>2. jobs[k][n].term # TRUE
    BY DEF Core, Requested
  <2> QED
    BY <2>1, <2>2 DEF Core, Requested, Live
<1>3. ASSUME NEW n \in Names, SaveSucceeds(n)
      PROVE  Core'
  <2> DEFINE j == [jobs["save"][n] EXCEPT !.st = "succeeded", !.dump = db, !.taken = asked]
  <2>1. /\ jobs' = [jobs EXCEPT !["save"][n] = j] /\ jobs["save"][n].st = "active"
        /\ UNCHANGED <<preview, op, cms, db, asked, clients>>
    BY <1>1, <1>3, TwoKinds DEF SaveSucceeds
  <2>2. jobs["save"][n].term = FALSE /\ preview.save = n /\ n # None
    BY <1>2, <2>1, TwoKinds DEF Wanted
  <2>6. jobs["save"][n] \in JobType
    BY <1>1, TwoKinds
  <2>7. db \in Dumps /\ asked \in 0 .. MaxRequests
    BY <1>1
  <2>8. PICK x \in JobType : x = jobs["save"][n]
    BY <2>6
  <2>9. j = [x EXCEPT !.st = "succeeded", !.dump = db, !.taken = asked]
    BY <2>8
  <2>10. j \in JobType /\ j.dump = db /\ j.taken = asked /\ j.st = "succeeded"
    BY <2>7, <2>9 DEF JobType
  <2>11. j.term = x.term
    BY <2>9 DEF JobType
  <2>3. /\ j \in JobType /\ j.dump = db /\ j.taken = asked /\ j.st = "succeeded"
        /\ j.term = FALSE
    BY <2>2, <2>8, <2>10, <2>11
  <2>4. preview.restore = None /\ \A c \in Clients : clients[c].st # "midway"
    BY <2>2 DEF Core, Requested, Pending
  <2>5. "told" \notin mishaps => db # Torn
    BY <2>4 DEF Core, Whole
  <2> HIDE DEF j
  <2> QED
    BY <2>1, <2>2, <2>3, <2>5, JobChange, TwoKinds
<1>4. ASSUME NEW n \in Names, RestoreWipes(n)
      PROVE  Core'
  <2> DEFINE j == [jobs["restore"][n] EXCEPT !.st = "midway"]
  <2>1. /\ jobs' = [jobs EXCEPT !["restore"][n] = j] /\ jobs["restore"][n].st = "active"
        /\ UNCHANGED <<preview, op, cms, asked, clients>>
    BY <1>1, <1>4, TwoKinds DEF RestoreWipes
  <2>2. jobs["restore"][n] \in JobType /\ jobs["restore"][n].term = FALSE
    BY <1>1, <1>2, <2>1, TwoKinds
  <2>3. j \in JobType /\ j.st = "midway" /\ j.term = FALSE
    BY <1>1, <2>2, JobSt
  <2> HIDE DEF j
  <2> QED
    BY <2>1, <2>3, JobChange, TwoKinds
<1>5. ASSUME NEW n \in Names, RestoreSucceeds(n)
      PROVE  Core'
  <2> DEFINE j == [jobs["restore"][n] EXCEPT !.st = "succeeded"]
  <2>1. /\ jobs' = [jobs EXCEPT !["restore"][n] = j] /\ jobs["restore"][n].st = "midway"
        /\ UNCHANGED <<preview, op, cms, asked, clients>> /\ db' = cms[n].dump
    BY <1>1, <1>5, TwoKinds DEF RestoreSucceeds
  <2>2. jobs["restore"][n] \in JobType /\ jobs["restore"][n].term = FALSE
    BY <1>1, <1>2, <2>1, TwoKinds
  <2>3. j \in JobType /\ j.term = FALSE
    BY <1>1, <2>2, JobSt
  <2>4. "told" \notin mishaps => db' # Torn
    BY <2>1 DEF Core, Whole
  <2> HIDE DEF j
  <2> QED
    BY <2>1, <2>2, <2>3, <2>4, JobChange, TwoKinds
<1>6. ASSUME NEW k \in Kinds, NEW n \in Names, JobFails(k, n)
      PROVE  Core'
  <2> DEFINE j == [jobs[k][n] EXCEPT !.st = "failed"]
  <2>1. /\ jobs' = [jobs EXCEPT ![k][n] = j] /\ jobs[k][n].st \in {"active", "midway"}
        /\ UNCHANGED <<preview, op, cms, db, asked, clients>>
    BY <1>1, <1>6 DEF JobFails
  <2>3. jobs[k][n] \in JobType /\ jobs[k][n].term = FALSE
    BY <1>1, <1>2, <2>1
  <2>2. j \in JobType /\ j.st = "failed" /\ j.dump = jobs[k][n].dump /\ j.term = FALSE
    BY <1>1, <2>3, JobSt
  <2>4. "told" \notin mishaps /\ k = "save" => j.dump # Torn
    BY <2>2 DEF Core, Whole
  <2> HIDE DEF j
  <2> QED
    BY <2>1, <2>2, <2>3, <2>4, JobChange
<1>7. ASSUME NEW k \in Kinds, NEW n \in Names, JobExpires(k, n) \/ JobCollected(k, n)
      PROVE  Core'
  <2>1. /\ jobs' = [jobs EXCEPT ![k][n] = NoJob]
        /\ UNCHANGED <<preview, op, cms, db, asked, clients>>
    BY <1>7 DEF JobExpires, JobCollected
  <2>2. NoJob.st = "absent" /\ NoJob.term = FALSE /\ NoJob.dump # Torn /\ NoJob \in JobType
    BY NoJobType DEF NoJob, NoDump, Torn
  <2> QED
    BY <2>1, <2>2, JobChange
<1>8. CASE AppWrites
  <2>1. db # Torn /\ db' # Torn /\ UNCHANGED <<preview, op, jobs, cms, asked, clients>>
    BY <1>8 DEF AppWrites, TInv, TypeOK, Torn
  <2>2. Requested'
    BY <2>1 DEF Core, Requested, Serving, Wanted, Job, Kind, Name, Pending, Live
  <2>3. Fresh' /\ \A c \in Clients : Promised(clients[c])'
    BY <2>1 DEF Core, Fresh, Promised, Has, Serving, Kind, Name, Live
  <2>4. "told" \notin mishaps' => Whole'
    BY <2>1 DEF Core, Whole, Serving, Kind, Live
  <2> QED
    BY <2>2, <2>3, <2>4 DEF Core
<1> QED
  BY <1>3, <1>4, <1>5, <1>6, <1>7, <1>8 DEF Cluster

LEMMA SInvStep == TInv /\ SInv /\ [Next]_vars => SInv'
<1> SUFFICES ASSUME TInv, SInv, [Next]_vars, Sound' PROVE Core'
  BY DEF SInv
<1>1. mishaps \subseteq mishaps'
  BY MishapsStep
<1>2. Core
  BY <1>1 DEF SInv, Sound
<1>3. CASE BeginPass \/ EndPass \/ Refresh \/ Publish \/ Abort \/ CacheSync \/ UNCHANGED vars
  BY <1>1, <1>2, <1>3, OperatorAside
<1>4. CASE CreateJob
  BY <1>1, <1>2, <1>4, CreateJobCore
<1>5. CASE StoreDump
  BY <1>1, <1>2, <1>5, StoreDumpCore
<1>6. CASE DeleteJob
  BY <1>1, <1>2, <1>6, DeleteJobCore
<1>7. CASE ClearRequest
  BY <1>1, <1>2, <1>7, ClearRequestCore
<1>8. ASSUME NEW c \in Clients, ClientStep(c) PROVE Core'
  BY <1>1, <1>2, <1>8, SendCore, ApiRestoreStartsCore, ClientCore
<1>9. CASE Cluster /\ ~CacheSync
  BY <1>1, <1>2, <1>9, ClusterCore
<1> QED
  BY <1>3, <1>4, <1>5, <1>6, <1>7, <1>8, <1>9 DEF Next, Pass

LEMMA SInvAlways == Spec => []SInv
BY InitSInv, SInvStep, TInvAlways, PTL DEF Spec

\* waitForCheckpointAction takes an empty field for a checkpoint that is stored.
\* It is right to, with any clients and caches and whatever crashes, failures and
\* expired Jobs come in between, until one of three things happens: a request
\* sent across another one, a Job for a request already served, the result of a
\* Job that is being deleted.
THEOREM AckedSaveIsStoredAlways == Spec => []AckedSaveIsStored
<1>1. SInv => AckedSaveIsStored
  BY DEF SInv, Sound, Core, Promised, Has, AckedSaveIsStored
<1> QED
  BY <1>1, SInvAlways, PTL

\* No dump is taken between the TRUNCATE of a restore and its replay, also when
\* the replay of the operator's Job fails and the request is served again, until
\* one of the three events or a restore of the API that fails.
THEOREM CheckpointsAreWholeAlways == Spec => []CheckpointsAreWhole
<1>1. SInv => CheckpointsAreWhole
  BY DEF SInv, Sound, Core, Whole, CheckpointsAreWhole
<1> QED
  BY <1>1, SInvAlways, PTL

(***************************************************************************)
(* Checkpoint requests and what was derived from the spec                  *)
(***************************************************************************)
Undisturbed == mishaps \cap {"crossed", "cut", "between"} = {}

\* A generation the status has not seen carries a request, or is that of the
\* clearing patch of a pass still under way.  The last update of that pass is
\* refused only if somebody has sent another request.
Derived ==
  /\ suiteJobs /\ preview.results
  /\ preview.gen # preview.observed => Pending(preview) \/ op.pc \in {"cleared", "refreshed"}
  /\ op.pc = "refreshed" => op.copy = preview \/ Pending(preview)

DInv == Undisturbed => Derived

LEMMA InitDInv == Init => DInv
BY DEF Init, DInv, Derived, Preview0, Idle

\* A pass that begins on an old copy takes no generation for a new one, or one
\* with a request, and its update is refused.
LEMMA BeginPassDerived ==
  ASSUME TInv, Derived, Undisturbed', BeginPass
  PROVE  Derived'
<1>1. PICK p : /\ p = Seen
               /\ suiteJobs' = (suiteJobs /\ (p.gen = p.observed \/ Pending(p)))
               /\ LET q == IF p.gen = p.observed THEN p
                           ELSE IF Pending(p) THEN Noted(p) ELSE Reset(p)
                  IN  IF q = p \/ Accepted(p)
                      THEN /\ op' = [Idle EXCEPT !.pc = "pass", !.copy = q]
                           /\ preview' = IF q = p THEN preview ELSE Written(q)
                      ELSE UNCHANGED <<preview, op>>
               /\ Note("between", p # preview /\ p.gen # p.observed /\ ~Pending(p))
  BY DEF BeginPass
<1>2. op.pc = "idle" /\ preview \in PreviewType
  BY DEF BeginPass, TInv, TypeOK
<1>3. p.gen = p.observed \/ Pending(p)
  <2>1. p = preview \/ p.gen = p.observed \/ Pending(p)
    BY <1>1 DEF Note, Undisturbed
  <2> QED
    BY <1>2, <2>1 DEF Derived
<1>4. suiteJobs' = suiteJobs
  BY <1>1, <1>3 DEF Derived
<1>5. CASE preview' = preview
  <2>1. op'.pc \in {"pass", "idle"}
    BY <1>1, <1>2 DEF Idle
  <2> QED
    BY <1>2, <1>4, <1>5, <2>1 DEF Derived, Pending
<1>6. CASE preview' # preview
  <2>1. p = preview /\ p.gen # p.observed /\ preview' = Written(Noted(p)) /\ op'.pc = "pass"
    BY <1>1, <1>3, <1>6 DEF Accepted, Idle
  <2>2. Pending(preview)
    BY <1>3, <2>1
  <2>3. /\ Written(Noted(preview)).results = preview.results
        /\ Pending(preview) => Pending(Written(Noted(preview)))
    BY <1>2 DEF Written, Noted, Pending, PreviewType
  <2>4. preview'.results = preview.results /\ Pending(preview')
    BY <2>1, <2>2, <2>3
  <2>5. Pending(preview)'
    BY <2>4 DEF Pending
  <2> QED
    BY <1>4, <2>1, <2>4, <2>5 DEF Derived
<1> QED
  BY <1>5, <1>6

LEMMA ClearDerived ==
  ASSUME TInv, Derived, ClearRequest
  PROVE  Derived'
<1> DEFINE p == Cleared(Kind(op.copy))
<1>1. preview \in PreviewType /\ op \in PassType
  BY DEF TInv, TypeOK
<1>2. p \in PreviewType /\ p.results = preview.results
  BY <1>1 DEF Cleared, PreviewType
<1>3. preview' = Bumped(p) /\ suiteJobs' = suiteJobs /\ op'.pc = "cleared"
  BY <1>1 DEF ClearRequest, PassType
<1> HIDE DEF p
<1>4. preview'.results = preview.results
  BY <1>2, <1>3 DEF Bumped, PreviewType
<1> QED
  BY <1>3, <1>4 DEF Derived

LEMMA PublishDerived ==
  ASSUME TInv, Derived, Publish
  PROVE  Derived'
<1>1. preview \in PreviewType /\ op \in PassType
  BY DEF TInv, TypeOK
<1>2. op'.pc = "idle" /\ suiteJobs' = suiteJobs /\ op.pc = "refreshed"
  BY DEF Publish, Idle
<1>3. CASE op.copy = preview
  <2> DEFINE q == Published(preview)
  <2>1. q \in PreviewType /\ q.observed = preview.gen /\ q.results = preview.results
    BY <1>1 DEF Published, Noted, PreviewType, PassType
  <2>2. preview' = Written(q)
    BY <1>3 DEF Publish, Accepted
  <2> HIDE DEF q
  <2>3. preview'.gen = preview.gen /\ preview'.observed = q.observed /\ preview'.results = q.results
    BY <1>1, <2>1, <2>2 DEF Written, PreviewType
  <2> QED
    BY <1>2, <2>1, <2>3 DEF Derived
<1>4. CASE op.copy # preview
  <2>1. Pending(preview) /\ preview' = preview
    BY <1>2, <1>4 DEF Derived, Publish, Accepted
  <2> QED
    BY <1>2, <2>1 DEF Derived, Pending
<1> QED
  BY <1>3, <1>4

LEMMA SendDerived ==
  ASSUME TInv, Derived, Undisturbed', NEW c \in Clients, Send(c)
  PROVE  Derived'
<1> DEFINE r == clients[c]
           want == [k \in Kinds |-> IF k = r.kind THEN r.name ELSE None]
           p == [preview EXCEPT !.save    = Patched(r.save, want["save"], preview.save),
                                !.restore = Patched(r.restore, want["restore"], preview.restore)]
<1>1. r \in ClientType /\ preview \in PreviewType
  BY DEF TInv, TypeOK
<1>2. r.kind \in Kinds /\ r.name \in Names /\ r.name # None
  BY <1>1 DEF Send, ClientType
<1>3. r.save = None /\ r.restore = None
  <2>1. ~Crossing(c)
    BY DEF Send, Note, Undisturbed
  <2> QED
    BY <2>1 DEF Crossing, Pending
<1>4. preview' = Bumped(p) /\ UNCHANGED <<op, suiteJobs>>
  BY DEF Send
<1>5. /\ p.results = preview.results /\ (p.save # None \/ p.restore # None)
      /\ p \in PreviewType
  <2>1. /\ want["save"] = IF r.kind = "save" THEN r.name ELSE None
        /\ want["restore"] = IF r.kind = "restore" THEN r.name ELSE None
    BY TwoKinds
  <2> HIDE DEF want
  <2>2. r.kind = "save" \/ r.kind = "restore"
    BY <1>2 DEF Kinds
  <2>3. p.results = preview.results /\ p \in PreviewType
    BY <1>1, <1>2, <2>1 DEF Patched, PreviewType
  <2>4. p.save # None \/ p.restore # None
    BY <1>1, <1>2, <1>3, <2>1, <2>2 DEF Patched, PreviewType
  <2> QED
    BY <2>3, <2>4
<1> HIDE DEF p
<1>6. preview'.results = preview.results /\ (preview'.save # None \/ preview'.restore # None)
  BY <1>4, <1>5 DEF Bumped, PreviewType
<1>7. Pending(preview)'
  BY <1>6 DEF Pending
<1> QED
  BY <1>4, <1>6, <1>7 DEF Derived

LEMMA DInvStep == TInv /\ DInv /\ [Next]_vars => DInv'
<1> SUFFICES ASSUME TInv, DInv, [Next]_vars, Undisturbed' PROVE Derived'
  BY DEF DInv
<1>1. Derived
  <2>1. mishaps \subseteq mishaps'
    BY MishapsStep
  <2> QED
    BY <2>1 DEF DInv, Undisturbed
<1>2. op \in PassType
  BY DEF TInv, TypeOK
<1>3. CASE BeginPass
  BY <1>1, <1>3, BeginPassDerived
<1>4. CASE ClearRequest
  BY <1>1, <1>4, ClearDerived
<1>5. CASE Publish
  BY <1>1, <1>5, PublishDerived
<1>6. CASE Refresh
  <2>1. op'.pc = "refreshed" /\ op'.copy = preview /\ UNCHANGED <<preview, suiteJobs>>
    BY <1>2, <1>6 DEF Refresh, PassType
  <2> QED
    BY <1>1, <2>1 DEF Derived, Pending
<1>7. CASE EndPass \/ CreateJob \/ StoreDump \/ DeleteJob \/ Abort
  <2>1. op.pc \notin {"cleared", "refreshed"}
    BY <1>7 DEF EndPass, CreateJob, StoreDump, DeleteJob, Abort, Note, Undisturbed
  <2>2. op'.pc # "refreshed"
    BY <1>2, <1>7 DEF EndPass, CreateJob, StoreDump, DeleteJob, Abort, Idle, PassType
  <2>3. UNCHANGED <<preview, suiteJobs>>
    BY <1>7 DEF EndPass, CreateJob, StoreDump, DeleteJob, Abort
  <2> QED
    BY <1>1, <2>1, <2>2, <2>3 DEF Derived, Pending
<1>8. ASSUME NEW c \in Clients, ClientStep(c) PROVE Derived'
  <2>1. CASE Send(c)
    BY <1>1, <2>1, SendDerived
  <2>2. CASE ~Send(c)
    <3>1. UNCHANGED <<preview, op, suiteJobs>>
      BY <1>8, <2>2 DEF ClientStep, Read, Acknowledge, GiveUp, ApiRestoreStarts,
                        ApiRestoreWipes, ApiRestoreFails, ApiRestoreEnds
    <3> QED
      BY <1>1, <3>1 DEF Derived, Pending
  <2> QED
    BY <2>1, <2>2
<1>9. CASE Cluster \/ UNCHANGED vars
  <2>1. UNCHANGED <<preview, op, suiteJobs>>
    BY <1>9 DEF Cluster, CacheSync, AppWrites, SaveSucceeds, RestoreWipes, RestoreSucceeds,
                JobFails, JobExpires, JobCollected, vars
  <2> QED
    BY <1>1, <2>1 DEF Derived, Pending
<1> QED
  BY <1>3, <1>4, <1>5, <1>6, <1>7, <1>8, <1>9 DEF Next, Pass

\* The generations that checkpoint requests cause reset no Job and no result of
\* the suite (resetDerivedStateForNewGeneration), with any clients and caches,
\* unless a pass ends or begins between clearCheckpointRequest's two calls or a
\* request is sent across another one.
THEOREM DerivedStateSurvivesAlways == Spec => []DerivedStateSurvives
<1>1. DInv => DerivedStateSurvives
  BY DEF DInv, Undisturbed, Derived, DerivedStateSurvives
<1> QED
  BY <1>1, InitDInv, DInvStep, TInvAlways, PTL DEF Spec
=============================================================================
