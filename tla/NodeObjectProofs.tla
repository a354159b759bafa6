-------------------------- MODULE NodeObjectProofs --------------------------
(***************************************************************************)
(* Theorems about NodeObject, for any annotations, any lag of the cache    *)
(* and any bounds.                                                         *)
(***************************************************************************)
EXTENDS NodeObject, TLAPS

(* Where the job is, its annotation of each kind is there or still its own to add. *)
JobOK ==
  /\ job.pc \in {"metadata", "update"} /\ current =>
       job.base = Node.ann /\ ~IsExisted(Node, job.kind)
  /\ job.kind = "zone" => IsExisted(Node, "instance")
  /\ DoneIsAnnotated

(* What a process read, and what it may read yet, the node had since its reading. *)
Busy(p) == pc[p] \notin {"idle", "failed"}

CallOK ==
  \A p \in Procs :
    Busy(p) => /\ Nets \subseteq held[p] /\ call[p].read \in held[p]
               /\ pc[p] = "patch" => call[p].got \in held[p]

Inv == TypeOK /\ JobOK /\ CallOK

(* An object that may follow the node: what is annotated stays so, or even as it is. *)
Follows(o) ==
  /\ o \in Object
  /\ \A k \in Keys : Node.ann[k] # Unset => o.ann[k] # Unset

Keeps(o) == \A k \in Keys : Node.ann[k] # Unset => o.ann[k] = Node.ann[k]

(* The node and the cached version are objects. *)
LEMMA NodeTypes ==
  ASSUME TypeOK
  PROVE  /\ Node \in Object /\ Cached \in Object
         /\ Nets \subseteq NetStates /\ Node.net \in Nets /\ Cached.net \in Nets
<1>1. versions \in Seq(Object) /\ Latest \in DOMAIN versions /\ 1 \in DOMAIN versions
  BY ObjectAssumption DEF TypeOK, Latest
<1>2. \A v \in DOMAIN versions : versions[v] \in Object
  BY <1>1
<1>3. \A o \in Object : o.net \in NetStates
  BY DEF Object
<1> QED BY <1>1, <1>2, <1>3 DEF Node, Cached, Nets

(* A write makes the new object the node and adds its condition to those in sight. *)
LEMMA WriteEffect ==
  ASSUME TypeOK, NEW o \in Object, Write(o)
  PROVE  /\ versions' \in Seq(Object) /\ Latest' \in 1 .. MaxLag + 1
         /\ Node' = o /\ Nets' = Nets \cup {o.net} /\ current' = FALSE
         /\ held' \in [Procs -> SUBSET NetStates]
<1>1. versions \in Seq(Object) /\ Len(versions) \in Nat /\ Len(versions) >= 1
      /\ Len(versions) <= MaxLag /\ versions' = Append(versions, o)
  BY ObjectAssumption DEF TypeOK, Write, Latest
<1>2. /\ versions' \in Seq(Object) /\ Len(versions') = Len(versions) + 1
      /\ DOMAIN versions' = 1 .. Len(versions) + 1 /\ DOMAIN versions = 1 .. Len(versions)
      /\ versions'[Len(versions) + 1] = o
      /\ \A v \in 1 .. Len(versions) : versions'[v] = versions[v]
  BY <1>1
<1>3. Nets' = Nets \cup {o.net}
  <2>1. \A v \in DOMAIN versions' : v = Len(versions) + 1 \/ v \in DOMAIN versions
    BY <1>1, <1>2
  <2>2. DOMAIN versions \subseteq DOMAIN versions' /\ Len(versions) + 1 \in DOMAIN versions'
    BY <1>1, <1>2
  <2> QED BY <1>2, <2>1, <2>2 DEF Nets
<1>4. held' \in [Procs -> SUBSET NetStates]
  BY DEF TypeOK, Write, Object
<1> QED BY <1>1, <1>2, <1>3, <1>4, ObjectAssumption DEF Write, Latest, Node

(* The cache goes on to the next version: the node stays. *)
LEMMA RefreshEffect ==
  ASSUME TypeOK, Refresh
  PROVE  /\ versions' \in Seq(Object) /\ Latest' \in 1 .. MaxLag + 1
         /\ Node' = Node /\ Nets' \subseteq Nets
<1>1. versions \in Seq(Object) /\ Len(versions) \in Nat /\ Len(versions) > 1
      /\ Len(versions) <= MaxLag + 1 /\ versions' = Tail(versions)
  BY ObjectAssumption DEF TypeOK, Refresh, Latest
<1>2. /\ versions' \in Seq(Object) /\ Len(versions') = Len(versions) - 1
      /\ \A v \in 1 .. Len(versions) - 1 : versions'[v] = versions[v + 1]
  BY <1>1
<1>3. Node' = Node
  BY <1>1, <1>2 DEF Node, Latest
<1>4. Nets' \subseteq Nets
  <2>1. \A v \in DOMAIN versions' : v + 1 \in DOMAIN versions /\ versions'[v] = versions[v + 1]
    BY <1>1, <1>2
  <2> QED BY <2>1 DEF Nets
<1> QED BY <1>1, <1>2, <1>3, <1>4, ObjectAssumption DEF Latest

(* An object that follows the node carries what the node carried. *)
LEMMA FollowsExisted ==
  ASSUME NEW o, Follows(o), NEW kind, IsExisted(Node, kind)
  PROVE  IsExisted(o, kind)
BY DEF Follows, IsExisted

(* The node with the job's annotation in place follows it, and carries it. *)
LEMMA AnnotatedFollows ==
  ASSUME Inv, job.pc = "update", current
  PROVE  /\ Follows(Annotated) /\ Keeps(Annotated) /\ IsExisted(Annotated, job.kind)
         /\ \A k \in Keys : IsExisted(Node, k[1]) => Annotated.ann[k] = Node.ann[k]
<1> DEFINE own == <<job.kind, "kce2">>
<1>1. job.kind \in Kinds /\ own \in Keys /\ own[1] = job.kind
  BY DEF Inv, TypeOK, JobType, Keys
<1>2. Node \in Object /\ Node.ann \in Annotations /\ job.base = Node.ann
  BY NodeTypes DEF Inv, JobOK, Object
<1>3. ~IsExisted(Node, job.kind)
  BY DEF Inv, JobOK
<1>4. Metadata[job.kind] \in Values /\ Metadata[job.kind] # Unset
  BY <1>1, ObjectAssumption
<1>5. Annotated.ann = [Node.ann EXCEPT ![own] = Metadata[job.kind]] /\ Annotated.net = Node.net
  BY <1>2 DEF Annotated, Object
<1>6. Annotated \in Object
  BY <1>1, <1>2, <1>4 DEF Annotated, Object, Annotations
<1>7. Annotated.ann[own] = Metadata[job.kind]
      /\ \A k \in Keys \ {own} : Annotated.ann[k] = Node.ann[k]
  BY <1>1, <1>2, <1>5 DEF Annotations
<1>8. Node.ann[own] = Unset
  BY <1>1, <1>3 DEF IsExisted
<1>9. IsExisted(Annotated, job.kind)
  BY <1>1, <1>4, <1>7 DEF IsExisted
<1> QED BY <1>1, <1>3, <1>6, <1>7, <1>8, <1>9 DEF Follows, Keeps

(* What PatchM sends leaves the annotations alone, and makes the condition the wanted one. *)
LEMMA PatchedFollows ==
  ASSUME TypeOK, NEW p \in Procs
  PROVE  /\ Follows(Patched(p)) /\ Keeps(Patched(p)) /\ Patched(p).ann = Node.ann
         /\ call[p].got = call[p].want \/ Patched(p).net = call[p].want
<1>1. Node \in Object /\ call[p].want \in NetStates
  BY NodeTypes DEF TypeOK, CallType, NetStates
<1> QED BY <1>1 DEF Patched, Follows, Keeps, Object

(* Paying for a step leaves the bounds numbers. *)
LEMMA SpendTypes ==
  ASSUME TypeOK, NEW k \in BudgetKeys, Spend(k) \/ UNCHANGED budget
  PROVE  budget' \in [BudgetKeys -> Nat]
BY DEF TypeOK, Spend

-----------------------------------------------------------------------------
(* How a step changes the object: not, by the cache, or by a write that follows it. *)
LEMMA ObjectMoves ==
  ASSUME Inv, [Next]_vars
  PROVE  \/ UNCHANGED versions
         \/ Refresh
         \/ \E o \in Object :
              /\ Follows(o) /\ Write(o) /\ (Keeps(o) \/ OtherWrites)
              /\ job' = job \/ (job.pc = "update" /\ current /\ o = Annotated)
<1>1. CASE OtherWrites
  <2>1. Node \in Object
    BY NodeTypes DEF Inv
  <2>2. ASSUME NEW k \in Keys, NEW v \in Values
        PROVE  Follows([Node EXCEPT !.ann[k] = v])
    BY <2>1, ObjectAssumption DEF Follows, Object, Annotations
  <2>3. ASSUME NEW n \in {Node.net, "ok", "down"}
        PROVE  Follows([Node EXCEPT !.net = n])
    BY <2>1, <2>3 DEF Follows, Object, NetStates
  <2>4. \E o : Follows(o) /\ Write(o)
    BY <1>1, <2>2, <2>3 DEF OtherWrites
  <2> QED BY <1>1, <2>4 DEF OtherWrites, Follows
<1>2. CASE JobUpdate
  <2>1. CASE UNCHANGED object
    BY <2>1 DEF object
  <2>2. CASE current /\ Write(Annotated)
    BY <1>2, <2>2, AnnotatedFollows DEF JobUpdate, Follows
  <2> QED BY <1>2, <2>1, <2>2 DEF JobUpdate
<1>3. ASSUME NEW p \in Procs, PatchStatus(p)
      PROVE  UNCHANGED versions \/ (\E o \in Object : Follows(o) /\ Keeps(o) /\ Write(o) /\ job' = job)
  <2>1. CASE UNCHANGED object
    BY <2>1 DEF object
  <2>2. CASE Write(Patched(p))
    BY <1>3, <2>2, PatchedFollows DEF PatchStatus, Follows, Inv
  <2> QED BY <1>3, <2>1, <2>2 DEF PatchStatus
<1>4. CASE JobGet \/ JobMetadata \/ JobTick \/ JobRestart
  BY <1>4 DEF JobGet, JobMetadata, JobTick, JobRestart, object
<1>5. ASSUME NEW p \in Procs, Read(p) \/ Route(p) \/ Report(p) \/ PatchGet(p)
      PROVE  UNCHANGED versions
  BY <1>5 DEF Read, Route, Report, PatchGet, object
<1>6. CASE UNCHANGED vars
  BY <1>6 DEF vars
<1> QED BY <1>1, <1>2, <1>3, <1>4, <1>5, <1>6 DEF Next, Job, UpdateNetworkingCondition

(* The job's variable keeps its type. *)
LEMMA JobTypes ==
  ASSUME Inv, [Next]_vars
  PROVE  job' \in JobType
<1>1. Node.ann \in Annotations /\ job \in JobType
  BY NodeTypes DEF Inv, TypeOK, Object
<1>2. JobStart \in JobType /\ \A k \in Kinds : [JobStart EXCEPT !.kind = k] \in JobType
      /\ \A l \in {"wait", "done"} : [JobStart EXCEPT !.pc = l] \in JobType
  BY DEF JobStart, JobType, NoAnnotation, Annotations, Kinds
<1>3. Ensured \/ JobWaits => job' \in JobType
  BY <1>2 DEF Ensured, JobWaits, Kinds
<1>4. CASE JobGet
  BY <1>1, <1>3, <1>4 DEF JobGet, JobType
<1>5. CASE JobMetadata
  BY <1>1, <1>3, <1>5 DEF JobMetadata, JobGoes, JobType
<1>6. CASE JobUpdate
  <2>1. Ensured \/ JobWaits
    BY <1>6 DEF JobUpdate
  <2> QED BY <1>3, <2>1
<1>7. CASE JobTick \/ JobRestart
  BY <1>2, <1>7 DEF JobTick, JobRestart
<1>8. CASE Refresh \/ OtherWrites \/ UNCHANGED vars
  BY <1>1, <1>8 DEF Refresh, OtherWrites, vars
<1>9. ASSUME NEW p \in Procs, Read(p) \/ Route(p) \/ Report(p) \/ PatchGet(p) \/ PatchStatus(p)
      PROVE  job' \in JobType
  BY <1>1, <1>9 DEF Read, Route, Report, PatchGet, PatchStatus
<1> QED BY <1>4, <1>5, <1>6, <1>7, <1>8, <1>9 DEF Next, Job, UpdateNetworkingCondition

(* ... and so do those of the worker and the sync. *)
Labels == {"idle", "failed", "route", "report", "get", "patch"}

LEMMA CallTypes ==
  ASSUME Inv, [Next]_vars
  PROVE  pc' \in [Procs -> Labels] /\ call' \in [Procs -> CallType]
<1> DEFINE Typed == pc' \in [Procs -> Labels] /\ call' \in [Procs -> CallType]
<1>1. pc \in [Procs -> Labels] /\ call \in [Procs -> CallType] /\ Cached.net \in NetStates
  BY NodeTypes DEF Inv, TypeOK, Object, Labels
<1>2. NoCall \in CallType
  BY ObjectAssumption DEF NoCall, CallType, NetStates
<1>3. ASSUME NEW p \in Procs, NEW l \in Labels, Return(p, l)
      PROVE  Typed
  BY <1>1, <1>2, <1>3 DEF Return, Goto
<1>4. ASSUME NEW p \in Procs, Read(p)
      PROVE  Typed
  BY <1>1, <1>4 DEF Read, Goto, Labels, CallType
<1>5. ASSUME NEW p \in Procs, Route(p)
      PROVE  Typed
  <2>1. \A want \in Wants(p) : [call EXCEPT ![p].want = want] \in [Procs -> CallType]
    BY <1>1 DEF Wants, CallType
  <2> QED BY <1>1, <1>3, <1>5, <2>1 DEF Route, Goto, Labels
<1>6. ASSUME NEW p \in Procs, Report(p) \/ PatchGet(p)
      PROVE  Typed
  <2>1. [call EXCEPT ![p].got = Cached.net] \in [Procs -> CallType]
    BY <1>1 DEF CallType
  <2> QED BY <1>1, <1>3, <1>6, <2>1 DEF Report, PatchGet, Goto, Labels
<1>7. ASSUME NEW p \in Procs, PatchStatus(p)
      PROVE  Typed
  <2>1. TriesLeft(call[p].tries) =>
          [call[p] EXCEPT !.tries = @ + 1, !.got = "unset"] \in CallType
    <3>1. call[p].tries \in 0 .. MaxTries - 1 /\ call[p] \in CallType
      BY <1>1 DEF CallType
    <3>2. TriesLeft(call[p].tries) => call[p].tries + 1 \in 0 .. MaxTries - 1
      BY <3>1, ObjectAssumption DEF TriesLeft
    <3> QED BY <3>1, <3>2 DEF CallType, NetStates
  <2>2. [call EXCEPT ![p].tries = @ + 1, ![p].got = "unset"]
          = [call EXCEPT ![p] = [call[p] EXCEPT !.tries = @ + 1, !.got = "unset"]]
    BY <1>1
  <2> QED BY <1>1, <1>3, <1>7, <2>1, <2>2 DEF PatchStatus, Goto, Labels
<1>8. CASE Refresh \/ OtherWrites \/ JobGet \/ JobMetadata \/ JobUpdate \/ JobTick
           \/ JobRestart \/ UNCHANGED vars
  BY <1>1, <1>8 DEF Refresh, OtherWrites, JobGet, JobMetadata, JobUpdate, JobTick,
                    JobRestart, vars
<1> QED BY <1>4, <1>5, <1>6, <1>7, <1>8 DEF Next, Job, UpdateNetworkingCondition

(* The ghost and the bounds keep their types. *)
LEMMA RestTypes ==
  ASSUME Inv, [Next]_vars
  PROVE  /\ current' \in BOOLEAN /\ held' \in [Procs -> SUBSET NetStates]
         /\ budget' \in [BudgetKeys -> Nat]
<1>1. \A o \in Object : Write(o) => current' = FALSE /\ held' \in [Procs -> SUBSET NetStates]
  BY WriteEffect DEF Inv
<1>2. current \in BOOLEAN /\ held \in [Procs -> SUBSET NetStates] /\ Nets \subseteq NetStates
  BY NodeTypes DEF Inv, TypeOK
<1>3. \A k \in BudgetKeys : Spend(k) \/ UNCHANGED budget => budget' \in [BudgetKeys -> Nat]
  BY SpendTypes DEF Inv
<1>4. CASE OtherWrites
  <2>1. \A k \in Keys, v \in Values : [Node EXCEPT !.ann[k] = v] \in Object
    BY NodeTypes DEF Inv, Object, Annotations
  <2>2. \A n \in {Node.net, "ok", "down"} : [Node EXCEPT !.net = n] \in Object
    BY NodeTypes DEF Inv, Object, NetStates
  <2> QED BY <1>1, <1>3, <1>4, <2>1, <2>2 DEF OtherWrites, BudgetKeys
<1>5. CASE JobUpdate
  <2>1. current => Annotated \in Object
    BY <1>5, AnnotatedFollows DEF JobUpdate, Follows
  <2> QED BY <1>1, <1>2, <1>3, <1>5, <2>1 DEF JobUpdate, object, BudgetKeys
<1>6. ASSUME NEW p \in Procs, PatchStatus(p)
      PROVE  /\ current' \in BOOLEAN /\ held' \in [Procs -> SUBSET NetStates]
             /\ budget' \in [BudgetKeys -> Nat]
  <2>1. Patched(p) \in Object
    BY PatchedFollows DEF Inv, Follows
  <2> QED BY <1>1, <1>2, <1>3, <1>6, <2>1 DEF PatchStatus, object, BudgetKeys
<1>7. CASE JobGet \/ JobMetadata \/ JobTick \/ JobRestart
  BY <1>2, <1>3, <1>7 DEF JobGet, JobMetadata, JobTick, JobRestart, object, BudgetKeys
<1>8. ASSUME NEW p \in Procs, Read(p) \/ Route(p) \/ Report(p) \/ PatchGet(p)
      PROVE  /\ current' \in BOOLEAN /\ held' \in [Procs -> SUBSET NetStates]
             /\ budget' \in [BudgetKeys -> Nat]
  BY <1>2, <1>3, <1>8 DEF Read, Route, Report, PatchGet, object, BudgetKeys
<1>9. CASE Refresh \/ UNCHANGED vars
  BY <1>2, <1>3, <1>9 DEF Refresh, vars, BudgetKeys
<1> QED BY <1>4, <1>5, <1>6, <1>7, <1>8, <1>9 DEF Next, Job, UpdateNetworkingCondition

(* Every step keeps the types. *)
LEMMA TypeStep ==
  ASSUME Inv, [Next]_vars
  PROVE  TypeOK'
<1>1. versions' \in Seq(Object) /\ Latest' \in 1 .. MaxLag + 1
  <2>1. CASE UNCHANGED versions
    BY <2>1 DEF Inv, TypeOK, Latest
  <2> QED BY <2>1, ObjectMoves, WriteEffect, RefreshEffect DEF Inv
<1> QED BY <1>1, JobTypes, CallTypes, RestTypes DEF TypeOK, Labels

-----------------------------------------------------------------------------
(* What is annotated on the node before a step is so after it. *)
LEMMA ExistedStays ==
  ASSUME Inv, [Next]_vars
  PROVE  /\ \A kind : IsExisted(Node, kind) => IsExisted(Node', kind)
         /\ UNCHANGED versions => Node' = Node
<1>1. UNCHANGED versions => Node' = Node
  BY DEF Node, Latest
<1>2. CASE UNCHANGED versions \/ Refresh
  BY <1>1, <1>2, RefreshEffect DEF Inv, IsExisted
<1>3. ASSUME NEW o \in Object, Follows(o), Write(o)
      PROVE  \A kind : IsExisted(Node, kind) => IsExisted(Node', kind)
  <2>1. Node' = o
    BY <1>3, WriteEffect DEF Inv
  <2> QED BY <1>3, <2>1, FollowsExisted DEF IsExisted
<1> QED BY <1>1, <1>2, <1>3, ObjectMoves

(* The job stays where its invariant holds. *)
LEMMA JobStep ==
  ASSUME Inv, [Next]_vars
  PROVE  JobOK'
<1>1. job \in JobType /\ JobOK /\ Inv
  BY DEF Inv, TypeOK
<1>2. ASSUME job' = job, UNCHANGED current \/ current' = FALSE,
             current' => Node' = Node
      PROVE  JobOK'
  BY <1>1, <1>2, ExistedStays DEF JobOK, DoneIsAnnotated, IsExisted
<1>3. ASSUME JobWaits \/ job' = JobStart
      PROVE  JobOK'
  BY <1>3 DEF JobWaits, JobStart, JobOK, DoneIsAnnotated
<1>4. ASSUME Ensured, job.pc \in {"get", "update"}, IsExisted(Node', job.kind)
      PROVE  JobOK'
  <2>1. CASE job.kind = "instance"
    BY <1>4, <2>1 DEF Ensured, JobStart, JobOK, DoneIsAnnotated, IsExisted
  <2>2. CASE job.kind = "zone"
    <3>1. IsExisted(Node', "instance")
      BY <1>1, <2>2, ExistedStays DEF JobOK
    <3>2. \A kind \in Kinds : IsExisted(Node', kind)
      BY <1>4, <2>2, <3>1 DEF Kinds
    <3> QED BY <1>4, <2>2, <3>2 DEF Ensured, JobStart, JobOK, DoneIsAnnotated, IsExisted
  <2> QED BY <1>1, <2>1, <2>2 DEF JobType, Kinds
<1>5. CASE JobGet
  <2>1. UNCHANGED versions /\ Node' = Node
    BY <1>5, ExistedStays DEF JobGet
  <2>2. CASE IsExisted(Node, job.kind) /\ Ensured
    BY <1>4, <1>5, <2>1, <2>2 DEF JobGet, IsExisted
  <2>3. CASE ~IsExisted(Node, job.kind)
             /\ job' = [job EXCEPT !.pc = "metadata", !.base = Node.ann]
    BY <1>1, <2>1, <2>3 DEF JobOK, DoneIsAnnotated, JobType, IsExisted
  <2> QED BY <1>3, <1>5, <2>2, <2>3 DEF JobGet
<1>6. CASE JobMetadata
  <2>1. Node' = Node /\ current' = current /\ job.pc = "metadata"
    BY <1>6, ExistedStays DEF JobMetadata, object
  <2>2. CASE JobGoes("update")
    BY <1>1, <2>1, <2>2 DEF JobGoes, JobOK, DoneIsAnnotated, JobType, IsExisted
  <2> QED BY <1>3, <1>6, <2>2 DEF JobMetadata
<1>7. CASE JobUpdate
  <2>1. CASE current /\ Write(Annotated) /\ Ensured
    <3>1. Annotated \in Object /\ IsExisted(Annotated, job.kind)
      BY <1>7, <2>1, AnnotatedFollows DEF JobUpdate, Follows
    <3>2. Node' = Annotated
      BY <2>1, <3>1, WriteEffect DEF Inv
    <3>3. IsExisted(Node', job.kind)
      BY <3>1, <3>2
    <3> QED BY <1>4, <1>7, <2>1, <3>3 DEF JobUpdate
  <2> QED BY <1>3, <1>7, <2>1 DEF JobUpdate
<1>8. CASE JobTick \/ JobRestart
  BY <1>3, <1>8 DEF JobTick, JobRestart
<1>9. CASE Refresh
  BY <1>2, <1>9, RefreshEffect DEF Refresh, Inv
<1>10. CASE OtherWrites
  BY <1>2, <1>10 DEF OtherWrites, Write
<1>11. ASSUME NEW p \in Procs, Read(p) \/ Route(p) \/ Report(p) \/ PatchGet(p)
       PROVE  JobOK'
  BY <1>2, <1>11, ExistedStays DEF Read, Route, Report, PatchGet, object
<1>12. ASSUME NEW p \in Procs, PatchStatus(p)
       PROVE  JobOK'
  BY <1>2, <1>12, ExistedStays DEF PatchStatus, object, Write
<1>13. CASE UNCHANGED vars
  BY <1>2, <1>13, ExistedStays DEF vars
<1> QED BY <1>5, <1>6, <1>7, <1>8, <1>9, <1>10, <1>11, <1>12, <1>13
        DEF Next, Job, UpdateNetworkingCondition

(* A process that is under way has its condition in the ghost, and so have the versions. *)
LEMMA CallStep ==
  ASSUME Inv, [Next]_vars
  PROVE  CallOK'
<1>1. /\ TypeOK /\ CallOK /\ Cached.net \in Nets
      /\ pc \in [Procs -> Labels] /\ call \in [Procs -> CallType]
      /\ held \in [Procs -> SUBSET NetStates]
  BY NodeTypes DEF Inv, TypeOK, Labels
<1>2. UNCHANGED versions => Nets' = Nets
  BY DEF Nets
<1>3. ASSUME UNCHANGED <<pc, call, held>>, Nets' \subseteq Nets
      PROVE  CallOK'
  BY <1>1, <1>3 DEF CallOK, Busy
<1>4. ASSUME NEW o \in Object, Write(o), NEW q \in Procs, Busy(q)
      PROVE  /\ Nets' \subseteq held'[q] /\ held[q] \subseteq held'[q]
             /\ o.net \in held'[q]
  BY <1>1, <1>4, WriteEffect DEF CallOK, Write, Busy
<1>5. CASE OtherWrites
  <2>1. \E o \in Object : Write(o)
    <3>1. ~UNCHANGED versions /\ ~Refresh
      <4>1. \E o : Write(o)
        BY <1>5 DEF OtherWrites
      <4>2. Len(versions) \in Nat
        BY <1>1 DEF TypeOK
      <4>3. Len(versions') = Len(versions) + 1
        BY <1>1, <4>1 DEF Write, TypeOK
      <4>4. Refresh => Len(versions') = Len(versions) - 1
        BY <1>1, <4>2 DEF Refresh, TypeOK, Latest
      <4> QED BY <4>2, <4>3, <4>4
    <3> QED BY <3>1, ObjectMoves
  <2> QED BY <1>1, <1>4, <1>5, <2>1 DEF OtherWrites, CallOK, Busy
<1>6. CASE JobUpdate
  <2>1. CASE UNCHANGED <<object, held>>
    BY <1>2, <1>3, <1>6, <2>1 DEF JobUpdate, object
  <2>2. CASE current /\ Write(Annotated)
    <3>1. Annotated \in Object
      BY <1>6, <2>2, AnnotatedFollows DEF JobUpdate, Follows
    <3> QED BY <1>1, <1>4, <1>6, <2>2, <3>1 DEF JobUpdate, CallOK, Busy
  <2> QED BY <1>6, <2>1, <2>2 DEF JobUpdate
<1>7. CASE JobGet \/ JobMetadata \/ JobTick \/ JobRestart \/ UNCHANGED vars
  BY <1>2, <1>3, <1>7 DEF JobGet, JobMetadata, JobTick, JobRestart, object, vars
<1>8. CASE Refresh
  BY <1>1, <1>3, <1>8, RefreshEffect DEF Refresh
<1>9. ASSUME NEW p \in Procs, Read(p)
      PROVE  CallOK'
  <2>1. Nets' = Nets /\ Cached.net \in Nets
    BY <1>1, <1>2, <1>9 DEF Read, object
  <2> QED BY <1>1, <1>9, <2>1 DEF Read, Goto, CallOK, Busy, CallType
<1>10. ASSUME NEW p \in Procs, Route(p) \/ Report(p) \/ PatchGet(p)
       PROVE  CallOK'
  <2>1. Nets' = Nets /\ held' = held
    BY <1>2, <1>10 DEF Route, Report, PatchGet, object
  <2>2. \A q \in Procs \ {p} : pc'[q] = pc[q] /\ call'[q] = call[q]
    BY <1>1, <1>10 DEF Route, Report, PatchGet, Return, Goto
  <2>3. CASE pc'[p] \in {"idle", "failed"}
    BY <1>1, <2>1, <2>2, <2>3 DEF CallOK, Busy
  <2>4. CASE pc'[p] \notin {"idle", "failed"}
    <3>1. Busy(p) /\ call'[p].read = call[p].read
      BY <1>1, <1>10, <2>4 DEF Route, Report, PatchGet, Return, Goto, Busy, CallType
    <3>2. pc'[p] = "patch" => call'[p].got = Cached.net
      BY <1>1, <1>10, <2>4 DEF Route, Report, PatchGet, Return, Goto, CallType
    <3> QED BY <1>1, <2>1, <2>2, <3>1, <3>2 DEF CallOK, Busy
  <2> QED BY <2>3, <2>4
<1>11. ASSUME NEW p \in Procs, PatchStatus(p)
       PROVE  CallOK'
  <2>1. \A q \in Procs : Busy(q) => Nets' \subseteq held'[q] /\ held[q] \subseteq held'[q]
    <3>1. CASE UNCHANGED <<object, held>>
      BY <1>1, <1>2, <3>1 DEF object, CallOK
    <3>2. CASE Write(Patched(p))
      BY <1>1, <1>4, <3>2, PatchedFollows DEF Follows
    <3> QED BY <1>11, <3>1, <3>2 DEF PatchStatus
  <2>2. \A q \in Procs \ {p} : pc'[q] = pc[q] /\ call'[q] = call[q]
    BY <1>1, <1>11 DEF PatchStatus, Return, Goto
  <2>3. CASE pc'[p] \in {"idle", "failed"}
    BY <1>1, <2>1, <2>2, <2>3 DEF CallOK, Busy
  <2>4. CASE pc'[p] \notin {"idle", "failed"}
    <3>1. Busy(p) /\ pc'[p] = "get" /\ call'[p].read = call[p].read
      BY <1>1, <1>11, <2>4 DEF PatchStatus, Return, Goto, Busy, CallType
    <3> QED BY <1>1, <2>1, <2>2, <3>1 DEF CallOK, Busy
  <2> QED BY <2>3, <2>4
<1> QED BY <1>5, <1>6, <1>7, <1>8, <1>9, <1>10, <1>11
        DEF Next, Job, UpdateNetworkingCondition

(* A report that returns nil is true of a version since the one that was read. *)
LEMMA ReportStep ==
  ASSUME Inv, [Next]_vars, NEW p \in Procs,
         pc[p] \in {"report", "patch"}, pc'[p] = "idle"
  PROVE  call[p].want \in held'[p]
<1>1. TypeOK /\ CallOK /\ pc \in [Procs -> Labels] /\ Busy(p)
  BY DEF Inv, TypeOK, Labels, Busy
<1>2. CASE Report(p)
  BY <1>1, <1>2 DEF Report, Goto, Return, HasCondition, CallOK
<1>3. CASE PatchStatus(p)
  <2>1. CASE Write(Patched(p))
    <3>1. Patched(p) \in Object /\ (call[p].got = call[p].want \/ Patched(p).net = call[p].want)
      BY <1>1, PatchedFollows DEF Follows
    <3>2. held[p] \cup {Patched(p).net} = held'[p]
      BY <1>1, <2>1 DEF Write, Busy
    <3> QED BY <1>1, <1>3, <3>1, <3>2 DEF CallOK, PatchStatus
  <2>2. CASE call[p].got = call[p].want /\ UNCHANGED held
    BY <1>1, <1>3, <2>2 DEF CallOK, PatchStatus
  <2>3. CASE Return(p, "failed") \/ Goto(p, "get")
    BY <1>1, <2>3 DEF Return, Goto
  <2> QED BY <1>3, <2>1, <2>2, <2>3 DEF PatchStatus
<1>4. ASSUME NEW q \in Procs, q # p,
             Read(q) \/ Route(q) \/ Report(q) \/ PatchGet(q) \/ PatchStatus(q)
      PROVE  FALSE
  BY <1>1, <1>4 DEF Read, Route, Report, PatchGet, PatchStatus, Return, Goto
<1>5. ASSUME Read(p) \/ Route(p) \/ PatchGet(p)
      PROVE  FALSE
  BY <1>1, <1>5 DEF Read, Route, PatchGet, Return, Goto
<1>6. ASSUME Refresh \/ OtherWrites \/ Job \/ JobRestart \/ UNCHANGED vars
      PROVE  FALSE
  BY <1>6 DEF Refresh, OtherWrites, Job, JobGet, JobMetadata, JobUpdate, JobTick,
              JobRestart, vars
<1> QED BY <1>2, <1>3, <1>4, <1>5, <1>6 DEF Next, UpdateNetworkingCondition

(* A step but for others' keeps what is annotated, and the job adds only what is missing. *)
LEMMA AnnotationStep ==
  ASSUME Inv, [Next]_vars
  PROVE  /\ budget'["other"] = budget["other"] =>
              \A k \in Keys : Node.ann[k] # Unset => Node'.ann[k] = Node.ann[k]
         /\ job' # job => \A k \in Keys : IsExisted(Node, k[1]) => Node'.ann[k] = Node.ann[k]
<1>1. CASE UNCHANGED versions \/ Refresh
  BY <1>1, ExistedStays, RefreshEffect DEF Inv
<1>2. OtherWrites => budget'["other"] # budget["other"]
  BY DEF OtherWrites, Spend, Inv, TypeOK, BudgetKeys
<1>3. ASSUME NEW o \in Object, Write(o), Keeps(o) \/ OtherWrites,
             job' = job \/ (job.pc = "update" /\ current /\ o = Annotated)
      PROVE  /\ budget'["other"] = budget["other"] =>
                  \A k \in Keys : Node.ann[k] # Unset => Node'.ann[k] = Node.ann[k]
             /\ job' # job => \A k \in Keys : IsExisted(Node, k[1]) => Node'.ann[k] = Node.ann[k]
  <2>1. Node' = o
    BY <1>3, WriteEffect DEF Inv
  <2> QED BY <1>2, <1>3, <2>1, AnnotatedFollows DEF Keeps
<1> QED BY <1>1, <1>3, ObjectMoves

(* The invariant holds at the start. *)
LEMMA InvInit == Init => Inv
<1> SUFFICES ASSUME Init PROVE Inv
  OBVIOUS
<1>1. NoAnnotation \in Annotations /\ [ann |-> NoAnnotation, net |-> "unset"] \in Object
  BY DEF NoAnnotation, Annotations, Object, NetStates
<1>2. versions \in Seq(Object) /\ Latest = 1
  BY <1>1 DEF Init, Latest
<1>3. job \in JobType /\ call \in [Procs -> CallType]
  BY <1>1, ObjectAssumption DEF Init, JobStart, JobType, Kinds, NoCall, CallType, NetStates
<1>4. TypeOK
  <2>1. pc \in [Procs -> Labels] /\ held \in [Procs -> SUBSET NetStates]
    BY DEF Init, Labels
  <2>2. budget \in [BudgetKeys -> Nat] /\ current \in BOOLEAN
    BY ObjectAssumption DEF Init
  <2>3. Latest \in 1 .. MaxLag + 1
    BY <1>2, ObjectAssumption
  <2> QED BY <1>2, <1>3, <2>1, <2>2, <2>3 DEF TypeOK, Labels
<1> QED BY <1>4 DEF Init, Inv, JobOK, DoneIsAnnotated, CallOK, Busy, JobStart

(* ... and every step keeps it. *)
LEMMA InvStep == Inv /\ [Next]_vars => Inv'
BY TypeStep, JobStep, CallStep DEF Inv

(* The invariant holds always. *)
LEMMA InvAlways == Spec => []Inv
BY InvInit, InvStep, PTL DEF Spec, Safety

(* Every variable of the node's object and of its writers keeps its type. *)
THEOREM TypeCorrect == Spec => []TypeOK
<1>1. Inv => TypeOK
  BY DEF Inv
<1> QED BY <1>1, InvAlways, PTL

(* The annotation job ends only on a node with an instance id and a zone. *)
THEOREM DoneOnlyAnnotated == Spec => []DoneIsAnnotated
<1>1. Inv => DoneIsAnnotated
  BY DEF Inv, JobOK
<1> QED BY <1>1, InvAlways, PTL

(* The job loses no annotation and gives none twice, however it meets other writers. *)
THEOREM NoAnnotationLost == Spec => AnnotationsKept
<1>1. Inv /\ [Next]_vars =>
        [/\ budget'["other"] = budget["other"] =>
              \A k \in Keys : Node.ann[k] # Unset => Node'.ann[k] = Node.ann[k]
         /\ job' # job => \A k \in Keys : IsExisted(Node, k[1]) => Node'.ann[k] = Node.ann[k]]_vars
  BY AnnotationStep
<1> QED BY <1>1, InvAlways, PTL DEF Spec, Safety, AnnotationsKept

(* A report of the network condition that succeeded was true since it was read. *)
THEOREM ReportsTrue == Spec => ReportsHold
<1>1. Inv /\ [Next]_vars =>
        [\A p \in Procs :
           pc[p] \in {"report", "patch"} /\ pc'[p] = "idle" => call[p].want \in held'[p]]_vars
  BY ReportStep
<1> QED BY <1>1, InvAlways, PTL DEF Spec, Safety, ReportsHold
=============================================================================
