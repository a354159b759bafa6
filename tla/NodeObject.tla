----------------------------- MODULE NodeObject -----------------------------
(***************************************************************************)
(* One Node object of the API server and all who write it: the worker and  *)
(* the sync of the route controller, which read it from an informer's      *)
(* cache and patch its NodeNetworkUnavailable condition; the annotation    *)
(* job of the node, which reads it from the API server and updates its     *)
(* instance id and its zone; and everyone else.  One action is one call of *)
(* the API server, of the cache or of the metadata service.                *)
(*                                                                         *)
(* The object is what is left of the sequence of its versions: the first   *)
(* is the one in the informer's cache, the last the API server's.  Of the  *)
(* resource versions only this counts: whether the one that the job read   *)
(* is still the last.                                                      *)
(***************************************************************************)
EXTENDS Naturals, Sequences

CONSTANTS
  Values,      \* what an annotation of the node may be set to
  Unset,       \* an annotation key that the node does not carry
  Metadata,    \* [Kinds -> Values]: what the metadata service says of the node
  MaxTries,    \* updateNodeStatusMaxRetries
  MaxLag,      \* bound: how many versions the informer may lag behind
  InitBudgets  \* bounds: reports of the worker, faults, restarts, others' writes

Kinds      == {"instance", "zone"}
Keys       == Kinds \X {"kce1", "kce2"}
NetStates  == {"unset", "ok", "down"}
Procs      == {"worker", "sync"}
BudgetKeys == {"report", "fault", "restart", "other"}

ASSUME ObjectAssumption ==
  /\ Unset \notin Values
  /\ Metadata \in [Kinds -> Values]
  /\ MaxTries \in Nat \ {0} /\ MaxLag \in Nat \ {0}
  /\ InitBudgets \subseteq [BudgetKeys -> Nat]

VARIABLES
  versions,  \* the versions from the cache's to the API server's
  current,   \* the node has the resource version that the job read
  job,       \* the annotation job: where it is and the annotations it read
  pc,        \* where the worker and the sync are
  call,      \* the conditions they read, and their updateNetworkingCondition
  held,      \* ghost: the conditions of the node since the version they read
  budget     \* what is left of the bounds

vars == <<versions, current, job, pc, call, held, budget>>
object == <<versions, current>>

Annotations == [Keys -> Values \cup {Unset}]
Object      == [ann : Annotations, net : NetStates]

Latest == Len(versions)
Cached == versions[1]
Node   == versions[Latest]

NoAnnotation == [k \in Keys |-> Unset]

JobStart == [pc |-> "get", kind |-> "instance", base |-> NoAnnotation]

NoCall == [read |-> "unset", want |-> "ok", got |-> "unset", tries |-> 0]

Init ==
  /\ versions = <<[ann |-> NoAnnotation, net |-> "unset"]>>
  /\ current = FALSE
  /\ job = JobStart
  /\ pc = [p \in Procs |-> "idle"]
  /\ call = [p \in Procs |-> NoCall]
  /\ held = [p \in Procs |-> {}]
  /\ budget \in InitBudgets

Spend(k) == budget[k] > 0 /\ budget' = [budget EXCEPT ![k] = @ - 1]

(* A write of the object; MaxLag bounds how far the cache is left behind. *)
Write(o) ==
  /\ Latest <= MaxLag
  /\ versions' = Append(versions, o)
  /\ current' = FALSE
  /\ held' = [p \in Procs |-> IF pc[p] \in {"idle", "failed"}
                                   THEN {} ELSE held[p] \cup {o.net}]

(* The watch shows the informer the next version. *)
Refresh ==
  /\ Latest > 1
  /\ versions' = Tail(versions)
  /\ UNCHANGED <<current, job, pc, call, held, budget>>

(***************************************************************************)
(* Everyone else: an annotation, new or in place of another, the condition *)
(* or any part of the object that is not modelled, as a kubelet's          *)
(* heartbeat.  Nobody is assumed to take an annotation of the two kinds    *)
(* away: DoneIsAnnotated rests on that.                                    *)
(***************************************************************************)
OtherWrites ==
  /\ Spend("other")
  /\ \/ \E k \in Keys, v \in Values : Write([Node EXCEPT !.ann[k] = v])
     \/ \E s \in {Node.net, "ok", "down"} : Write([Node EXCEPT !.net = s])
  /\ UNCHANGED <<job, pc, call>>

-----------------------------------------------------------------------------
(***************************************************************************)
(* The annotation job: EnsureNodeInstanceId, then EnsureNodeZone, and from *)
(* the start again 20 seconds after any of their calls has failed.         *)
(***************************************************************************)
JobGoes(label) == job' = [job EXCEPT !.pc = label]
JobWaits == job' = [JobStart EXCEPT !.pc = "wait"]

(* One of the two is done. *)
Ensured ==
  job' = IF job.kind = "instance"
         THEN [JobStart EXCEPT !.kind = "zone"]
         ELSE [JobStart EXCEPT !.pc = "done"]

IsExisted(o, kind) == \E k \in Keys : k[1] = kind /\ o.ann[k] # Unset

JobGet ==
  /\ job.pc = "get"
  /\ \/ /\ IF IsExisted(Node, job.kind)
           THEN Ensured
           ELSE job' = [job EXCEPT !.pc = "metadata", !.base = Node.ann]
        /\ current' = TRUE
        /\ UNCHANGED budget
     \/ Spend("fault") /\ JobWaits /\ UNCHANGED current
  /\ UNCHANGED <<versions, pc, call, held>>

JobMetadata ==
  /\ job.pc = "metadata"
  /\ \/ JobGoes("update") /\ UNCHANGED budget
     \/ Spend("fault") /\ JobWaits
  /\ UNCHANGED <<object, pc, call, held>>

Annotated == [Node EXCEPT !.ann = [job.base EXCEPT ![<<job.kind, "kce2">>] = Metadata[job.kind]]]

MutJobUpdateBlind ==
  /\ job.pc = "update"
  /\ Write(Annotated) /\ Ensured
  /\ UNCHANGED <<pc, call, budget>>

MutJobUpdateIgnored ==
  /\ job.pc = "update"
  /\ \/ current /\ Write(Annotated) /\ Ensured
     \/ ~current /\ Ensured /\ UNCHANGED <<object, held>>
  /\ UNCHANGED <<pc, call, budget>>

(***************************************************************************)
(* Update sends the whole object with the resource version it was read     *)
(* with: a conflict when that is no longer the node's.                     *)
(***************************************************************************)
JobUpdate ==
  /\ job.pc = "update"
  /\ \/ current /\ Write(Annotated) /\ Ensured /\ UNCHANGED budget
     \/ ~current /\ JobWaits /\ UNCHANGED <<object, held, budget>>
     \/ /\ Spend("fault")
        /\ JobWaits
        /\ \/ UNCHANGED <<object, held>>
           \/ current /\ Write(Annotated)
  /\ UNCHANGED <<pc, call>>

MutJobTick ==
  /\ job.pc = "wait"
  /\ JobGoes("metadata")
  /\ UNCHANGED <<object, pc, call, held, budget>>

JobTick ==
  /\ job.pc = "wait"
  /\ job' = JobStart
  /\ UNCHANGED <<object, pc, call, held, budget>>

(* The init container is run again, also after it was done. *)
JobRestart ==
  /\ Spend("restart")
  /\ job' = JobStart
  /\ UNCHANGED <<object, pc, call, held>>

-----------------------------------------------------------------------------
(***************************************************************************)
(* The worker and the sync: they read the node from the cache, add its     *)
(* route, and tell the node how that went.  The sync tells of success only *)
(* and goes on when it failed.  A process is "idle" after a call that      *)
(* returned nil and "failed" after an error.                               *)
(***************************************************************************)
Goto(p, label) == pc' = [pc EXCEPT ![p] = label]

Return(p, label) ==
  /\ Goto(p, label)
  /\ call' = [call EXCEPT ![p] = NoCall]

Nets == {versions[v].net : v \in DOMAIN versions}

Read(p) ==
  /\ pc[p] \in {"idle", "failed"}
  /\ IF p = "worker" THEN Spend("report") ELSE UNCHANGED budget
  /\ Goto(p, "route")
  /\ call' = [call EXCEPT ![p].read = Cached.net]
  /\ held' = [held EXCEPT ![p] = Nets]
  /\ UNCHANGED <<object, job>>

Wants(p) == IF p = "worker" THEN {"ok", "down"} ELSE {"ok"}

(* addRouteForNode has succeeded or not. *)
Route(p) ==
  /\ pc[p] = "route"
  /\ \/ /\ Goto(p, "report")
        /\ \E want \in Wants(p) : call' = [call EXCEPT ![p].want = want]
        /\ UNCHANGED budget
     \/ p = "sync" /\ Spend("fault") /\ Return(p, "failed")
  /\ UNCHANGED <<object, job, held>>

MutHasCondition(net, want) == net # "unset"

HasCondition(net, want) == net = want

(* updateNetworkingCondition looks at the node as its caller read it. *)
Report(p) ==
  /\ pc[p] = "report"
  /\ IF HasCondition(call[p].read, call[p].want)
     THEN Return(p, "idle") ELSE Goto(p, "get") /\ UNCHANGED call
  /\ UNCHANGED <<object, job, held, budget>>

(* PatchM reads the node again, from the cache too. *)
PatchGet(p) ==
  /\ pc[p] = "get"
  /\ \/ /\ Goto(p, "patch")
        /\ call' = [call EXCEPT ![p].got = Cached.net]
        /\ UNCHANGED budget
     \/ Spend("fault") /\ Return(p, "failed")
  /\ UNCHANGED <<object, job, held>>

MutPatched(p) == Node

(***************************************************************************)
(* The patch holds what the wanted condition changes in the node as PatchM *)
(* read it: the status only when it was another one, the times unless they *)
(* are of the same second.  It carries no resource version.                *)
(***************************************************************************)
Patched(p) ==
  IF call[p].got = call[p].want THEN Node ELSE [Node EXCEPT !.net = call[p].want]

MutTriesLeft(tries) == tries < MaxTries

TriesLeft(tries) == tries + 1 < MaxTries

PatchStatus(p) ==
  /\ pc[p] = "patch"
  /\ \/ Write(Patched(p)) /\ Return(p, "idle") /\ UNCHANGED budget
     \/ /\ call[p].got = call[p].want
        /\ Return(p, "idle")
        /\ UNCHANGED <<object, held, budget>>
     \/ /\ Spend("fault")
        /\ Return(p, "failed")
        /\ UNCHANGED <<object, held>> \/ Write(Patched(p))
     \/ /\ Spend("fault")     \* a conflict: the API server gave up
        /\ IF TriesLeft(call[p].tries)
           THEN /\ Goto(p, "get")
                /\ call' = [call EXCEPT ![p].tries = @ + 1, ![p].got = "unset"]
           ELSE Return(p, "failed")
        /\ UNCHANGED <<object, held>>
  /\ UNCHANGED job

-----------------------------------------------------------------------------
Job == JobGet \/ JobMetadata \/ JobUpdate \/ JobTick

UpdateNetworkingCondition(p) ==
  Route(p) \/ Report(p) \/ PatchGet(p) \/ PatchStatus(p)

Next ==
  \/ Refresh \/ OtherWrites
  \/ Job \/ JobRestart
  \/ \E p \in Procs : Read(p) \/ UpdateNetworkingCondition(p)

Safety == Init /\ [][Next]_vars

(***************************************************************************)
(* The watch goes on, the kubelet and the metadata service let the job     *)
(* make its calls, the sync comes round every five minutes, and the worker *)
(* ends what it began.  Nothing is asked of the worker's events and of the *)
(* other writers.                                                          *)
(***************************************************************************)
Fairness ==
  /\ WF_vars(Refresh) /\ WF_vars(Job) /\ WF_vars(Read("sync"))
  /\ \A p \in Procs : WF_vars(UpdateNetworkingCondition(p))

Spec == Safety /\ Fairness

-----------------------------------------------------------------------------
(* Every variable keeps its type, and the informer lags MaxLag versions at most. *)
JobType ==
  [pc : {"get", "metadata", "update", "wait", "done"}, kind : Kinds, base : Annotations]

CallType ==
  [read : NetStates, want : {"ok", "down"}, got : NetStates, tries : 0 .. MaxTries - 1]

TypeOK ==
  /\ versions \in Seq(Object) /\ Latest \in 1 .. MaxLag + 1
  /\ current \in BOOLEAN
  /\ job \in JobType
  /\ pc \in [Procs -> {"idle", "failed", "route", "report", "get", "patch"}]
  /\ call \in [Procs -> CallType]
  /\ held \in [Procs -> SUBSET NetStates]
  /\ budget \in [BudgetKeys -> Nat]

(***************************************************************************)
(* The job shares the annotations with others (the keys of KCE 1.0 are not *)
(* its own) and writes the whole object back: only others replace what is  *)
(* annotated, what they write in the meantime stays, and where someone has *)
(* named the instance or the zone by either key the job does not name it   *)
(* again.                                                                  *)
(***************************************************************************)
AnnotationsKept ==
  [][/\ budget'["other"] = budget["other"] =>
          \A k \in Keys : Node.ann[k] # Unset => Node'.ann[k] = Node.ann[k]
     /\ job' # job => \A k \in Keys : IsExisted(Node, k[1]) => Node'.ann[k] = Node.ann[k]]_vars

(***************************************************************************)
(* The init container lets the pod of the node start only when the node    *)
(* carries an instance id and a zone, whatever failed and whoever else has *)
(* written the node before, so long as nobody removes them.                *)
(***************************************************************************)
DoneIsAnnotated ==
  job.pc = "done" => \A kind \in Kinds : IsExisted(Node, kind)

(***************************************************************************)
(* An updateNetworkingCondition that returned nil tells the truth of some  *)
(* version of the node that is no older than the one its caller had read:  *)
(* also when the cache was behind, when it found nothing to patch, or when *)
(* its patch left out the status.                                          *)
(***************************************************************************)
ReportsHold ==
  [][\A p \in Procs :
       pc[p] \in {"report", "patch"} /\ pc'[p] = "idle" => call[p].want \in held'[p]]_vars

(***************************************************************************)
(* The reports are made from a stale cache and by two processes, and a     *)
(* patch may leave the status out because it was right in the cache.  Once *)
(* only the sync reports, its success is the condition of the node.        *)
(***************************************************************************)
ConditionSettles == <>[](Node.net = "ok")

(* The job ends: its updates meet versions of others, but not for ever. *)
JobEnds == <>[](job.pc = "done")
=============================================================================
