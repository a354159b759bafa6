----------------------------- MODULE RouteCalls -----------------------------
(***************************************************************************)
(* What a caller of the route operations may rely on, whatever happens to  *)
(* the requests below them: a call changes at most the route it is about,  *)
(* and what it answers was true at some moment between its start and its   *)
(* end.  A call may always fail.                                           *)
(***************************************************************************)
EXTENDS Naturals

CONSTANTS
  Callers,      \* who calls
  Cidrs,        \* the CIDRs of the VPC
  DefaultCidr,  \* 0.0.0.0/0, which a list leaves out
  Instances,    \* the instances a route can be asked for
  NoInst,       \* in place of an instance: a route without next hop
  NoRoute       \* in place of a route's instance: there is no route

VARIABLES
  table,   \* the instance each CIDR leads to
  busy,    \* a call of the caller is going on
  call,    \* that call
  seen,    \* the tables there have been since it started
  did,     \* it has changed the table
  answer   \* what it returned

vars == <<table, busy, call, seen, did, answer>>

Hops   == Instances \cup {NoInst}
Tables == [Cidrs -> Hops \cup {NoRoute}]
Calls  == [op : {"create", "find", "list", "delete"}, cidr : Cidrs, inst : Instances]
NoCall == [op |-> "none", cidr |-> DefaultCidr, inst |-> NoInst]

Part(t, cs)  == [c \in Cidrs |-> IF c \in cs THEN t[c] ELSE NoRoute]
Nothing      == [c \in Cidrs |-> NoRoute]
Answer(kind) == [kind |-> kind, routes |-> Nothing]
Found(t)     == [kind |-> "ok", routes |-> t]
NoAnswer     == Answer("none")

(* What call k may answer after it saw the tables ts, and did or did not act. *)
Honest(k, ts, acted, a) ==
  \/ a = Answer("failed")
  \/ k.op = "find"   /\ \E t \in ts : a = Found(Part(t, {k.cidr}))
  \/ k.op = "list"   /\ \E t \in ts : a = Found(Part(t, Cidrs \ {DefaultCidr}))
  \/ k.op = "create" /\ acted /\ a \in {Answer("ok"), Answer("panic")}
  \/ k.op = "create" /\ a = Answer("same") /\ \E t \in ts : t[k.cidr] # NoRoute
  \/ k.op = "delete" /\ a = Answer("ok")   /\ \E t \in ts : t[k.cidr] = NoRoute

Init ==
  /\ table \in Tables
  /\ busy = [p \in Callers |-> FALSE]
  /\ call = [p \in Callers |-> NoCall]
  /\ seen = [p \in Callers |-> {}]
  /\ did = [p \in Callers |-> FALSE]
  /\ answer = [p \in Callers |-> NoAnswer]

(* Every call that is going on sees the table that a step leaves. *)
See == seen' = [p \in Callers |-> IF busy'[p] THEN seen[p] \cup {table'} ELSE {}]

Start(p) ==
  /\ ~busy[p]
  /\ busy' = [busy EXCEPT ![p] = TRUE]
  /\ \E k \in Calls : call' = [call EXCEPT ![p] = k]
  /\ answer' = [answer EXCEPT ![p] = NoAnswer]
  /\ See
  /\ UNCHANGED <<table, did>>

Install(p) ==
  /\ call[p].op = "create" /\ table[call[p].cidr] = NoRoute
  /\ table' = [table EXCEPT ![call[p].cidr] = call[p].inst]

Withdraw(p) ==
  /\ call[p].op = "delete" /\ table[call[p].cidr] # NoRoute
  /\ table' = [table EXCEPT ![call[p].cidr] = NoRoute]

Return(p) ==
  /\ busy' = [busy EXCEPT ![p] = FALSE]
  /\ call' = [call EXCEPT ![p] = NoCall]
  /\ \E a \in [kind : {"ok", "same", "panic", "failed"}, routes : Tables] :
       /\ Honest(call[p], seen[p] \cup {table'}, did[p] \/ table' # table, a)
       /\ answer' = [answer EXCEPT ![p] = a]

(* A step of a call changes the table or not, and ends the call or not. *)
Step(p) ==
  /\ busy[p]
  /\ Install(p) \/ Withdraw(p) \/ UNCHANGED table
  /\ Return(p) \/ UNCHANGED <<busy, call, answer>>
  /\ did' = [did EXCEPT ![p] = busy'[p] /\ (@ \/ table' # table)]
  /\ See

Foreign ==
  /\ \E c \in Cidrs, i \in Hops \cup {NoRoute} : table' = [table EXCEPT ![c] = i]
  /\ See
  /\ UNCHANGED <<busy, call, did, answer>>

Next == Foreign \/ \E p \in Callers : Start(p) \/ Step(p)

Spec == Init /\ [][Next]_vars
=============================================================================
