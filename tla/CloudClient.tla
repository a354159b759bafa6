---------------------------- MODULE CloudClient -----------------------------
(***************************************************************************)
(* The four route operations as the requests they consist of.  Each makes  *)
(* a client, which describes the VPC, and sends its own requests: for each *)
(* it takes the credentials, sends, sends again after an error of the      *)
(* transport, and once more with new credentials when the token expired.   *)
(* A creation then polls for the route by the id it got; a deletion looks  *)
(* the route up and deletes it by its id.                                  *)
(*                                                                         *)
(* One action is one request with its answer, or the loss of either.  The  *)
(* API acts on a request before the connection ends, or never.  Calls that *)
(* change routes are made under routeLock, one at a time.                  *)
(***************************************************************************)
EXTENDS Naturals

CONSTANTS
  Callers,      \* goroutines that call
  Cidrs,        \* the CIDRs of the VPC
  DefaultCidr,  \* 0.0.0.0/0, which ListRoutes leaves out
  Instances,    \* the instances a route can be asked for
  NoInst,       \* in place of an instance: a route without next hop
  NoRoute,      \* in place of a route's instance: there is no route
  Ids,          \* ids the API gives to routes
  NoId,         \* in place of an id
  InitCloud,    \* the route tables there may be at the start
  Asks,         \* the calls that are made
  Attempts,     \* how often Go sends a request (retry-go's default)
  Timeout,      \* DefaultTimeout of the poll
  Interval,     \* DefaultWaitForInterval
  MaxToken,     \* bound: how often the credentials are renewed
  MaxForeign    \* bound: changes of routes by others

ASSUME ClientAssumption ==
  /\ DefaultCidr \in Cidrs
  /\ NoRoute \notin Instances \cup {NoInst}
  /\ NoId \notin Ids
  /\ InitCloud \subseteq [Cidrs -> Instances \cup {NoInst, NoRoute}]
  /\ Asks \subseteq
       [op : {"create", "find", "list", "delete"}, cidr : Cidrs, inst : Instances]
  /\ Attempts \in Nat \ {0}
  /\ Interval \in Nat \ {0} /\ Timeout \in Nat \ {0}
  /\ MaxToken \in Nat /\ MaxForeign \in Nat

VARIABLES
  cloud,    \* the VPC's routes: the instance each CIDR leads to
  ids,      \* their ids
  issued,   \* the newest credentials in the provider's file
  live,     \* the oldest credentials the API still accepts
  cache,    \* the credentials GetAKSK returns
  foreign,  \* what is left of MaxForeign
  call,     \* the operation of each caller and its arguments
  at,       \* the request it is at
  req,      \* how far that request is
  rid,      \* the id of the route it created or found
  time,     \* the poll's timeout, counting down
  seen,     \* ghost: the route tables since the call started
  did,      \* ghost: the call has changed the route table
  answer    \* what the last call returned

vars  == <<cloud, ids, issued, live, cache, foreign, call, at, req, rid, time,
           seen, did, answer>>
creds == <<issued, live, cache>>
table == <<cloud, ids, foreign>>
place == <<call, at, rid, time, answer>>
ghost == <<seen, did>>

Hops   == Instances \cup {NoInst}
Tables == [Cidrs -> Hops \cup {NoRoute}]
NoCall == [op |-> "none", cidr |-> DefaultCidr, inst |-> NoInst]

(* token is in the headers, key signs; again: sent after a reload. *)
Requests == [phase : {"sign", "send", "reload"}, tries : 0 .. Attempts - 1,
             again : BOOLEAN, token : 0 .. MaxToken, key : 0 .. MaxToken]

Request(phase, tries, again, token, key) ==
  [phase |-> phase, tries |-> tries, again |-> again, token |-> token, key |-> key]

Unsigned == Request("sign", 0, FALSE, 0, 0)

Nothing      == [c \in Cidrs |-> NoRoute]
Part(t, cs)  == [c \in Cidrs |-> IF c \in cs THEN t[c] ELSE NoRoute]
Answer(kind) == [kind |-> kind, routes |-> Nothing]
Found(t)     == [kind |-> "ok", routes |-> t]

Busy(p)  == at[p] # "idle"
Cidr(p)  == call[p].cidr
Owns(p)  == cloud[Cidr(p)] # NoRoute /\ ids[Cidr(p)] = rid[p]
Fresh(i) == (\A c \in Cidrs : ids[c] # i) /\ (\A p \in Callers : rid[p] # i)

Init ==
  /\ cloud \in InitCloud
  /\ ids \in [Cidrs -> Ids] /\ \A c, d \in Cidrs : c # d => ids[c] # ids[d]
  /\ issued = 0 /\ live = 0 /\ cache = 0
  /\ foreign = MaxForeign
  /\ call = [p \in Callers |-> NoCall]
  /\ at = [p \in Callers |-> "idle"]
  /\ req = [p \in Callers |-> Unsigned]
  /\ rid = [p \in Callers |-> NoId]
  /\ time = [p \in Callers |-> Timeout]
  /\ seen = [p \in Callers |-> {}]
  /\ did = [p \in Callers |-> FALSE]
  /\ answer = [p \in Callers |-> Answer("none")]

(* Every call that is going on sees the table that a step leaves. *)
See == seen' = [p \in Callers |-> IF at'[p] # "idle" THEN seen[p] \cup {cloud'} ELSE {}]

Note(p) ==
  /\ See
  /\ did' = [did EXCEPT ![p] = at'[p] # "idle" /\ (@ \/ cloud' # cloud)]

-----------------------------------------------------------------------------
(* The API gives every route an id of its own. *)
Put(c, i) ==
  \E id \in Ids :
    /\ Fresh(id)
    /\ cloud' = [cloud EXCEPT ![c] = i]
    /\ ids' = [ids EXCEPT ![c] = id]

Drop(c) == cloud' = [cloud EXCEPT ![c] = NoRoute] /\ UNCHANGED ids

(* Others who create or delete a route of the VPC. *)
Foreign ==
  /\ foreign > 0 /\ foreign' = foreign - 1
  /\ \E c \in Cidrs : \/ cloud[c] = NoRoute /\ \E i \in Hops : Put(c, i)
                      \/ cloud[c] # NoRoute /\ Drop(c)
  /\ UNCHANGED <<creds, place, req, did>>
  /\ See

(* The credentials are renewed in time: the newest are always accepted. *)
Renew ==
  /\ issued < MaxToken
  /\ issued' = issued + 1
  /\ UNCHANGED <<live, cache, table, place, req, ghost>>

Expire ==
  /\ live < issued
  /\ live' = live + 1
  /\ UNCHANGED <<issued, cache, table, place, req, ghost>>

-----------------------------------------------------------------------------
Changes(k) == k.op \in {"create", "delete"}

MutMayStart(k) == TRUE

(* routeLock is taken around CreateRoute and DeleteRoute. *)
MayStart(k) == Changes(k) => \A q \in Callers : ~Changes(call[q])

Invoke(p) ==
  /\ ~Busy(p)
  /\ \E k \in Asks : MayStart(k) /\ call' = [call EXCEPT ![p] = k]
  /\ at' = [at EXCEPT ![p] = "vpcs"]
  /\ answer' = [answer EXCEPT ![p] = Answer("none")]
  /\ UNCHANGED <<creds, table, req, rid, time, did>>
  /\ See

(* The call goes on with request r, or ends with answer a. *)
Ask(p, r) ==
  /\ at' = [at EXCEPT ![p] = r]
  /\ req' = [req EXCEPT ![p] = Unsigned]
  /\ UNCHANGED <<call, time, answer>>

Return(p, a) ==
  /\ at' = [at EXCEPT ![p] = "idle"]
  /\ call' = [call EXCEPT ![p] = NoCall]
  /\ req' = [req EXCEPT ![p] = Unsigned]
  /\ rid' = [rid EXCEPT ![p] = NoId]
  /\ time' = [time EXCEPT ![p] = Timeout]
  /\ answer' = [answer EXCEPT ![p] = a]

MutPollAgain(p) ==
  /\ req' = [req EXCEPT ![p] = Unsigned]
  /\ UNCHANGED place

(* WaitForAllRouteEntriesAvailable after a GetRoute that failed. *)
PollAgain(p) ==
  IF time[p] > Interval
  THEN /\ time' = [time EXCEPT ![p] = @ - Interval]
       /\ req' = [req EXCEPT ![p] = Unsigned]
       /\ UNCHANGED <<call, at, rid, answer>>
  ELSE Return(p, Answer("failed"))

MutFail(p) ==
  IF at[p] = "poll" THEN PollAgain(p)
  ELSE Return(p, Answer(IF at[p] = "get" THEN "ok" ELSE "failed"))

(* The error ends the call; a GetRoute's only makes the poll go on. *)
Fail(p) == IF at[p] = "poll" THEN PollAgain(p) ELSE Return(p, Answer("failed"))

-----------------------------------------------------------------------------
(* GetAKSK, the headers and the signer; the provider may fail. *)
Sign(p) ==
  /\ Busy(p) /\ req[p].phase = "sign"
  /\ \/ req' = [req EXCEPT ![p] = Request("send", 0, FALSE, cache, cache)] /\ UNCHANGED place
     \/ Fail(p)
  /\ UNCHANGED <<creds, table>>
  /\ Note(p)

Sending(p)  == Busy(p) /\ req[p].phase = "send"
Accepted(p) == req[p].token >= live

(* What the API does on a creation or a deletion it accepts. *)
Act(p) ==
  /\ \/ at[p] = "create" /\ cloud[Cidr(p)] = NoRoute /\ Put(Cidr(p), call[p].inst)
     \/ at[p] = "delete" /\ Owns(p) /\ Drop(Cidr(p))
  /\ UNCHANGED foreign

MutTriesLeft(r) == TRUE

TriesLeft(r) == r.tries + 1 < Attempts

(***************************************************************************)
(* The request or its answer is lost.  shouldRetry: every such error has a *)
(* Timeout method, so Go sends again, whatever the method of the request.  *)
(***************************************************************************)
Lost(p) ==
  /\ Sending(p)
  /\ UNCHANGED table \/ (Accepted(p) /\ Act(p))
  /\ IF TriesLeft(req[p])
     THEN req' = [req EXCEPT ![p].tries = @ + 1] /\ UNCHANGED place
     ELSE Fail(p)
  /\ UNCHANGED creds
  /\ Note(p)

(* Any other status or body than the operation expects: never sent again. *)
Refused(p) ==
  /\ Sending(p)
  /\ UNCHANGED table \/ (Accepted(p) /\ Act(p))
  /\ Fail(p)
  /\ UNCHANGED creds
  /\ Note(p)

(* SecurityTokenExpired: reload and send once more. *)
Expired(p) ==
  /\ Sending(p) /\ ~Accepted(p)
  /\ IF req[p].again
     THEN Fail(p)
     ELSE req' = [req EXCEPT ![p].phase = "reload"] /\ UNCHANGED place
  /\ UNCHANGED <<creds, table>>
  /\ Note(p)

MutResend(p, g) ==
  /\ req' = [req EXCEPT ![p] = Request("send", 0, FALSE, req[p].token, g)]
  /\ UNCHANGED place

(* ReloadAKSK: the signer gets the new key; the client's headers stay. *)
Resend(p, g) ==
  /\ req' = [req EXCEPT ![p] = Request("send", 0, TRUE, req[p].token, g)]
  /\ UNCHANGED place

MutReload(p) ==
  /\ Busy(p) /\ req[p].phase = "reload"
  /\ Resend(p, cache)
  /\ UNCHANGED <<creds, table>>
  /\ Note(p)

Reload(p) ==
  /\ Busy(p) /\ req[p].phase = "reload"
  /\ \/ cache' = issued /\ Resend(p, issued)
     \/ Fail(p) /\ UNCHANGED cache
  /\ UNCHANGED <<issued, live, table>>
  /\ Note(p)

-----------------------------------------------------------------------------
(* Requests that are accepted and whose answer arrives. *)
Answered(p, r) == Sending(p) /\ Accepted(p) /\ at[p] = r /\ UNCHANGED creds

(* NewRouteClient; DeleteRoute makes a second client for its FindRoute. *)
Own(op) == CASE op = "create" -> "create" [] op = "find"   -> "get"
             [] op = "list"   -> "list"   [] op = "delete" -> "vpcs2"

DescribeVpcs(p) ==
  /\ \/ Answered(p, "vpcs")  /\ Ask(p, Own(call[p].op))
     \/ Answered(p, "vpcs2") /\ Ask(p, "get")
  /\ UNCHANGED <<table, rid>>
  /\ Note(p)

CreateRoute(p) ==
  /\ Answered(p, "create")
  /\ \/ /\ Act(p)
        /\ rid' = [rid EXCEPT ![p] = ids'[Cidr(p)]]
        /\ Ask(p, "poll")
     \/ cloud[Cidr(p)] # NoRoute /\ Return(p, Answer("same")) /\ UNCHANGED table
  /\ Note(p)

GetRoutes(p) ==
  LET c == Cidr(p) IN
  /\ Answered(p, "get")
  /\ \/ call[p].op = "find" /\ Return(p, Found(Part(cloud, {c})))
     \/ call[p].op = "delete" /\ cloud[c] = NoRoute /\ Return(p, Answer("ok"))
     \/ /\ call[p].op = "delete" /\ cloud[c] # NoRoute
        /\ rid' = [rid EXCEPT ![p] = ids[c]]
        /\ Ask(p, "delete")
  /\ UNCHANGED table
  /\ Note(p)

ListRoutes(p) ==
  /\ Answered(p, "list")
  /\ Return(p, Found(Part(cloud, Cidrs \ {DefaultCidr})))
  /\ UNCHANGED table
  /\ Note(p)

(* The poll by id may be answered before the route is there to be seen. *)
GetRoute(p) ==
  /\ Answered(p, "poll")
  /\ \/ Owns(p) /\ Return(p, Answer("ok"))
     \/ Return(p, Answer("panic"))
  /\ UNCHANGED table
  /\ Note(p)

DeleteRoute(p) ==
  /\ Answered(p, "delete")
  /\ \/ Act(p) /\ Return(p, Answer("ok"))
     \/ ~Owns(p) /\ Return(p, Answer("failed")) /\ UNCHANGED table
  /\ Note(p)

-----------------------------------------------------------------------------
Step(p) ==
  \/ Sign(p) \/ Lost(p) \/ Refused(p) \/ Expired(p) \/ Reload(p)
  \/ DescribeVpcs(p) \/ CreateRoute(p) \/ GetRoutes(p) \/ ListRoutes(p)
  \/ GetRoute(p) \/ DeleteRoute(p)

Next ==
  \/ Foreign \/ Renew \/ Expire
  \/ \E p \in Callers : Invoke(p) \/ Step(p)

Safety == Init /\ [][Next]_vars

(* A call that is going on goes on, and callers call again and again. *)
Fairness == \A p \in Callers : WF_vars(Step(p)) /\ WF_vars(Invoke(p))

Spec == Safety /\ Fairness

-----------------------------------------------------------------------------
(* Every variable keeps its type. *)
Places  == {"idle", "vpcs", "vpcs2", "create", "poll", "get", "list", "delete"}
Answers == [kind : {"none", "ok", "same", "panic", "failed"}, routes : Tables]

TypeOK ==
  /\ cloud \in Tables /\ ids \in [Cidrs -> Ids]
  /\ issued \in 0 .. MaxToken /\ live \in 0 .. issued /\ cache \in 0 .. issued
  /\ foreign \in 0 .. MaxForeign
  /\ call \in [Callers -> Asks \cup {NoCall}]
  /\ at \in [Callers -> Places]
  /\ req \in [Callers -> Requests]
  /\ rid \in [Callers -> Ids \cup {NoId}]
  /\ time \in [Callers -> 1 .. Timeout]
  /\ seen \in [Callers -> SUBSET Tables]
  /\ did \in [Callers -> BOOLEAN]
  /\ answer \in [Callers -> Answers]

(***************************************************************************)
(* So long as nobody else changes the VPC's routes, a call under routeLock *)
(* meets its own doings at its next request: the route it polls for is     *)
(* there, the one it is about to delete is the one it found unless it has  *)
(* deleted it, and a creation that is refused after a lost answer is       *)
(* refused for the very route the call created.                            *)
(***************************************************************************)
MeetsOwnDoings ==
  foreign = MaxForeign =>
    \A p \in Callers :
      /\ at[p] = "poll" => Owns(p) /\ cloud[Cidr(p)] = call[p].inst
      /\ at[p] = "create" /\ did[p] => cloud[Cidr(p)] = call[p].inst
      /\ at[p] = "delete" => IF did[p] THEN cloud[Cidr(p)] = NoRoute ELSE Owns(p)

(***************************************************************************)
(* The operations implement RouteCalls: a call changes only its own route  *)
(* and answers what was true while it ran.                                 *)
(***************************************************************************)
Abstract == INSTANCE RouteCalls WITH table <- cloud, busy <- [p \in Callers |-> Busy(p)]

CallsSpec == Abstract!Spec

(***************************************************************************)
(* Every request, lost ones and failed polls included, brings its call     *)
(* nearer to its end: to a later stage of the operation, or in the poll to *)
(* less time, or to a later leg of the request (signed, sent, reloaded,    *)
(* sent again), or to fewer tries left.  Nothing else sets a call back.    *)
(***************************************************************************)
Stage(r) == CASE r = "vpcs" -> 3 [] r = "vpcs2" -> 2 [] r \in {"get", "create"} -> 1
              [] r \in {"list", "poll", "delete"} -> 0

Leg(r) == CASE r.phase = "sign" -> 3 [] r.phase = "send" /\ ~r.again -> 2
            [] r.phase = "reload" -> 1 [] r.phase = "send" /\ r.again -> 0

Advances(p) ==
  \/ Stage(at'[p]) < Stage(at[p])
  \/ /\ at'[p] = at[p]
     /\ \/ time'[p] < time[p]
        \/ /\ time'[p] = time[p]
           /\ \/ Leg(req'[p]) < Leg(req[p])
              \/ /\ Leg(req'[p]) = Leg(req[p])
                 /\ req[p].tries < req'[p].tries /\ req'[p].tries < Attempts

CallsAdvance ==
  [][\A p \in Callers :
       Busy(p) /\ Busy(p)' =>
         IF Step(p) THEN Advances(p)
         ELSE at'[p] = at[p] /\ time'[p] = time[p] /\ req'[p] = req[p]]_vars

(* Every call returns, however many of its requests are lost or refused. *)
EveryCallReturns == \A p \in Callers : Busy(p) ~> ~Busy(p)

(***************************************************************************)
(* If the provider can be read and expired tokens are told of often        *)
(* enough, the controller gets to credentials that are accepted, and keeps *)
(* them once they are no longer renewed.                                   *)
(***************************************************************************)
CanRenew ==
  \A p \in Callers :
    /\ SF_vars(Sign(p) /\ req'[p].phase = "send")
    /\ SF_vars(Expired(p))
    /\ SF_vars(Reload(p) /\ cache' = issued)

TokenIsRenewed == CanRenew => <>[](cache >= live)

-----------------------------------------------------------------------------
(***************************************************************************)
(* What comments and messages say and the code does not keep.              *)
(*                                                                         *)
(* kophttp.go:374: "We don't want to retry on POST operations, since those *)
(* are not idempotent": no creation is sent that has already been done.    *)
(***************************************************************************)
CreationIsNotRepeated ==
  \A p \in Callers : at[p] = "create" /\ Sending(p) => ~did[p]

(***************************************************************************)
(* neutron/route.go:167: a request is sent again "after reloading aksk":   *)
(* it carries the token that was loaded together with its key.             *)
(***************************************************************************)
ReloadedTokenIsSent ==
  \A p \in Callers : Sending(p) /\ req[p].again => req[p].token = req[p].key
=============================================================================
