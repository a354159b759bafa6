------------------------- MODULE CloudClientProofs --------------------------
(***************************************************************************)
(* Theorems about CloudClient, for any callers, CIDRs, instances and ids,  *)
(* any number of attempts, any timeout of the poll and any bounds.         *)
(***************************************************************************)
EXTENDS CloudClient, TLAPS

(* The variables that Return, Ask and Fail set, with their types. *)
PlaceOK ==
  /\ call \in [Callers -> Asks \cup {NoCall}]
  /\ at \in [Callers -> Places]
  /\ req \in [Callers -> Requests]
  /\ rid \in [Callers -> Ids \cup {NoId}]
  /\ time \in [Callers -> 1 .. Timeout]
  /\ answer \in [Callers -> Answers]

TableOK == cloud \in Tables /\ ids \in [Cidrs -> Ids] /\ foreign \in 0 .. MaxForeign

CredsOK == issued \in 0 .. MaxToken /\ live \in 0 .. issued /\ cache \in 0 .. issued

GhostOK == seen \in [Callers -> SUBSET Tables] /\ did \in [Callers -> BOOLEAN]

(* The type invariant is the types of the four groups of variables. *)
LEMMA TypeParts == TypeOK <=> PlaceOK /\ TableOK /\ CredsOK /\ GhostOK
BY DEF TypeOK, PlaceOK, TableOK, CredsOK, GhostOK

(* What the calls are made with: existing CIDRs and instances. *)
LEMMA AskFields ==
  \A k \in Asks : /\ k.op \in {"create", "find", "list", "delete"}
                  /\ k.cidr \in Cidrs /\ k.inst \in Instances
BY ClientAssumption

(* Requests keep their shape when they are made, repeated or turned to a reload. *)
LEMMA RequestTypes ==
  /\ Unsigned \in Requests
  /\ \A g, t \in 0 .. MaxToken, b \in BOOLEAN : Request("send", 0, b, t, g) \in Requests
  /\ \A r \in Requests : /\ TriesLeft(r) => [r EXCEPT !.tries = @ + 1] \in Requests
                         /\ [r EXCEPT !.phase = "reload"] \in Requests
BY ClientAssumption DEF Unsigned, Request, Requests, TriesLeft

(* An answer about a part of a route table is an answer. *)
LEMMA AnswerTypes ==
  /\ \A k \in {"none", "ok", "same", "panic", "failed"} : Answer(k) \in Answers
  /\ \A t \in Tables : \A cs : Found(Part(t, cs)) \in Answers
BY DEF Answer, Found, Part, Nothing, Answers, Tables

(* A call that returns leaves its variables well-typed. *)
LEMMA ReturnTypes ==
  ASSUME PlaceOK, NEW p \in Callers, NEW a \in Answers, Return(p, a)
  PROVE  PlaceOK'
BY RequestTypes, ClientAssumption DEF PlaceOK, Return, Places

(* ... and so does one that goes on with the next request. *)
LEMMA AskTypes ==
  ASSUME PlaceOK, NEW p \in Callers, NEW r \in Places, Ask(p, r),
         rid' \in [Callers -> Ids \cup {NoId}]
  PROVE  PlaceOK'
BY RequestTypes DEF PlaceOK, Ask

(* ... and one whose request failed, whether the poll goes on or not. *)
LEMMA FailTypes ==
  ASSUME PlaceOK, NEW p \in Callers, Fail(p)
  PROVE  PlaceOK'
<1>1. CASE at[p] = "poll" /\ time[p] > Interval
  <2>1. time[p] - Interval \in 1 .. Timeout
    BY <1>1, ClientAssumption DEF PlaceOK
  <2> QED
    BY <1>1, <2>1, RequestTypes DEF PlaceOK, Fail, PollAgain
<1>2. CASE ~(at[p] = "poll" /\ time[p] > Interval)
  <2>1. Return(p, Answer("failed"))
    BY <1>2 DEF Fail, PollAgain
  <2> QED
    BY <2>1, ReturnTypes, AnswerTypes
<1> QED
  BY <1>1, <1>2

(* A change of req alone to another request. *)
LEMMA RequestStepTypes ==
  ASSUME PlaceOK, NEW p \in Callers, NEW r \in Requests,
         req' = [req EXCEPT ![p] = r], UNCHANGED place
  PROVE  PlaceOK'
BY DEF PlaceOK, place

(* The ghosts record tables and facts. *)
LEMMA NoteTypes ==
  ASSUME GhostOK, PlaceOK', TableOK', NEW p \in Callers, Note(p)
  PROVE  GhostOK'
BY DEF GhostOK, PlaceOK, TableOK, Note, See

(* What the API does to the route table leaves a route table. *)
LEMMA PutTypes ==
  ASSUME TableOK, NEW c \in Cidrs, NEW i \in Hops, Put(c, i)
  PROVE  cloud' \in Tables /\ ids' \in [Cidrs -> Ids]
BY DEF TableOK, Put, Tables, Hops

(* ... and so does a deletion. *)
LEMMA DropTypes ==
  ASSUME TableOK, NEW c \in Cidrs, Drop(c)
  PROVE  cloud' \in Tables /\ ids' \in [Cidrs -> Ids]
BY DEF TableOK, Drop, Tables, Hops

(* What every caller's call names: an existing CIDR, and a hop or none. *)
LEMMA CallFields ==
  ASSUME PlaceOK, NEW p \in Callers
  PROVE  /\ Cidr(p) \in Cidrs /\ call[p].inst \in Hops
         /\ call[p] = NoCall => ~Changes(call[p])
<1>1. CASE call[p] \in Asks
  BY <1>1, AskFields DEF PlaceOK, Cidr, Hops, NoCall, Changes
<1>2. CASE call[p] = NoCall
  BY <1>2, ClientAssumption DEF NoCall, Cidr, Hops, Changes
<1> QED
  BY <1>1, <1>2 DEF PlaceOK

(* ... and so does either, for the call's own route. *)
LEMMA ActTypes ==
  ASSUME TableOK, PlaceOK, NEW p \in Callers, Act(p)
  PROVE  TableOK'
<1>1. cloud' \in Tables /\ ids' \in [Cidrs -> Ids]
  BY CallFields, PutTypes, DropTypes DEF Act
<1> QED
  BY <1>1 DEF Act, TableOK

(***************************************************************************)
(* A call is at a request of its operation, and one at rest has no call.   *)
(***************************************************************************)
FitsAt(k, r) ==
  \/ r = "idle" /\ k = NoCall
  \/ r = "vpcs" /\ k \in Asks
  \/ r \in {"create", "poll"}  /\ k \in Asks /\ k.op = "create"
  \/ r \in {"vpcs2", "delete"} /\ k \in Asks /\ k.op = "delete"
  \/ r = "get"  /\ k \in Asks /\ k.op \in {"find", "delete"}
  \/ r = "list" /\ k \in Asks /\ k.op = "list"

PlacesFit == \A p \in Callers : FitsAt(call[p], at[p])

(* routeLock: at most one call at a time changes routes. *)
OneChanger ==
  \A p, q \in Callers : p # q /\ Changes(call[p]) => ~Changes(call[q])

(* The ghosts: a call has seen the table there is, and acted in its place. *)
Witnessed ==
  \A p \in Callers :
    /\ at[p] # "idle" => cloud \in seen[p]
    /\ at[p] \in {"idle", "vpcs", "vpcs2", "get", "list"} => ~did[p]
    /\ at[p] = "poll" => did[p]

CInv == TypeOK /\ PlacesFit /\ OneChanger /\ Witnessed
-----------------------------------------------------------------------------
(* Every step of a call leaves its place, the table and the credentials typed. *)
LEMMA StepPlaces ==
  ASSUME TypeOK, PlacesFit, NEW p \in Callers, Step(p)
  PROVE  PlaceOK' /\ TableOK' /\ CredsOK'
<1> USE TypeParts
<1>m. FitsAt(call[p], at[p]) /\ req[p] \in Requests
  BY DEF PlacesFit, PlaceOK
<1>1. CASE Sign(p)
  <2>1. PlaceOK'
    <3>1. CASE Fail(p)
      BY <3>1, FailTypes
    <3>2. CASE req' = [req EXCEPT ![p] = Request("send", 0, FALSE, cache, cache)] /\ UNCHANGED place
      <4>1. cache \in 0 .. MaxToken
        BY ClientAssumption DEF CredsOK
      <4>2. Request("send", 0, FALSE, cache, cache) \in Requests
        BY <4>1, RequestTypes
      <4> QED
        BY <3>2, <4>2, RequestStepTypes
    <3> QED
      BY <1>1, <3>1, <3>2 DEF Sign
  <2> QED
    BY <1>1, <2>1 DEF Sign, TableOK, CredsOK, table, creds
<1>2. CASE Lost(p)
  <2>1. TableOK' /\ CredsOK'
    BY <1>2, ActTypes DEF Lost, TableOK, CredsOK, table, creds
  <2>2. CASE TriesLeft(req[p])
    <3>1. [req[p] EXCEPT !.tries = @ + 1] \in Requests
      BY <1>m, <2>2, RequestTypes
    <3>2. req' = [req EXCEPT ![p] = [req[p] EXCEPT !.tries = @ + 1]] /\ UNCHANGED place
      BY <1>2, <2>2 DEF Lost, PlaceOK
    <3> QED
      BY <2>1, <3>1, <3>2, RequestStepTypes
  <2>3. CASE ~TriesLeft(req[p])
    BY <1>2, <2>1, <2>3, FailTypes DEF Lost
  <2> QED
    BY <2>2, <2>3
<1>3. CASE Refused(p)
  <2>1. TableOK' /\ CredsOK'
    BY <1>3, ActTypes DEF Refused, TableOK, CredsOK, table, creds
  <2> QED
    BY <1>3, <2>1, FailTypes DEF Refused
<1>4. CASE Expired(p)
  <2>1. TableOK' /\ CredsOK'
    BY <1>4 DEF Expired, TableOK, CredsOK, table, creds
  <2>2. CASE req[p].again
    BY <1>4, <2>1, <2>2, FailTypes DEF Expired
  <2>3. CASE ~req[p].again
    <3>1. [req[p] EXCEPT !.phase = "reload"] \in Requests
      BY <1>m, RequestTypes
    <3>2. req' = [req EXCEPT ![p] = [req[p] EXCEPT !.phase = "reload"]] /\ UNCHANGED place
      BY <1>4, <2>3 DEF Expired, PlaceOK
    <3> QED
      BY <2>1, <3>1, <3>2, RequestStepTypes
  <2> QED
    BY <2>2, <2>3
<1>5. CASE Reload(p)
  <2>1. TableOK' /\ CredsOK'
    BY <1>5, ClientAssumption DEF Reload, TableOK, CredsOK, table
  <2>2. CASE Resend(p, issued)
    <3>1. issued \in 0 .. MaxToken /\ req[p].token \in 0 .. MaxToken
      BY <1>m DEF CredsOK, Requests
    <3>2. Request("send", 0, TRUE, req[p].token, issued) \in Requests
      BY <3>1, RequestTypes
    <3> QED
      BY <2>1, <2>2, <3>2, RequestStepTypes DEF Resend
  <2>3. CASE Fail(p)
    BY <2>1, <2>3, FailTypes
  <2> QED
    BY <1>5, <2>2, <2>3 DEF Reload
<1>6. CASE DescribeVpcs(p)
  <2>1. \E r \in Places : Ask(p, r)
    BY <1>6, <1>m, AskFields DEF DescribeVpcs, Answered, FitsAt, Own, Places
  <2>2. PlaceOK'
    BY <1>6, <2>1, AskTypes DEF DescribeVpcs, PlaceOK
  <2> QED
    BY <1>6, <2>2 DEF DescribeVpcs, Answered, TableOK, CredsOK, table, creds
<1>7. CASE CreateRoute(p)
  <2>1. CASE Return(p, Answer("same")) /\ UNCHANGED table
    BY <1>7, <2>1, ReturnTypes, AnswerTypes
    DEF CreateRoute, Answered, TableOK, CredsOK, table, creds
  <2>2. CASE Act(p) /\ rid' = [rid EXCEPT ![p] = ids'[Cidr(p)]] /\ Ask(p, "poll")
    <3>1. TableOK'
      BY <2>2, ActTypes
    <3>2. ids'[Cidr(p)] \in Ids
      BY <3>1, CallFields DEF TableOK
    <3>3. rid' \in [Callers -> Ids \cup {NoId}]
      BY <2>2, <3>2 DEF PlaceOK
    <3> QED
      BY <1>7, <2>2, <3>1, <3>3, AskTypes DEF CreateRoute, Answered, CredsOK, creds, Places
  <2> QED
    BY <1>7, <2>1, <2>2 DEF CreateRoute
<1>8. CASE GetRoutes(p)
  <2>0. TableOK' /\ CredsOK'
    BY <1>8 DEF GetRoutes, Answered, TableOK, CredsOK, table, creds
  <2>1. CASE \E a \in Answers : Return(p, a)
    BY <2>0, <2>1, ReturnTypes
  <2>2. CASE rid' = [rid EXCEPT ![p] = ids[Cidr(p)]] /\ Ask(p, "delete")
    <3>1. rid' \in [Callers -> Ids \cup {NoId}]
      BY <2>2, CallFields DEF PlaceOK, TableOK
    <3> QED
      BY <2>0, <2>2, <3>1, AskTypes DEF Places
  <2> QED
    BY <1>8, <2>1, <2>2, AnswerTypes DEF GetRoutes, TableOK
<1>9. CASE ListRoutes(p)
  <2>1. \E a \in Answers : Return(p, a)
    BY <1>9, AnswerTypes DEF ListRoutes, TableOK
  <2> QED
    BY <1>9, <2>1, ReturnTypes DEF ListRoutes, Answered, TableOK, CredsOK, table, creds
<1>10. CASE GetRoute(p)
  <2>1. \E a \in Answers : Return(p, a)
    BY <1>10, AnswerTypes DEF GetRoute
  <2> QED
    BY <1>10, <2>1, ReturnTypes DEF GetRoute, Answered, TableOK, CredsOK, table, creds
<1>11. CASE DeleteRoute(p)
  <2>1. \E a \in Answers : Return(p, a)
    BY <1>11, AnswerTypes DEF DeleteRoute
  <2>2. TableOK'
    BY <1>11, ActTypes DEF DeleteRoute, TableOK, table
  <2> QED
    BY <1>11, <2>1, <2>2, ReturnTypes DEF DeleteRoute, Answered, CredsOK, creds
<1> QED
  BY <1>1, <1>2, <1>3, <1>4, <1>5, <1>6, <1>7, <1>8, <1>9, <1>10, <1>11 DEF Step
-----------------------------------------------------------------------------
(***************************************************************************)
(* A step of a call leaves it at a request of its operation, or ends it    *)
(* with an answer that RouteCalls allows.                                  *)
(***************************************************************************)
Early == {"vpcs", "vpcs2", "get", "list"}

Goes(p) ==
  \E r \in Places \ {"idle"} :
    /\ at' = [at EXCEPT ![p] = r] /\ UNCHANGED <<call, answer>>
    /\ FitsAt(call[p], r)
    /\ r = "poll" => at[p] = "poll" \/ cloud' # cloud
    /\ r \in Early => at[p] \in Early

Allowed(p, a) ==
  /\ a \in [kind : {"ok", "same", "panic", "failed"}, routes : Tables]
  /\ Abstract!Honest(call[p], seen[p] \cup {cloud'}, did[p] \/ cloud' # cloud, a)

Ends(p) == \E a \in Answers : Return(p, a) /\ Allowed(p, a)

(* An effect of the API on the table is a change of one route. *)
LEMMA ActActs ==
  ASSUME TypeOK, PlacesFit, NEW p \in Callers, Act(p)
  PROVE  /\ cloud' # cloud
         /\ at[p] \in {"create", "delete"} /\ call[p] \in Asks /\ call[p].op = at[p]
         /\ at[p] = "create" => Abstract!Install(p) /\ cloud'[Cidr(p)] = call[p].inst
                                 /\ ids'[Cidr(p)] # NoId
         /\ at[p] = "delete" => Abstract!Withdraw(p) /\ cloud'[Cidr(p)] = NoRoute
<1>1. /\ at[p] \in {"create", "delete"} /\ call[p] \in Asks /\ call[p].op = at[p]
  BY DEF Act, PlacesFit, FitsAt
<1>2. Cidr(p) \in Cidrs /\ call[p].inst \in Instances
  BY <1>1, AskFields DEF Cidr
<1>3. CASE at[p] = "create"
  <2>1. cloud[Cidr(p)] = NoRoute /\ Put(Cidr(p), call[p].inst)
    BY <1>3 DEF Act
  <2>2. /\ cloud' = [cloud EXCEPT ![Cidr(p)] = call[p].inst]
        /\ ids'[Cidr(p)] # NoId
    BY <2>1, <1>2, ClientAssumption DEF Put, TypeOK
  <2>3. cloud'[Cidr(p)] = call[p].inst /\ call[p].inst # NoRoute
    BY <2>2, <1>2, ClientAssumption DEF TypeOK, Tables
  <2> QED
    BY <1>1, <1>3, <2>1, <2>2, <2>3 DEF Abstract!Install, Cidr
<1>4. CASE at[p] = "delete"
  <2>1. cloud[Cidr(p)] # NoRoute /\ cloud' = [cloud EXCEPT ![Cidr(p)] = NoRoute]
    BY <1>4 DEF Act, Owns, Drop
  <2>2. cloud'[Cidr(p)] = NoRoute
    BY <2>1, <1>2 DEF TypeOK, Tables
  <2> QED
    BY <1>1, <1>4, <2>1, <2>2 DEF Abstract!Withdraw, Cidr
<1> QED
  BY <1>1, <1>3, <1>4

(* To stay where one is fits. *)
LEMMA StayGoes ==
  ASSUME TypeOK, PlacesFit, NEW p \in Callers, Busy(p),
         UNCHANGED <<call, at, answer>>
  PROVE  Goes(p)
<1>1. at' = [at EXCEPT ![p] = at[p]]
  BY DEF TypeOK
<1>2. at[p] \in Places \ {"idle"} /\ FitsAt(call[p], at[p])
  BY DEF TypeOK, Busy, PlacesFit
<1> QED
  BY <1>1, <1>2 DEF Goes

(* An error goes on with the poll or ends the call with a failure. *)
LEMMA FailMoves ==
  ASSUME TypeOK, PlacesFit, NEW p \in Callers, Busy(p), Fail(p)
  PROVE  Goes(p) \/ Ends(p)
<1>1. CASE at[p] = "poll" /\ time[p] > Interval
  BY <1>1, StayGoes DEF Fail, PollAgain
<1>2. CASE ~(at[p] = "poll" /\ time[p] > Interval)
  <2>1. Return(p, Answer("failed"))
    BY <1>2 DEF Fail, PollAgain
  <2>2. Answer("failed") = Abstract!Answer("failed")
    BY DEF Answer, Abstract!Answer, Nothing, Abstract!Nothing
  <2>3. Answer("failed") \in [kind : {"ok", "same", "panic", "failed"}, routes : Tables]
    BY DEF Answer, Nothing, Tables
  <2>4. Allowed(p, Answer("failed"))
    BY <2>2, <2>3 DEF Allowed, Abstract!Honest
  <2> QED
    BY <2>1, <2>4, AnswerTypes DEF Ends
<1> QED
  BY <1>1, <1>2

(* The answers of the calls that do not fail are true. *)
LEMMA AllowedAnswers ==
  ASSUME TypeOK, Witnessed, NEW p \in Callers, Busy(p), call[p] \in Asks, cloud' \in Tables
  PROVE  /\ call[p].op = "find" => Allowed(p, Found(Part(cloud, {Cidr(p)})))
         /\ call[p].op = "list" => Allowed(p, Found(Part(cloud, Cidrs \ {DefaultCidr})))
         /\ call[p].op = "create" /\ did[p] => Allowed(p, Answer("ok")) /\ Allowed(p, Answer("panic"))
         /\ call[p].op = "create" /\ cloud[Cidr(p)] # NoRoute => Allowed(p, Answer("same"))
         /\ call[p].op = "delete" /\ cloud[Cidr(p)] = NoRoute => Allowed(p, Answer("ok"))
         /\ call[p].op = "delete" /\ cloud'[Cidr(p)] = NoRoute => Allowed(p, Answer("ok"))
<1>1. cloud \in seen[p] \cup {cloud'} /\ cloud' \in seen[p] \cup {cloud'}
  BY DEF Witnessed, Busy
<1>2. \A k : Answer(k) = Abstract!Answer(k)
  BY DEF Answer, Abstract!Answer, Nothing, Abstract!Nothing
<1>3. \A t, cs : Found(Part(t, cs)) = Abstract!Found(Abstract!Part(t, cs))
  BY DEF Found, Abstract!Found, Part, Abstract!Part
<1>4. \A k \in {"ok", "same", "panic", "failed"} :
        Answer(k) \in [kind : {"ok", "same", "panic", "failed"}, routes : Tables]
  BY DEF Answer, Nothing, Tables
<1>5. \A cs : Found(Part(cloud, cs)) \in [kind : {"ok", "same", "panic", "failed"}, routes : Tables]
  BY DEF Found, Part, Tables, TypeOK
<1>6. call[p].op = "find" => Allowed(p, Found(Part(cloud, {Cidr(p)})))
  BY <1>1, <1>3, <1>5 DEF Allowed, Abstract!Honest, Cidr
<1>7. call[p].op = "list" => Allowed(p, Found(Part(cloud, Cidrs \ {DefaultCidr})))
  BY <1>1, <1>3, <1>5 DEF Allowed, Abstract!Honest
<1>8. call[p].op = "create" /\ did[p] => Allowed(p, Answer("ok")) /\ Allowed(p, Answer("panic"))
  BY <1>2, <1>4 DEF Allowed, Abstract!Honest
<1>9. call[p].op = "create" /\ cloud[Cidr(p)] # NoRoute => Allowed(p, Answer("same"))
  BY <1>1, <1>2, <1>4 DEF Allowed, Abstract!Honest, Cidr
<1>10. /\ call[p].op = "delete" /\ cloud[Cidr(p)] = NoRoute => Allowed(p, Answer("ok"))
       /\ call[p].op = "delete" /\ cloud'[Cidr(p)] = NoRoute => Allowed(p, Answer("ok"))
  BY <1>1, <1>2, <1>4 DEF Allowed, Abstract!Honest, Cidr
<1> QED
  BY <1>6, <1>7, <1>8, <1>9, <1>10

(* Every step of a call goes on with a fitting request or ends with a true answer. *)
LEMMA StepMoves ==
  ASSUME TypeOK, PlacesFit, Witnessed, NEW p \in Callers, Step(p)
  PROVE  /\ Busy(p) /\ Note(p)
         /\ UNCHANGED table \/ Act(p)
         /\ Goes(p) \/ Ends(p)
<1>t. TypeOK' \/ (PlaceOK' /\ TableOK')
  BY StepPlaces
<1>c. cloud' \in Tables
  BY <1>t DEF TypeOK, TableOK
<1>0. Busy(p) /\ Note(p) /\ (UNCHANGED table \/ Act(p))
  BY DEF Step, Sign, Lost, Refused, Expired, Reload, DescribeVpcs, CreateRoute, GetRoutes,
         ListRoutes, GetRoute, DeleteRoute, Answered, Sending
<1>k. call[p] \in Asks
  BY <1>0 DEF PlacesFit, FitsAt, Busy
<1>1. CASE Sign(p) \/ Lost(p) \/ Refused(p) \/ Expired(p) \/ Reload(p)
  <2>1. Fail(p) \/ UNCHANGED place
    BY <1>1 DEF Sign, Lost, Refused, Expired, Reload, Resend
  <2> QED
    BY <1>0, <2>1, FailMoves, StayGoes DEF place
<1>2. CASE DescribeVpcs(p)
  <2>1. \E r \in Early \cup {"create"} :
          Ask(p, r) /\ FitsAt(call[p], r) /\ (r \in Early => at[p] \in Early)
    <3>1. CASE at[p] = "vpcs" /\ Ask(p, Own(call[p].op))
      <4>1. Own(call[p].op) \in Early \cup {"create"} /\ FitsAt(call[p], Own(call[p].op))
        BY <1>k, AskFields DEF Own, Early, FitsAt
      <4> QED
        BY <3>1, <4>1 DEF Early
    <3>2. CASE at[p] = "vpcs2" /\ Ask(p, "get")
      BY <3>2 DEF Early, FitsAt, PlacesFit
    <3> QED
      BY <1>2, <3>1, <3>2 DEF DescribeVpcs, Answered
  <2>2. PICK r \in Early \cup {"create"} :
          Ask(p, r) /\ FitsAt(call[p], r) /\ (r \in Early => at[p] \in Early)
    BY <2>1
  <2>3. r \in Places \ {"idle"} /\ r # "poll"
    BY <2>2 DEF Early, Places
  <2>4. at' = [at EXCEPT ![p] = r] /\ UNCHANGED <<call, answer>>
    BY <2>2 DEF Ask
  <2>5. Goes(p)
    BY <2>2, <2>3, <2>4 DEF Goes
  <2> QED
    BY <1>0, <2>5
<1>3. CASE CreateRoute(p)
  <2>0. at[p] = "create" /\ call[p].op = "create"
    BY <1>3 DEF CreateRoute, Answered, PlacesFit, FitsAt
  <2>1. CASE Act(p) /\ Ask(p, "poll")
    <3>1. cloud' # cloud /\ FitsAt(call[p], "poll")
      BY <2>0, <2>1, <1>k, ActActs DEF FitsAt
    <3>2. "poll" \in Places \ {"idle"} /\ "poll" \notin Early
      BY DEF Places, Early
    <3>3. at' = [at EXCEPT ![p] = "poll"] /\ UNCHANGED <<call, answer>>
      BY <2>1 DEF Ask
    <3>4. Goes(p)
      BY <3>1, <3>2, <3>3 DEF Goes
    <3> QED
      BY <1>0, <3>4
  <2>2. CASE cloud[Cidr(p)] # NoRoute /\ Return(p, Answer("same"))
    BY <1>0, <1>c, <1>k, <2>0, <2>2, AllowedAnswers, AnswerTypes DEF Ends
  <2> QED
    BY <1>3, <1>0, <2>1, <2>2 DEF CreateRoute
<1>4. CASE GetRoutes(p)
  <2>1. CASE call[p].op = "find" /\ Return(p, Found(Part(cloud, {Cidr(p)})))
    BY <1>0, <1>c, <1>k, <2>1, AllowedAnswers, AnswerTypes DEF Ends, TypeOK
  <2>2. CASE call[p].op = "delete" /\ cloud[Cidr(p)] = NoRoute /\ Return(p, Answer("ok"))
    BY <1>0, <1>c, <1>k, <2>2, AllowedAnswers, AnswerTypes DEF Ends
  <2>3. CASE call[p].op = "delete" /\ Ask(p, "delete")
    BY <1>0, <1>k, <2>3 DEF Goes, Ask, FitsAt, Early, Places
  <2>4. \/ call[p].op = "find" /\ Return(p, Found(Part(cloud, {Cidr(p)})))
        \/ call[p].op = "delete" /\ cloud[Cidr(p)] = NoRoute /\ Return(p, Answer("ok"))
        \/ call[p].op = "delete" /\ Ask(p, "delete")
    BY <1>4 DEF GetRoutes
  <2> QED
    BY <2>1, <2>2, <2>3, <2>4
<1>5. CASE ListRoutes(p)
  <2>1. call[p].op = "list"
    BY <1>5 DEF ListRoutes, Answered, PlacesFit, FitsAt
  <2>2. Return(p, Found(Part(cloud, Cidrs \ {DefaultCidr})))
    BY <1>5 DEF ListRoutes
  <2> QED
    BY <1>0, <1>c, <1>k, <2>1, <2>2, AllowedAnswers, AnswerTypes DEF Ends, TypeOK
<1>6. CASE GetRoute(p)
  <2>1. call[p].op = "create" /\ did[p]
    BY <1>6 DEF GetRoute, Answered, PlacesFit, FitsAt, Witnessed
  <2> QED
    BY <1>6, <1>0, <1>c, <1>k, <2>1, AllowedAnswers, AnswerTypes DEF GetRoute, Ends
<1>7. CASE DeleteRoute(p)
  <2>0. at[p] = "delete" /\ call[p].op = "delete"
    BY <1>7 DEF DeleteRoute, Answered, PlacesFit, FitsAt
  <2>1. CASE Act(p) /\ Return(p, Answer("ok"))
    <3>1. cloud'[Cidr(p)] = NoRoute
      BY <2>0, <2>1, ActActs
    <3>2. Allowed(p, Answer("ok"))
      BY <1>0, <1>c, <1>k, <2>0, <3>1, AllowedAnswers
    <3>3. Answer("ok") \in Answers
      BY AnswerTypes
    <3>4. Ends(p)
      BY <2>1, <3>2, <3>3 DEF Ends
    <3> QED
      BY <1>0, <3>4
  <2>2. CASE Return(p, Answer("failed"))
    <3>1. Answer("failed") = Abstract!Answer("failed")
      BY DEF Answer, Abstract!Answer, Nothing, Abstract!Nothing
    <3>2. Answer("failed") \in [kind : {"ok", "same", "panic", "failed"}, routes : Tables]
      BY DEF Answer, Nothing, Tables
    <3>3. Allowed(p, Answer("failed"))
      BY <3>1, <3>2 DEF Allowed, Abstract!Honest
    <3>4. Ends(p)
      BY <2>2, <3>3, AnswerTypes DEF Ends
    <3> QED
      BY <1>0, <3>4
  <2> QED
    BY <1>7, <1>0, <2>1, <2>2 DEF DeleteRoute
<1> QED
  BY <1>0, <1>1, <1>2, <1>3, <1>4, <1>5, <1>6, <1>7 DEF Step
-----------------------------------------------------------------------------
(* A step of a call moves no other call. *)
LEMMA OthersStay ==
  ASSUME TypeOK, NEW p \in Callers, Goes(p) \/ Ends(p), NEW q \in Callers, q # p
  PROVE  call'[q] = call[q] /\ at'[q] = at[q]
BY DEF Goes, Ends, Return, TypeOK

(* Calls stay at requests of their operation, and one at a time changes routes. *)
LEMMA StepFits ==
  ASSUME TypeOK, PlacesFit, OneChanger, NEW p \in Callers, Goes(p) \/ Ends(p)
  PROVE  PlacesFit' /\ OneChanger'
<1>1. /\ FitsAt(call'[p], at'[p])
      /\ Changes(call'[p]) => Changes(call[p])
  <2>1. CASE Goes(p)
    BY <2>1 DEF Goes, TypeOK
  <2>2. CASE Ends(p)
    <3>1. call'[p] = NoCall /\ at'[p] = "idle"
      BY <2>2 DEF Ends, Return, TypeOK
    <3> QED
      BY <3>1 DEF FitsAt, Changes, NoCall
  <2> QED
    BY <2>1, <2>2
<1>2. \A q \in Callers : q # p => call'[q] = call[q] /\ at'[q] = at[q]
  BY OthersStay
<1>3. PlacesFit'
  BY <1>1, <1>2 DEF PlacesFit, FitsAt
<1>4. OneChanger'
  BY <1>1, <1>2 DEF OneChanger, Changes
<1> QED
  BY <1>3, <1>4

(* The ghosts keep saying what a call has seen and done. *)
LEMMA StepWitnessed ==
  ASSUME TypeOK, PlacesFit, Witnessed, NEW p \in Callers, Goes(p) \/ Ends(p), Note(p),
         UNCHANGED table \/ Act(p)
  PROVE  Witnessed'
<1>1. \A q \in Callers : q # p => did'[q] = did[q] /\ at'[q] = at[q]
  BY OthersStay DEF Note, TypeOK
<1>2. \A q \in Callers : at'[q] # "idle" => cloud' \in seen'[q]
  BY DEF Note, See
<1>3. did'[p] = (at'[p] # "idle" /\ (did[p] \/ cloud' # cloud))
  BY DEF Note, TypeOK
<1>4. at'[p] \in Early => at[p] \in Early
  BY DEF Goes, Ends, Return, TypeOK, Early
<1>5. at'[p] = "poll" => at[p] = "poll" \/ cloud' # cloud
  BY DEF Goes, Ends, Return, TypeOK
<1>6. at[p] \in Early => cloud' = cloud
  BY ActActs DEF Early, table
<1>7. at'[p] \in {"idle", "vpcs", "vpcs2", "get", "list"} => ~did'[p]
  BY <1>3, <1>4, <1>6 DEF Early, Witnessed
<1>8. at'[p] = "poll" => did'[p]
  BY <1>3, <1>5 DEF Witnessed
<1> QED
  BY <1>1, <1>2, <1>7, <1>8 DEF Witnessed

(* A new call is at its first request, and the only one that changes routes. *)
LEMMA InvokeKeeps ==
  ASSUME CInv, NEW p \in Callers, Invoke(p)
  PROVE  CInv'
<1> USE DEF CInv
<1>0. PICK k \in Asks : MayStart(k) /\ call' = [call EXCEPT ![p] = k]
  BY DEF Invoke
<1>1. /\ at' = [at EXCEPT ![p] = "vpcs"]
      /\ answer' = [answer EXCEPT ![p] = Answer("none")]
      /\ UNCHANGED <<creds, table, req, rid, time, did>> /\ See /\ at[p] = "idle"
  BY DEF Invoke, Busy
<1>2. TypeOK'
  <2>1. PlaceOK'
    BY <1>0, <1>1, TypeParts, AnswerTypes DEF PlaceOK, Places
  <2>2. TableOK' /\ CredsOK'
    BY <1>1, TypeParts DEF TableOK, CredsOK, table, creds
  <2>3. GhostOK'
    BY <1>1, <2>1, <2>2, TypeParts DEF GhostOK, PlaceOK, TableOK, See
  <2> QED
    BY <2>1, <2>2, <2>3 DEF TypeOK, PlaceOK, TableOK, CredsOK, GhostOK
<1>3. /\ call'[p] = k /\ at'[p] = "vpcs"
      /\ \A q \in Callers : q # p => call'[q] = call[q] /\ at'[q] = at[q]
  BY <1>0, <1>1 DEF TypeOK
<1>4. PlacesFit'
  BY <1>3 DEF PlacesFit, FitsAt
<1>5. OneChanger'
  BY <1>0, <1>3 DEF OneChanger, MayStart, Changes
<1>6. Witnessed'
  BY <1>1, <1>3 DEF Witnessed, See
<1> QED
  BY <1>2, <1>4, <1>5, <1>6
-----------------------------------------------------------------------------
(* Every step of the specification keeps the invariant. *)
LEMMA NextKeeps ==
  ASSUME CInv, [Next]_vars
  PROVE  CInv'
<1> USE DEF CInv
<1>1. ASSUME NEW p \in Callers, Step(p)
      PROVE  CInv'
  <2>1. PlaceOK' /\ TableOK' /\ CredsOK'
    BY <1>1, StepPlaces
  <2>2. Note(p) /\ (UNCHANGED table \/ Act(p)) /\ (Goes(p) \/ Ends(p))
    BY <1>1, StepMoves
  <2>3. GhostOK'
    BY <2>1, <2>2, NoteTypes, TypeParts
  <2>4. TypeOK'
    BY <2>1, <2>3 DEF TypeOK, PlaceOK, TableOK, CredsOK, GhostOK
  <2> QED
    BY <2>2, <2>4, StepFits, StepWitnessed
<1>2. ASSUME NEW p \in Callers, Invoke(p)
      PROVE  CInv'
  BY <1>2, InvokeKeeps
<1>3. CASE Foreign
  <2>1. PICK c \in Cidrs : \/ \E i \in Hops : Put(c, i)
                          \/ Drop(c)
    BY <1>3 DEF Foreign
  <2>2. cloud' \in Tables /\ ids' \in [Cidrs -> Ids]
    BY <2>1, PutTypes, DropTypes, TypeParts
  <2>3. UNCHANGED <<creds, place, req, did>> /\ See /\ foreign' \in 0 .. MaxForeign
    BY <1>3, ClientAssumption DEF Foreign, TypeOK
  <2>4. PlaceOK' /\ CredsOK' /\ TableOK'
    BY <2>2, <2>3, TypeParts DEF PlaceOK, CredsOK, TableOK, place, creds
  <2>5. GhostOK'
    BY <2>3, <2>4, TypeParts DEF GhostOK, PlaceOK, TableOK, See
  <2>6. TypeOK'
    BY <2>4, <2>5 DEF TypeOK, PlaceOK, TableOK, CredsOK, GhostOK
  <2>7. call' = call /\ at' = at /\ did' = did
    BY <2>3 DEF place
  <2>8. PlacesFit' /\ OneChanger'
    BY <2>7 DEF PlacesFit, OneChanger, FitsAt, Changes
  <2>9. Witnessed'
    BY <2>3, <2>7 DEF Witnessed, See
  <2> QED
    BY <2>6, <2>8, <2>9
<1>4. CASE Renew \/ Expire \/ UNCHANGED vars
  <2>1. UNCHANGED <<table, place, req, ghost>>
    BY <1>4 DEF Renew, Expire, vars, table, place, ghost
  <2>2. CredsOK'
    BY <1>4, TypeParts, ClientAssumption DEF CredsOK, Renew, Expire, vars
  <2>3. TypeOK'
    BY <2>1, <2>2 DEF TypeOK, CredsOK, table, place, ghost
  <2> QED
    BY <2>1, <2>3 DEF PlacesFit, OneChanger, FitsAt, Changes, Witnessed, table, place, ghost
<1> QED
  BY <1>1, <1>2, <1>3, <1>4 DEF Next

(* Before the first call nobody is at a request, and the ghosts are empty. *)
LEMMA InitHolds == Init => CInv
<1> SUFFICES ASSUME Init PROVE CInv
  OBVIOUS
<1>1. TypeOK
  <2>1. PlaceOK
    BY RequestTypes, AnswerTypes, ClientAssumption DEF Init, PlaceOK, Places
  <2>2. TableOK /\ CredsOK /\ GhostOK
    BY ClientAssumption DEF Init, TableOK, CredsOK, GhostOK, Tables, Hops
  <2> QED
    BY <2>1, <2>2, TypeParts
<1>2. PlacesFit /\ OneChanger /\ Witnessed
  BY DEF Init, PlacesFit, FitsAt, OneChanger, Changes, NoCall, Witnessed
<1> QED
  BY <1>1, <1>2 DEF CInv

(***************************************************************************)
(* The inductive invariant: types, the request a call can be at, routeLock *)
(* around the calls that change routes, and what the ghosts record.        *)
(***************************************************************************)
THEOREM CallsStayInPlace == Safety => []CInv
BY InitHolds, NextKeeps, PTL DEF Safety

(* Every variable of the client keeps its type, retries and poll included. *)
THEOREM ClientTypesHold == Safety => []TypeOK
<1>1. CInv => TypeOK
  BY DEF CInv
<1> QED
  BY <1>1, CallsStayInPlace, PTL

-----------------------------------------------------------------------------
(* A call that goes on or ends is a step of RouteCalls. *)
LEMMA StepImplements ==
  ASSUME CInv, NEW p \in Callers, Step(p)
  PROVE  Abstract!Step(p)
<1>1. Busy(p) /\ Note(p) /\ (UNCHANGED table \/ Act(p)) /\ (Goes(p) \/ Ends(p))
  BY StepMoves DEF CInv
<1>2. Abstract!Install(p) \/ Abstract!Withdraw(p) \/ UNCHANGED cloud
  BY <1>1, ActActs DEF CInv, table
<1>3. \A q \in Callers : q # p => at'[q] = at[q]
  BY <1>1, OthersStay DEF CInv
<1>b. [q \in Callers |-> Busy(q)]' = [q \in Callers |-> at'[q] # "idle"]
  BY DEF Busy
<1>4. Abstract!Return(p) \/ UNCHANGED <<[q \in Callers |-> Busy(q)], call, answer>>
  <2>1. CASE Goes(p)
    <3>1. at'[p] # "idle" /\ UNCHANGED <<call, answer>>
      BY <2>1 DEF Goes, CInv, TypeOK
    <3>2. \A q \in Callers : (at'[q] # "idle") = Busy(q)
      BY <3>1, <1>1, <1>3 DEF Busy
    <3> QED
      BY <3>1, <3>2, <1>b
  <2>2. CASE Ends(p)
    <3>1. PICK a \in Answers : Return(p, a) /\ Allowed(p, a)
      BY <2>2 DEF Ends
    <3>2. at'[p] = "idle"
      BY <3>1 DEF Return, CInv, TypeOK
    <3>3. [q \in Callers |-> Busy(q)]' = [[q \in Callers |-> Busy(q)] EXCEPT ![p] = FALSE]
      BY <3>2, <1>3, <1>b DEF Busy
    <3>4. call' = [call EXCEPT ![p] = Abstract!NoCall]
      BY <3>1 DEF Return, NoCall, Abstract!NoCall
    <3>5. answer' = [answer EXCEPT ![p] = a]
      BY <3>1 DEF Return
    <3> QED
      BY <3>1, <3>3, <3>4, <3>5 DEF Abstract!Return, Allowed, Abstract!Tables, Tables,
                                    Abstract!Hops, Hops
  <2> QED
    BY <1>1, <2>1, <2>2
<1>5. did' = [did EXCEPT ![p] = [q \in Callers |-> Busy(q)]'[p] /\ (@ \/ cloud' # cloud)]
  BY <1>1, <1>b DEF Note
<1>6. Abstract!See
  BY <1>1, <1>b DEF Note, See, Abstract!See
<1>7. [q \in Callers |-> Busy(q)][p]
  BY <1>1
<1> QED
  BY <1>2, <1>4, <1>5, <1>6, <1>7 DEF Abstract!Step

(***************************************************************************)
(* The operations implement RouteCalls: whatever is lost, repeated, refused*)
(* or expired, a call changes only its own route and answers what was true *)
(* while it ran.                                                           *)
(***************************************************************************)
THEOREM ImplementsCalls == Safety => CallsSpec
<1>1. Init => Abstract!Init
  <2> SUFFICES ASSUME Init PROVE Abstract!Init
    OBVIOUS
  <2>1. cloud \in Abstract!Tables
    BY InitHolds DEF CInv, TypeOK, Tables, Hops, Abstract!Tables, Abstract!Hops
  <2>2. [p \in Callers |-> Busy(p)] = [p \in Callers |-> FALSE]
    BY DEF Init, Busy
  <2> QED
    BY <2>1, <2>2 DEF Init, Abstract!Init, NoCall, Abstract!NoCall, Answer, Nothing,
                      Abstract!NoAnswer, Abstract!Answer, Abstract!Nothing
<1>2. CInv /\ [Next]_vars => [Abstract!Next]_(Abstract!vars)
  <2> SUFFICES ASSUME CInv, [Next]_vars PROVE [Abstract!Next]_(Abstract!vars)
    OBVIOUS
  <2>b. [q \in Callers |-> Busy(q)]' = [q \in Callers |-> at'[q] # "idle"]
    BY DEF Busy
  <2>1. ASSUME NEW p \in Callers, Step(p)
        PROVE  Abstract!Next
    BY <2>1, StepImplements DEF Abstract!Next
  <2>2. ASSUME NEW p \in Callers, Invoke(p)
        PROVE  Abstract!Next
    <3>0. PICK k \in Asks : call' = [call EXCEPT ![p] = k]
      BY <2>2 DEF Invoke
    <3>1. /\ at' = [at EXCEPT ![p] = "vpcs"] /\ at[p] = "idle"
          /\ answer' = [answer EXCEPT ![p] = Answer("none")]
          /\ UNCHANGED <<table, did>> /\ See
      BY <2>2 DEF Invoke, Busy
    <3>2. [q \in Callers |-> Busy(q)]' = [[q \in Callers |-> Busy(q)] EXCEPT ![p] = TRUE]
      BY <3>1, <2>b DEF Busy, CInv, TypeOK
    <3>3. k \in Abstract!Calls
      BY ClientAssumption DEF Abstract!Calls
    <3>4. Answer("none") = Abstract!NoAnswer
      BY DEF Answer, Nothing, Abstract!NoAnswer, Abstract!Answer, Abstract!Nothing
    <3>5. Abstract!See
      BY <3>1, <2>b DEF See, Abstract!See
    <3>6. ~[q \in Callers |-> Busy(q)][p]
      BY <3>1 DEF Busy
    <3>7. Abstract!Start(p)
      BY <3>0, <3>1, <3>2, <3>3, <3>4, <3>5, <3>6 DEF Abstract!Start, table
    <3> QED
      BY <3>7 DEF Abstract!Next
  <2>3. CASE Foreign
    <3>1. \E c \in Cidrs, i \in Hops \cup {NoRoute} : cloud' = [cloud EXCEPT ![c] = i]
      BY <2>3 DEF Foreign, Put, Drop
    <3>2. UNCHANGED <<call, at, did, answer>> /\ See
      BY <2>3 DEF Foreign, place
    <3>3. UNCHANGED [q \in Callers |-> Busy(q)]
      BY <3>2, <2>b DEF Busy
    <3>4. Abstract!See
      BY <3>2, <2>b DEF See, Abstract!See
    <3>5. Abstract!Foreign
      BY <3>1, <3>2, <3>3, <3>4 DEF Abstract!Foreign, Abstract!Hops, Hops
    <3> QED
      BY <3>5 DEF Abstract!Next
  <2>4. CASE Renew \/ Expire \/ UNCHANGED vars
    <3>1. UNCHANGED <<cloud, at, call, seen, did, answer>>
      BY <2>4 DEF Renew, Expire, vars, table, place, ghost
    <3>2. UNCHANGED [q \in Callers |-> Busy(q)]
      BY <3>1, <2>b DEF Busy
    <3> QED
      BY <3>1, <3>2 DEF Abstract!vars
  <2> QED
    BY <2>1, <2>2, <2>3, <2>4 DEF Next
<1> QED
  BY <1>1, <1>2, CallsStayInPlace, PTL DEF Safety, CallsSpec, Abstract!Spec
-----------------------------------------------------------------------------
(***************************************************************************)
(* How a call gets to the requests that change a route or ask for one, and *)
(* which id it then goes by.                                               *)
(***************************************************************************)
Arrives(p) ==
  \/ at'[p] = "idle"
  \/ at'[p] = at[p] /\ UNCHANGED rid
  \/ at[p] \in Early /\ at'[p] \in Early \cup {"create"}
  \/ /\ at[p] = "create" /\ at'[p] = "poll" /\ Act(p)
     /\ rid' = [rid EXCEPT ![p] = ids'[Cidr(p)]]
  \/ /\ at[p] = "get" /\ at'[p] = "delete" /\ UNCHANGED table
     /\ cloud[Cidr(p)] # NoRoute /\ rid' = [rid EXCEPT ![p] = ids[Cidr(p)]]

(* A call gets to the poll by its creation, and to the deletion by its lookup. *)
LEMMA StepArrives ==
  ASSUME TypeOK, PlacesFit, NEW p \in Callers, Step(p)
  PROVE  Arrives(p)
<1>0. \A a : Return(p, a) => at'[p] = "idle"
  BY DEF Return, TypeOK
<1>1. ASSUME Fail(p) PROVE Arrives(p)
  <2>1. at'[p] = "idle" \/ UNCHANGED <<at, rid>>
    BY <1>0, <1>1 DEF Fail, PollAgain
  <2> QED
    BY <2>1 DEF Arrives
<1>2. ASSUME UNCHANGED place PROVE Arrives(p)
  BY <1>2 DEF Arrives, place
<1>3. CASE Sign(p) \/ Lost(p) \/ Refused(p) \/ Expired(p) \/ Reload(p)
  BY <1>1, <1>2, <1>3 DEF Sign, Lost, Refused, Expired, Reload, Resend
<1>4. CASE DescribeVpcs(p)
  <2>1. at[p] \in Early
    BY <1>4 DEF DescribeVpcs, Answered, Early
  <2>2. CASE at[p] = "vpcs" /\ Ask(p, Own(call[p].op))
    <3>1. Own(call[p].op) \in Early \cup {"create"}
      BY <2>2, AskFields DEF PlacesFit, FitsAt, Own, Early
    <3>2. at'[p] = Own(call[p].op)
      BY <2>2 DEF Ask, TypeOK
    <3> QED
      BY <2>1, <3>1, <3>2 DEF Arrives
  <2>3. CASE Ask(p, "get")
    BY <2>1, <2>3 DEF Arrives, Ask, Early, TypeOK
  <2> QED
    BY <1>4, <2>2, <2>3 DEF DescribeVpcs, Answered
<1>5. CASE CreateRoute(p)
  BY <1>0, <1>5 DEF CreateRoute, Answered, Arrives, Ask, TypeOK
<1>6. CASE GetRoutes(p)
  BY <1>0, <1>6 DEF GetRoutes, Answered, Arrives, Ask, TypeOK
<1>7. CASE ListRoutes(p) \/ GetRoute(p) \/ DeleteRoute(p)
  BY <1>0, <1>7 DEF ListRoutes, GetRoute, DeleteRoute, Arrives
<1> QED
  BY <1>3, <1>4, <1>5, <1>6, <1>7 DEF Step

(* What a call under routeLock knows of its route, by where it is. *)
Meets(p) ==
  /\ at[p] = "poll" => Owns(p) /\ cloud[Cidr(p)] = call[p].inst
  /\ at[p] = "create" /\ did[p] => cloud[Cidr(p)] = call[p].inst
  /\ at[p] = "delete" => IF did[p] THEN cloud[Cidr(p)] = NoRoute ELSE Owns(p)

(* A step of a call keeps what the call itself knows ... *)
LEMMA OwnStepMeets ==
  ASSUME CInv, NEW p \in Callers, Step(p), Meets(p)
  PROVE  Meets(p)'
<1> USE DEF CInv
<1>1. Note(p) /\ (UNCHANGED table \/ Act(p)) /\ (Goes(p) \/ Ends(p)) /\ Arrives(p)
  BY StepMoves, StepArrives
<1>2. CASE at'[p] = "idle"
  BY <1>2 DEF Meets
<1>3. CASE at'[p] # "idle"
  <2>1. UNCHANGED call
    BY <1>1, <1>3 DEF Goes, Ends, Return, TypeOK
  <2>2. did'[p] = (did[p] \/ cloud' # cloud)
    BY <1>1, <1>3 DEF Note, TypeOK
  <2>3. Cidr(p) \in Cidrs /\ Cidr(p)' = Cidr(p) /\ call[p].inst \in Hops
    BY <2>1, CallFields, TypeParts DEF Cidr
  <2>4. CASE at'[p] = at[p] /\ UNCHANGED rid
    <3>1. CASE UNCHANGED table
      BY <2>1, <2>2, <2>3, <2>4, <3>1 DEF Meets, Owns, table
    <3>2. CASE Act(p)
      <4>1. /\ cloud' # cloud /\ at[p] \in {"create", "delete"}
            /\ at[p] = "create" => cloud'[Cidr(p)] = call[p].inst
            /\ at[p] = "delete" => cloud'[Cidr(p)] = NoRoute
        BY <3>2, ActActs
      <4> QED
        BY <2>1, <2>2, <2>3, <2>4, <4>1 DEF Meets
    <3> QED
      BY <1>1, <3>1, <3>2
  <2>5. CASE at[p] \in Early /\ at'[p] \in Early \cup {"create"}
    <3>1. ~did[p] /\ UNCHANGED table
      BY <1>1, <2>5, ActActs DEF Witnessed, Early
    <3> QED
      BY <2>2, <2>5, <3>1 DEF Meets, Early, table
  <2>6. CASE at[p] = "create" /\ at'[p] = "poll" /\ Act(p) /\ rid' = [rid EXCEPT ![p] = ids'[Cidr(p)]]
    <3>1. cloud'[Cidr(p)] = call[p].inst /\ call[p].inst # NoRoute
      BY <2>6, <2>3, ActActs, ClientAssumption DEF Hops
    <3>2. rid'[p] = ids'[Cidr(p)]
      BY <2>6 DEF TypeOK
    <3> QED
      BY <2>1, <2>3, <2>6, <3>1, <3>2 DEF Meets, Owns
  <2>7. CASE /\ at[p] = "get" /\ at'[p] = "delete" /\ UNCHANGED table
             /\ cloud[Cidr(p)] # NoRoute /\ rid' = [rid EXCEPT ![p] = ids[Cidr(p)]]
    <3>1. ~did'[p]
      BY <2>2, <2>7 DEF Witnessed, table
    <3>2. rid'[p] = ids'[Cidr(p)] /\ cloud'[Cidr(p)] # NoRoute
      BY <2>7 DEF TypeOK, table
    <3> QED
      BY <2>3, <2>7, <3>1, <3>2 DEF Meets, Owns
  <2> QED
    BY <1>1, <1>3, <2>4, <2>5, <2>6, <2>7 DEF Arrives
<1> QED
  BY <1>2, <1>3

(* ... and what any other knows, which has no route to change meanwhile. *)
LEMMA OtherStepMeets ==
  ASSUME CInv, NEW p \in Callers, Step(p), NEW q \in Callers, q # p, Meets(q)
  PROVE  Meets(q)'
<1> USE DEF CInv
<1>1. Note(p) /\ (UNCHANGED table \/ Act(p)) /\ (Goes(p) \/ Ends(p)) /\ Arrives(p)
  BY StepMoves, StepArrives
<1>2. call'[q] = call[q] /\ at'[q] = at[q]
  BY <1>1, OthersStay
<1>3. did'[q] = did[q]
  BY <1>1 DEF Note, TypeOK
<1>4. rid'[q] = rid[q]
  <2>1. Ends(p) => rid'[q] = rid[q]
    BY DEF Ends, Return, TypeOK
  <2>2. Goes(p) => at'[p] # "idle"
    BY DEF Goes, TypeOK
  <2>3. CASE at[p] \in Early /\ at'[p] \in Early \cup {"create"}
    <3>1. DescribeVpcs(p) \/ UNCHANGED rid
      BY <2>3 DEF Step, Sign, Lost, Refused, Expired, Reload, Resend, place, Fail, PollAgain,
         CreateRoute, GetRoutes, ListRoutes, GetRoute, DeleteRoute, Answered, Ask, Return,
         Early, TypeOK
    <3> QED
      BY <3>1 DEF DescribeVpcs
  <2> QED
    BY <1>1, <2>1, <2>2, <2>3 DEF Arrives, TypeOK
<1>5. CASE UNCHANGED table
  BY <1>2, <1>3, <1>4, <1>5 DEF Meets, Owns, Cidr, table
<1>6. CASE Act(p)
  <2>1. Changes(call[p])
    BY <1>6, ActActs DEF Changes
  <2>2. ~Changes(call[q])
    BY <2>1 DEF OneChanger
  <2>3. at[q] \notin {"create", "poll", "delete"}
    BY <2>2 DEF Changes, PlacesFit, FitsAt
  <2> QED
    BY <1>2, <2>3 DEF Meets
<1> QED
  BY <1>1, <1>5, <1>6

(***************************************************************************)
(* Under routeLock, so long as nobody else changes the VPC's routes, a     *)
(* call meets its own doings, however often its requests are repeated.     *)
(***************************************************************************)
THEOREM MeetsOwnDoingsAlways == Safety => []MeetsOwnDoings
<1> DEFINE Inv == foreign = MaxForeign => \A p \in Callers : Meets(p)
<1>1. Init => Inv
  BY DEF Init, Meets
<1>2. CInv /\ Inv /\ [Next]_vars => Inv'
  <2> SUFFICES ASSUME CInv, Inv, [Next]_vars, foreign' = MaxForeign, NEW q \in Callers
               PROVE  Meets(q)'
    OBVIOUS
  <2>1. ASSUME NEW p \in Callers, Step(p)
        PROVE  Meets(q)'
    <3>1. foreign' = foreign
      BY <2>1, StepMoves DEF CInv, Act, table
    <3>2. Meets(q)
      BY <3>1
    <3> QED
      BY <2>1, <3>2, OwnStepMeets, OtherStepMeets
  <2>2. ASSUME NEW p \in Callers, Invoke(p)
        PROVE  Meets(q)'
    <3>1. foreign' = foreign /\ UNCHANGED <<cloud, ids, rid, did>>
      BY <2>2 DEF Invoke, table
    <3>2. p = q => at'[q] = "vpcs"
      BY <2>2 DEF Invoke, CInv, TypeOK
    <3>3. p # q => at'[q] = at[q] /\ call'[q] = call[q]
      BY <2>2 DEF Invoke, CInv, TypeOK
    <3> QED
      BY <3>1, <3>2, <3>3 DEF Meets, Owns, Cidr
  <2>3. CASE Foreign
    <3>1. FALSE
      BY <2>3, ClientAssumption DEF Foreign, CInv, TypeOK
    <3> QED
      BY <3>1
  <2>4. CASE Renew \/ Expire \/ UNCHANGED vars
    BY <2>4 DEF Renew, Expire, vars, table, place, ghost, Meets, Owns, Cidr
  <2> QED
    BY <2>1, <2>2, <2>3, <2>4 DEF Next
<1>3. Inv => MeetsOwnDoings
  BY DEF Meets, MeetsOwnDoings
<1> QED
  BY <1>1, <1>2, <1>3, CallsStayInPlace, PTL DEF Safety
-----------------------------------------------------------------------------
(* What a request does to the progress of its call: three ways, and Ask.   *)
LEMMA FailAdvances ==
  ASSUME TypeOK, NEW p \in Callers, Fail(p), at'[p] # "idle"
  PROVE  Advances(p)
<1>1. at[p] = "poll" /\ time[p] > Interval
  BY DEF Fail, PollAgain, Return, TypeOK
<1>2. at'[p] = at[p] /\ time'[p] = time[p] - Interval
  BY <1>1 DEF Fail, PollAgain, TypeOK
<1>3. time[p] \in Nat /\ Interval \in Nat \ {0}
  BY ClientAssumption DEF TypeOK
<1> QED
  BY <1>2, <1>3 DEF Advances

(* A request that is sent, sent again, reloaded or resent after the reload. *)
LEMMA RequestAdvances ==
  ASSUME TypeOK, NEW p \in Callers, NEW r \in Requests,
         req' = [req EXCEPT ![p] = r], UNCHANGED place,
         \/ Leg(r) < Leg(req[p])
         \/ Leg(r) = Leg(req[p]) /\ req[p].tries < r.tries /\ r.tries < Attempts
  PROVE  Advances(p)
BY DEF Advances, TypeOK, place

(* A call that goes on with another request is at a later stage. *)
LEMMA AskAdvances ==
  ASSUME TypeOK, NEW p \in Callers, NEW r, Ask(p, r), Stage(r) < Stage(at[p])
  PROVE  Advances(p)
BY DEF Ask, Advances, TypeOK

(* The legs of a request, by its phase. *)
LEMMA Legs ==
  ASSUME NEW r \in Requests
  PROVE  /\ r.phase = "sign" => Leg(r) = 3
         /\ r.phase = "send" /\ ~r.again => Leg(r) = 2
         /\ r.phase = "send" /\ r.again => Leg(r) = 0
         /\ r.phase = "reload" => Leg(r) = 1
BY DEF Leg, Requests

(* Every request of a call that does not end it brings it nearer to its end. *)
LEMMA StepAdvances ==
  ASSUME TypeOK, PlacesFit, NEW p \in Callers, Step(p), at'[p] # "idle"
  PROVE  Advances(p)
<1>0. req[p] \in Requests /\ \A a : ~Return(p, a)
  BY DEF Return, TypeOK
<1>1. CASE Fail(p)
  BY <1>1, FailAdvances
<1>2. CASE Sign(p) /\ ~Fail(p)
  <2> DEFINE r == Request("send", 0, FALSE, cache, cache)
  <2>1. cache \in 0 .. MaxToken
    BY ClientAssumption DEF TypeOK
  <2>2. r \in Requests /\ r.phase = "send" /\ ~r.again
    BY <2>1, RequestTypes DEF Request
  <2>3. req' = [req EXCEPT ![p] = r] /\ UNCHANGED place /\ req[p].phase = "sign"
    BY <1>2 DEF Sign
  <2> HIDE DEF r
  <2>4. Leg(r) < Leg(req[p])
    <3>1. Leg(r) = 2
      BY <2>2, Legs
    <3>2. Leg(req[p]) = 3
      BY <1>0, <2>3, Legs
    <3> QED BY <3>1, <3>2
  <2> QED
    BY <2>2, <2>3, <2>4, RequestAdvances
<1>3. CASE Lost(p) /\ ~Fail(p)
  <2> DEFINE r == [req[p] EXCEPT !.tries = @ + 1]
  <2>1. TriesLeft(req[p]) /\ req[p].phase = "send"
    BY <1>3 DEF Lost, Sending
  <2>2. req' = [req EXCEPT ![p] = r] /\ UNCHANGED place
    BY <1>3, <2>1 DEF Lost, TypeOK
  <2>3. /\ r \in Requests /\ r.phase = "send" /\ r.again = req[p].again
        /\ req[p].tries < r.tries /\ r.tries < Attempts
    BY <1>0, <2>1, RequestTypes, ClientAssumption DEF Requests, TriesLeft
  <2> HIDE DEF r
  <2> QED
    BY <1>0, <2>1, <2>2, <2>3, Legs, RequestAdvances
<1>4. CASE Expired(p) /\ ~Fail(p)
  <2> DEFINE r == [req[p] EXCEPT !.phase = "reload"]
  <2>1. ~req[p].again /\ req[p].phase = "send"
    BY <1>4 DEF Expired, Sending
  <2>2. req' = [req EXCEPT ![p] = r] /\ UNCHANGED place
    BY <1>4, <2>1 DEF Expired, TypeOK
  <2>3. r \in Requests /\ r.phase = "reload"
    BY <1>0, RequestTypes DEF Requests
  <2> HIDE DEF r
  <2>4. Leg(r) < Leg(req[p])
    <3>1. Leg(r) = 1
      BY <2>3, Legs
    <3>2. Leg(req[p]) = 2
      BY <1>0, <2>1, Legs
    <3> QED BY <3>1, <3>2
  <2> QED
    BY <2>2, <2>3, <2>4, RequestAdvances
<1>5. CASE Reload(p) /\ ~Fail(p)
  <2> DEFINE r == Request("send", 0, TRUE, req[p].token, issued)
  <2>1. issued \in 0 .. MaxToken /\ req[p].token \in 0 .. MaxToken
    BY <1>0 DEF TypeOK, Requests
  <2>2. r \in Requests /\ r.phase = "send" /\ r.again
    BY <2>1, RequestTypes DEF Request
  <2>3. req' = [req EXCEPT ![p] = r] /\ UNCHANGED place /\ req[p].phase = "reload"
    BY <1>5 DEF Reload, Resend
  <2> HIDE DEF r
  <2>4. Leg(r) < Leg(req[p])
    <3>1. Leg(r) = 0
      BY <2>2, Legs
    <3>2. Leg(req[p]) = 1
      BY <1>0, <2>3, Legs
    <3> QED BY <3>1, <3>2
  <2> QED
    BY <2>2, <2>3, <2>4, RequestAdvances
<1>6. CASE DescribeVpcs(p)
  <2>1. CASE at[p] = "vpcs" /\ Ask(p, Own(call[p].op))
    <3>1. Own(call[p].op) \in {"create", "get", "list", "vpcs2"}
      BY <2>1, AskFields DEF PlacesFit, FitsAt, Own
    <3> QED
      BY <2>1, <3>1, AskAdvances DEF Stage
  <2>2. CASE at[p] = "vpcs2" /\ Ask(p, "get")
    BY <2>2, AskAdvances DEF Stage
  <2> QED
    BY <1>6, <2>1, <2>2 DEF DescribeVpcs, Answered
<1>7. CASE CreateRoute(p)
  BY <1>0, <1>7, AskAdvances DEF CreateRoute, Answered, Stage
<1>8. CASE GetRoutes(p)
  BY <1>0, <1>8, AskAdvances DEF GetRoutes, Answered, Stage
<1> QED
  BY <1>0, <1>1, <1>2, <1>3, <1>4, <1>5, <1>6, <1>7, <1>8
  DEF Step, Refused, ListRoutes, GetRoute, DeleteRoute

(* A step of a call touches the poll and the request of no other. *)
LEMMA OthersUnmoved ==
  ASSUME TypeOK, NEW p \in Callers, Step(p), NEW q \in Callers, q # p
  PROVE  at'[q] = at[q] /\ time'[q] = time[q] /\ req'[q] = req[q]
<1>1. ASSUME Fail(p) \/ \E a : Return(p, a) PROVE at'[q] = at[q] /\ time'[q] = time[q] /\ req'[q] = req[q]
  BY <1>1 DEF Fail, PollAgain, Return, TypeOK
<1>2. ASSUME \E r : Ask(p, r) PROVE at'[q] = at[q] /\ time'[q] = time[q] /\ req'[q] = req[q]
  BY <1>2 DEF Ask, TypeOK
<1>3. ASSUME UNCHANGED place, \E r : req' = [req EXCEPT ![p] = r]
      PROVE  at'[q] = at[q] /\ time'[q] = time[q] /\ req'[q] = req[q]
  BY <1>3 DEF place, TypeOK
<1>4. CASE Sign(p) \/ Lost(p) \/ Refused(p) \/ Expired(p) \/ Reload(p)
  BY <1>1, <1>3, <1>4 DEF Sign, Lost, Refused, Expired, Reload, Resend
<1>5. CASE \/ DescribeVpcs(p) \/ CreateRoute(p) \/ GetRoutes(p) \/ ListRoutes(p)
           \/ GetRoute(p) \/ DeleteRoute(p)
  BY <1>1, <1>2, <1>5 DEF DescribeVpcs, CreateRoute, GetRoutes, ListRoutes, GetRoute, DeleteRoute
<1> QED
  BY <1>4, <1>5 DEF Step

(***************************************************************************)
(* Every request brings its call nearer to its end, by a measure that      *)
(* cannot decrease for ever, and nothing else sets a call back: whatever   *)
(* is lost, refused or expired, a call sends finitely many requests.       *)
(***************************************************************************)
THEOREM CallsAlwaysAdvance == Safety => CallsAdvance
<1> DEFINE Nearer ==
      \A p \in Callers :
        Busy(p) /\ Busy(p)' =>
          IF Step(p) THEN Advances(p)
          ELSE at'[p] = at[p] /\ time'[p] = time[p] /\ req'[p] = req[p]
<1>1. CInv /\ [Next]_vars => Nearer
  <2> SUFFICES ASSUME CInv, [Next]_vars, NEW p \in Callers, Busy(p), at'[p] # "idle", ~Step(p)
               PROVE  at'[p] = at[p] /\ time'[p] = time[p] /\ req'[p] = req[p]
    BY StepAdvances DEF CInv, Busy
  <2>1. CASE \E q \in Callers : Step(q)
    BY <2>1, OthersUnmoved DEF CInv
  <2>2. ASSUME NEW q \in Callers, Invoke(q) PROVE at'[p] = at[p] /\ time'[p] = time[p] /\ req'[p] = req[p]
    BY <2>2 DEF Invoke, CInv, TypeOK
  <2>3. CASE Foreign \/ Renew \/ Expire \/ UNCHANGED vars
    BY <2>3 DEF Foreign, Renew, Expire, vars, place
  <2> QED
    BY <2>1, <2>2, <2>3 DEF Next
<1>2. CInv /\ [Next]_vars => [Nearer]_vars
  BY <1>1
<1> QED
  BY <1>2, CallsStayInPlace, PTL DEF Safety, CallsAdvance
=============================================================================
