--------------------------- MODULE RequestProofs ---------------------------
(***************************************************************************)
(* Theorems about the requests for desktops and their quotas, for every    *)
(* set of users, templates, names and requests, every quota and every      *)
(* bound.                                                                  *)
(***************************************************************************)
EXTENDS DesktopRequests, FiniteSetTheorems, TLAPS

----------------------------------------------------------------------------
(* When a quota counts as exhausted.                                       *)

LEMMA Division ==
  ASSUME NEW n \in Nat, NEW d \in Nat, d > 0
  PROVE  n \div d \in Nat /\ n % d \in 0 .. d - 1 /\ n = d * (n \div d) + (n % d)
  OBVIOUS

LEMMA QuotientAbove ==
  ASSUME NEW q \in Int, NEW d \in Nat, d > 0, NEW r \in 0 .. d - 1, NEW k \in Nat, d * q + r >= k * d
  PROVE  q >= k
  <1>1. SUFFICES ASSUME q <= k - 1 PROVE FALSE OBVIOUS
  <1>2. d * q <= d * (k - 1) BY <1>1
  <1>3. d * (k - 1) = k * d - d OBVIOUS
  <1> QED BY <1>2, <1>3

LEMMA QuotientBelow ==
  ASSUME NEW q \in Nat, NEW d \in Nat, d > 0, NEW r \in 0 .. d - 1, NEW k \in Nat, d * q + r < k * d
  PROVE  q < k
  <1>1. SUFFICES ASSUME q >= k PROVE FALSE OBVIOUS
  <1>2. d * q >= d * k BY <1>1
  <1>3. d * k = k * d OBVIOUS
  <1> QED BY <1>2, <1>3

LEMMA PercentIsExact ==
  ASSUME NEW used \in Nat, NEW limit \in Nat
  PROVE  Percent(used, limit) >= 100 <=> 200 * (limit - used) <= limit
  <1>1. CASE limit = 0
    BY <1>1 DEF Percent
  <1>2. CASE limit > 0
    <2> DEFINE q == (100 * used) \div limit
               r == (100 * used) % limit
    <2>1. /\ q \in Nat /\ r \in 0 .. limit - 1 /\ 100 * used = limit * q + r
      BY <1>2, Division
    <2>a. q \in Nat /\ r \in 0 .. limit - 1 BY <2>1
    <2>2. Percent(used, limit) = IF 2 * r > limit \/ (2 * r = limit /\ q % 2 = 1) THEN q + 1 ELSE q
      BY <1>2 DEF Percent, Rounded
    <2> HIDE DEF q, r
    <2>3. CASE used >= limit
      <3>1. limit * q + r >= 100 * limit BY <2>1, <2>3
      <3>2. q >= 100 BY <1>2, <2>1, <3>1, QuotientAbove
      <3>3. Percent(used, limit) >= 100 BY <2>a, <2>2, <3>2
      <3> QED BY <2>3, <3>3
    <2>4. CASE used < limit
      <3>1. limit * q + r < 100 * limit BY <2>1, <2>4
      <3>2. q < 100 BY <1>2, <2>1, <3>1, QuotientBelow
      <3>3. CASE q = 99
        <4>1. limit * q = 99 * limit BY <3>3
        <4>2. 100 * (limit - used) = limit - r BY <2>1, <4>1
        <4>3. q % 2 = 1 BY <3>3
        <4>4. Percent(used, limit) >= 100 <=> 2 * r >= limit BY <2>a, <2>2, <3>3, <4>3
        <4> QED BY <2>a, <4>2, <4>4
      <3>4. CASE q < 99
        <4>1. limit * q <= limit * 98 BY <2>a, <3>4
        <4>2. 100 * used < 99 * limit BY <2>1, <4>1
        <4>3. ~ (Percent(used, limit) >= 100) BY <2>a, <2>2, <3>4
        <4> QED BY <4>2, <4>3
      <3> QED BY <2>a, <3>2, <3>3, <3>4
    <2> QED BY <2>3, <2>4
  <1> QED BY <1>1, <1>2

(***************************************************************************)
(* The percentage that WebappQuotas.check compares with 100 is rounded to  *)
(* the nearest: a quota counts as exhausted when less than half a percent  *)
(* of it is left, which below 200 means that all of it is used.            *)
(***************************************************************************)
THEOREM QuotasAreExact ==
  ASSUME NEW what, NEW used \in Nat, NEW limit \in Nat
  PROVE  /\ Full(what, used, limit, FALSE) <=> 200 * (limit - used) <= limit
         /\ limit < 200 => (Full(what, used, limit, FALSE) <=> used >= limit)
  <1>1. Full(what, used, limit, FALSE) <=> Percent(used, limit) >= 100 BY DEF Full
  <1>2. limit < 200 => (200 * (limit - used) <= limit <=> used >= limit) OBVIOUS
  <1> QED BY <1>1, <1>2, PercentIsExact

LEMMA SmallestIn ==
  ASSUME NEW S \in SUBSET (1 .. 9), S # {}
  PROVE  Min(S) \in S
  <1>1. \E x \in S : \A y \in S : x =< y
    <2>1. CASE 1 \in S BY <2>1
    <2>2. CASE 1 \notin S /\ 2 \in S BY <2>2
    <2>3. CASE 1 \notin S /\ 2 \notin S /\ 3 \in S BY <2>3
    <2>4. CASE S \cap (1 .. 3) = {} /\ 4 \in S BY <2>4
    <2>5. CASE S \cap (1 .. 4) = {} /\ 5 \in S BY <2>5
    <2>6. CASE S \cap (1 .. 5) = {} /\ 6 \in S BY <2>6
    <2>7. CASE S \cap (1 .. 6) = {} /\ 7 \in S BY <2>7
    <2>8. CASE S \cap (1 .. 7) = {} /\ 8 \in S BY <2>8
    <2>9. CASE S \cap (1 .. 8) = {}
      <3>1. \A x \in S : x = 9 BY <2>9
      <3>2. PICK x \in S : TRUE OBVIOUS
      <3>3. x = 9 /\ \A y \in S : x =< y BY <3>1, <3>2
      <3> QED BY <3>3
    <2> QED BY <2>1, <2>2, <2>3, <2>4, <2>5, <2>6, <2>7, <2>8, <2>9
  <1> QED BY <1>1 DEF Min

\* A user whose desktops are checked before one is made has less than the quota.
LEMMA CreateBelow ==
  ASSUME NEW tables, NEW u \in Users, UserQuota[u] \in [Resources -> Nat], UserQuota[u] # NoLimit,
         DesktopCreate(tables, u) = Fine, Cardinality(Desktops(tables.domains, {u})) \in Nat
  PROVE  Cardinality(Desktops(tables.domains, {u})) < UserQuota[u].d
  <1> DEFINE asked == [k \in 1 .. 3 * 1 |-> <<<<"user", "group", "category">>[((k - 1) \div 1) + 1],
                                              <<"d">>[((k - 1) % 1) + 1]>>]
             full == {k \in 1 .. 3 * 1 : FullFor(tables, u, asked[k][1], asked[k][2])}
  <1>1. NewDesktop(tables, u) = IF full = {} THEN NotExceeded ELSE asked[Min(full)]
    BY DEF NewDesktop, FirstFull
  <1>2. NewDesktop(tables, u) = NotExceeded BY DEF DesktopCreate, Fine
  <1>3. full = {}
    <2>1. SUFFICES ASSUME full # {} PROVE FALSE OBVIOUS
    <2>2. full \in SUBSET (1 .. 3) OBVIOUS
    <2>3. Min(full) \in 1 .. 3
      <3> HIDE DEF full
      <3>1. full \in SUBSET (1 .. 9) BY <2>2
      <3>2. Min(full) \in full BY <2>1, <3>1, SmallestIn
      <3> QED BY <2>2, <3>2
    <2>4. PICK k \in 1 .. 3 : k = Min(full) BY <2>3
    <2>5. ((k - 1) \div 1) + 1 \in 1 .. 3 OBVIOUS
    <2>6. asked[k][1] = <<"user", "group", "category">>[((k - 1) \div 1) + 1] OBVIOUS
    <2>7. asked[k][1] \in {"user", "group", "category"} BY <2>5, <2>6
    <2>8. asked[k] = NotExceeded BY <1>1, <1>2, <2>1, <2>4
    <2> HIDE DEF asked
    <2> QED BY <2>7, <2>8 DEF NotExceeded
  <1>4. ~ FullFor(tables, u, "user", "d")
    <2>1. 1 \in 1 .. 3 * 1 /\ ((1 - 1) \div 1) + 1 = 1 /\ ((1 - 1) % 1) + 1 = 1 OBVIOUS
    <2>2. asked[1] = <<"user", "d">> BY <2>1
    <2>3. asked[1][1] = "user" /\ asked[1][2] = "d" BY <2>2
    <2> QED BY <1>3, <2>1, <2>3
  <1>5. ~ (Percent(UsedByUser(tables, u).d, UserQuota[u].d) >= 100)
    BY <1>4 DEF FullFor, Full
  <1>6. UsedByUser(tables, u).d = Cardinality(Desktops(tables.domains, {u}))
    BY DEF UsedByUser, Used
  <1>7. UserQuota[u].d \in Nat BY DEF Resources
  <1> DEFINE n == Cardinality(Desktops(tables.domains, {u}))
             limit == UserQuota[u].d
  <1>8. ~ (200 * (limit - n) <= limit) /\ n \in Nat /\ limit \in Nat
    <2>1. ~ (Percent(n, limit) >= 100) /\ n \in Nat /\ limit \in Nat BY <1>5, <1>6, <1>7
    <2> HIDE DEF n, limit
    <2> QED BY <2>1, PercentIsExact
  <1> HIDE DEF n, limit
  <1>9. n < limit BY <1>8
  <1> QED BY <1>9 DEF n, limit

\* The same for those that run.
LEMMA StartBelow ==
  ASSUME NEW tables, NEW u \in Users, UserQuota[u] \in [Resources -> Nat], UserQuota[u] # NoLimit,
         DesktopStart(tables, u) = Fine,
         Cardinality(Desktops(tables.domains, {u}) \cap Started(tables.domains, {u})) \in Nat
  PROVE  Cardinality(Desktops(tables.domains, {u}) \cap Started(tables.domains, {u})) < UserQuota[u].r
  <1> DEFINE asked == [k \in 1 .. 3 * 3 |-> <<<<"user", "group", "category">>[((k - 1) \div 3) + 1],
                                              <<"r", "v", "m">>[((k - 1) % 3) + 1]>>]
             full == {k \in 1 .. 3 * 3 : FullFor(tables, u, asked[k][1], asked[k][2])}
  <1>1. NewConcurrent(tables, u) = IF full = {} THEN NotExceeded ELSE asked[Min(full)]
    <2> DEFINE w == <<"r", "v", "m">>
               asked0 == [k \in 1 .. 3 * Len(w) |-> <<<<"user", "group", "category">>[((k - 1) \div Len(w)) + 1],
                                                      w[((k - 1) % Len(w)) + 1]>>]
               full0 == {k \in 1 .. 3 * Len(w) : FullFor(tables, u, asked0[k][1], asked0[k][2])}
    <2>1. Len(w) = 3 OBVIOUS
    <2>2. NewConcurrent(tables, u) = IF full0 = {} THEN NotExceeded ELSE asked0[Min(full0)]
      BY Zenon DEF NewConcurrent, FirstFull
    <2>3. asked0 = asked BY <2>1
    <2>4. full0 = full
      <3> HIDE DEF asked0, asked, w
      <3> QED BY <2>1, <2>3
    <2> HIDE DEF asked0, asked, full0, full, w
    <2> QED BY <2>2, <2>3, <2>4
  <1>2. NewConcurrent(tables, u) = NotExceeded BY DEF DesktopStart, Fine
  <1>3. full = {}
    <2>1. SUFFICES ASSUME full # {} PROVE FALSE OBVIOUS
    <2>2. full \in SUBSET (1 .. 9) OBVIOUS
    <2>3. Min(full) \in 1 .. 9
      <3> HIDE DEF full
      <3> QED BY <2>1, <2>2, SmallestIn
    <2>4. PICK k \in 1 .. 9 : k = Min(full) BY <2>3
    <2>5. ((k - 1) \div 3) + 1 \in 1 .. 3 OBVIOUS
    <2>6. asked[k][1] = <<"user", "group", "category">>[((k - 1) \div 3) + 1] OBVIOUS
    <2>7. asked[k][1] \in {"user", "group", "category"} BY <2>5, <2>6
    <2>8. asked[k] = NotExceeded BY <1>1, <1>2, <2>1, <2>4
    <2> HIDE DEF asked
    <2> QED BY <2>7, <2>8 DEF NotExceeded
  <1>4. ~ FullFor(tables, u, "user", "r")
    <2>1. 1 \in 1 .. 3 * 3 /\ ((1 - 1) \div 3) + 1 = 1 /\ ((1 - 1) % 3) + 1 = 1 OBVIOUS
    <2>2. asked[1] = <<"user", "r">> BY <2>1
    <2>3. asked[1][1] = "user" /\ asked[1][2] = "r" BY <2>2
    <2> QED BY <1>3, <2>1, <2>3
  <1>5. ~ (Percent(UsedByUser(tables, u).r, UserQuota[u].r) >= 100)
    BY <1>4 DEF FullFor, Full
  <1>6. UsedByUser(tables, u).r = Cardinality(Desktops(tables.domains, {u}) \cap Started(tables.domains, {u}))
    BY DEF UsedByUser, Used
  <1>7. UserQuota[u].r \in Nat BY DEF Resources
  <1> DEFINE n == Cardinality(Desktops(tables.domains, {u}) \cap Started(tables.domains, {u}))
             limit == UserQuota[u].r
  <1>8. ~ (200 * (limit - n) <= limit) /\ n \in Nat /\ limit \in Nat
    <2>1. ~ (Percent(n, limit) >= 100) /\ n \in Nat /\ limit \in Nat BY <1>5, <1>6, <1>7
    <2> HIDE DEF n, limit
    <2> QED BY <2>1, PercentIsExact
  <1> HIDE DEF n, limit
  <1>9. n < limit BY <1>8
  <1> QED BY <1>9 DEF n, limit

----------------------------------------------------------------------------
(* Types.                                                                  *)

Fields == {"op", "user", "template", "id", "pc", "todo", "goal", "answer"}
Pcs == {"idle", "begin", "quota", "both", "look", "write", "wait", "next", "create", "open", "answered"}
Goals == {Goal("Starting", "Started", "ok"), Goal("Any", "Started", "ok"), Goal("Stopping", "Stopped", "ok"),
          Goal("Stopping", "Stopped", "delete"), Goal("Deleting", "gone", "next")}
Jobs == {"create", "createStart", "start", "stop", "delete"}

\* A request, and what it has at each of its steps.
RequestOK(q) ==
    /\ DOMAIN q = Fields
    /\ q.op \in Ops \cup {"none"} /\ q.id \in Ids \cup {NoId} /\ q.pc \in Pcs
    /\ q.todo \in Seq(Ids \X Statuses) /\ q.goal \in Goals \cup {NoGoal} /\ q.answer \in Answers
    /\ q.pc \notin {"idle", "answered"} =>
         /\ q.op \in Ops /\ q.user \in Users /\ q.template \in Templates
         /\ q.op # "volatile" => q.id \in Ids
         /\ q.op \in {"persistent", "scratch"} => q.id \in PersistentIds /\ q.id[1] = q.user
    /\ q.pc \in {"open", "write", "wait"} => q.id \in Ids
    /\ q.pc \in {"write", "wait"} => q.goal \in Goals /\ (q.goal.then # "ok" => q.op \in {"volatile", "delete"})
    /\ q.pc = "write" => q.goal.to # "Any"
    /\ q.pc = "next" => q.op \in {"volatile", "delete"}
    /\ q.pc \in {"create", "open"} => q.op = "volatile"

TableTypes ==
    /\ DOMAIN domains \subseteq Ids /\ IsFiniteSet(DOMAIN domains)
    /\ \A d \in DOMAIN domains : domains[d] \in Rows /\ domains[d].user = d[1]
EngineTypes ==
    /\ feed \in [Ids -> Seq((Statuses \cup {"none"}) \X Statuses)]
    /\ jobs \in [Ids -> SUBSET Jobs]
    /\ guests \subseteq Ids /\ now \in 1 .. Seconds
RequestTypes == DOMAIN req = Requests /\ \A r \in Requests : RequestOK(req[r])
Types == TableTypes /\ EngineTypes /\ RequestTypes

LEMMA WithFields ==
  ASSUME NEW q, NEW fields, DOMAIN fields \subseteq DOMAIN q
  PROVE  /\ DOMAIN With(q, fields) = DOMAIN q
         /\ \A f \in DOMAIN q : With(q, fields)[f] = IF f \in DOMAIN fields THEN fields[f] ELSE q[f]
  BY DEF With

LEMMA OkWithOK ==
  ASSUME NEW q, RequestOK(q), NEW d \in Ids \cup {NoId}
  PROVE  RequestOK(With(q, OkWith(d))) /\ With(q, OkWith(d)).pc = "answered"
  <1> DEFINE n == With(q, OkWith(d))
  <1>1. DOMAIN OkWith(d) = {"pc", "answer", "goal", "todo", "id"} BY DEF OkWith
  <1>2. DOMAIN n = Fields /\ n.pc = "answered" /\ n.answer = "ok" /\ n.goal = NoGoal /\ n.todo = <<>> /\ n.id = d
        /\ n.op = q.op
    BY <1>1, WithFields DEF RequestOK, Fields, OkWith
  <1>3. q.op \in Ops \cup {"none"} BY DEF RequestOK
  <1> HIDE DEF n
  <1>4. RequestOK(n) BY <1>2, <1>3 DEF RequestOK, Pcs, Answers
  <1> QED BY <1>2, <1>4 DEF n

\* A request that is not done, with other values of what changes while it is served.
LEMMA MovedOK ==
  ASSUME NEW q, RequestOK(q), q.pc \notin {"idle", "answered"}, NEW n, DOMAIN n = Fields,
         n.op = q.op, n.user = q.user, n.template = q.template, n.answer = q.answer,
         n.pc \in Pcs \ {"idle", "answered"}, n.id \in Ids \cup {NoId}, n.todo \in Seq(Ids \X Statuses),
         n.goal \in Goals \cup {NoGoal}, n.id = q.id \/ (n.id \in Ids /\ q.op \in {"volatile", "delete"}),
         n.pc \in {"open", "write", "wait"} => n.id \in Ids,
         n.pc \in {"write", "wait"} => n.goal \in Goals /\ (n.goal.then # "ok" => q.op \in {"volatile", "delete"}),
         n.pc = "write" => n.goal.to # "Any",
         n.pc = "next" => q.op \in {"volatile", "delete"},
         n.pc \in {"create", "open"} => q.op = "volatile"
  PROVE  RequestOK(n)
  BY DEF RequestOK

LEMMA ToldTypes ==
  ASSUME RequestTypes, NEW d \in Ids, NEW s, req' = Told(req, d, s)
  PROVE  RequestTypes'
  <1>1. DOMAIN req' = Requests BY DEF Told
  <1>2. ASSUME NEW r \in Requests PROVE RequestOK(req'[r])
    <2> DEFINE q == req[r]
    <2>1. RequestOK(q) BY DEF RequestTypes
    <2>2. CASE ~ (q.pc = "wait" /\ q.id = d /\ q.goal.final = s)
      <3>1. req'[r] = q BY <2>2 DEF Told
      <3> QED BY <2>1, <3>1
    <2>3. CASE q.pc = "wait" /\ q.id = d /\ q.goal.final = s /\ q.goal.then = "ok"
      <3>1. req'[r] = With(q, OkWith(d)) BY <2>3 DEF Told
      <3> QED BY <2>1, <3>1, OkWithOK
    <2>4. CASE q.pc = "wait" /\ q.id = d /\ q.goal.final = s /\ q.goal.then # "ok"
      <3> DEFINE todo == IF q.goal.then = "delete" THEN <<<<d, "Stopped">>>> \o q.todo ELSE q.todo
                 fields == [pc |-> "next", goal |-> NoGoal, todo |-> todo]
                 n == With(q, fields)
      <3>1. req'[r] = n BY <2>4 DEF Told
      <3>2. todo \in Seq(Ids \X Statuses)
        <4>1. q.todo \in Seq(Ids \X Statuses) BY <2>1 DEF RequestOK
        <4>2. <<<<d, "Stopped">>>> \in Seq(Ids \X Statuses) BY DEF Statuses
        <4>3. <<<<d, "Stopped">>>> \o q.todo \in Seq(Ids \X Statuses)
          <5> DEFINE first == <<<<d, "Stopped">>>>
                     rest == q.todo
          <5> HIDE DEF first, rest
          <5> QED BY <4>1, <4>2 DEF first, rest
        <4> QED BY <4>1, <4>3
      <3> HIDE DEF todo
      <3>5. DOMAIN fields = {"pc", "goal", "todo"} /\ DOMAIN q = Fields BY <2>1 DEF RequestOK
      <3>6. DOMAIN n = Fields /\ \A f \in Fields : n[f] = IF f \in {"pc", "goal", "todo"} THEN fields[f] ELSE q[f]
        BY <3>5, WithFields DEF Fields
      <3>3. DOMAIN n = Fields /\ n.pc = "next" /\ n.goal = NoGoal /\ n.todo = todo /\ n.op = q.op /\ n.user = q.user
            /\ n.template = q.template /\ n.id = q.id /\ n.answer = q.answer
        BY <3>6 DEF Fields
      <3> HIDE DEF n, q
      <3>4. RequestOK(n) BY <2>1, <2>4, <3>2, <3>3 DEF RequestOK, Pcs
      <3> QED BY <3>1, <3>4
    <2> QED BY <2>2, <2>3, <2>4
  <1> QED BY <1>1, <1>2 DEF RequestTypes

LEMMA WithStatusTypes ==
  ASSUME TableTypes, NEW d, NEW s \in Statuses, domains' = WithStatus(d, s)
  PROVE  TableTypes' /\ DOMAIN domains' = DOMAIN domains
  BY DEF TableTypes, WithStatus, Exists, Rows

LEMMA PutStatusTypes ==
  ASSUME TableTypes, EngineTypes, NEW d \in Ids, NEW s \in Statuses, PutStatus(d, s),
         UNCHANGED <<jobs, guests, now>>
  PROVE  TableTypes' /\ EngineTypes'
  <1>1. TableTypes' BY WithStatusTypes DEF PutStatus
  <1>2. Exists(d) => <<domains[d].status, s>> \in (Statuses \cup {"none"}) \X Statuses
    BY DEF TableTypes, Exists, Rows
  <1>3. feed' \in [Ids -> Seq((Statuses \cup {"none"}) \X Statuses)]
    BY <1>2 DEF PutStatus, EngineTypes
  <1> QED BY <1>1, <1>3 DEF EngineTypes

LEMMA InsertTypes ==
  ASSUME Assumption, TableTypes, EngineTypes, NEW d \in Ids, NEW u \in Users, u = d[1], NEW t \in Templates,
         NEW s \in Statuses, Insert(d, u, t, s), UNCHANGED <<jobs, guests, now>>
  PROVE  TableTypes' /\ EngineTypes'
  <1>1. Hardware[t].v \in Nat /\ Hardware[t].m \in Nat BY DEF Assumption
  <1>2. DOMAIN domains' = DOMAIN domains \cup {d} BY DEF Insert
  <1>3. IsFiniteSet(DOMAIN domains') BY <1>2, FS_AddElement DEF TableTypes
  <1>4. ASSUME NEW e \in DOMAIN domains' PROVE domains'[e] \in Rows /\ domains'[e].user = e[1]
    <2>1. CASE e = d
      <3>1. domains'[e] = [user |-> u, template |-> t, kind |-> "desktop", status |-> s,
                           vcpus |-> Hardware[t].v, memory |-> Hardware[t].m]
        BY <1>2, <2>1 DEF Insert
      <3> QED BY <1>1, <2>1, <3>1 DEF Rows
    <2>2. CASE e # d
      <3>1. e \in DOMAIN domains /\ domains'[e] = domains[e] BY <1>2, <2>2 DEF Insert
      <3> QED BY <3>1 DEF TableTypes
    <2> QED BY <2>1, <2>2
  <1>5. feed' \in [Ids -> Seq((Statuses \cup {"none"}) \X Statuses)] BY DEF Insert, EngineTypes
  <1> QED BY <1>2, <1>3, <1>4, <1>5 DEF TableTypes, EngineTypes

LEMMA SetToSeqIs ==
  ASSUME NEW S, IsFiniteSet(S)
  PROVE  SetToSeq(S) \in [1 .. Cardinality(S) -> S]
  <1>1. PICK f : f \in Bijection(1 .. Cardinality(S), S) BY FS_CardinalityType DEF ExistsBijection
  <1>2. f \in [1 .. Cardinality(S) -> S] /\ IsInjective(f) BY <1>1 DEF Bijection, Injection
  <1> QED BY <1>2 DEF SetToSeq

LEMMA OwnIs ==
  ASSUME TableTypes, NEW u, NEW t
  PROVE  /\ IsFiniteSet(VolatileOf(u, t)) /\ VolatileOf(u, t) \subseteq Ids \cap DOMAIN domains
         /\ ToDelete(u, t) \in Seq(Ids \X Statuses)
         /\ Len(ToDelete(u, t)) = Cardinality(VolatileOf(u, t))
         /\ \A k \in 1 .. Len(ToDelete(u, t)) : ToDelete(u, t)[k][1] \in VolatileOf(u, t)
  <1> DEFINE own == VolatileOf(u, t)
             ds == SetToSeq(own)
             n == Cardinality(own)
  <1>1. own \subseteq DOMAIN domains /\ DOMAIN domains \subseteq Ids BY DEF VolatileOf, TableTypes
  <1>2. IsFiniteSet(own) BY <1>1, FS_Subset DEF TableTypes
  <1>3. n \in Nat /\ ds \in [1 .. n -> own] BY <1>2, FS_CardinalityType, SetToSeqIs
  <1>4. ToDelete(u, t) = [k \in DOMAIN ds |-> <<ds[k], domains[ds[k]].status>>] BY DEF ToDelete
  <1> HIDE DEF ds, own, n
  <1>5. ToDelete(u, t) = [k \in 1 .. n |-> <<ds[k], domains[ds[k]].status>>] BY <1>3, <1>4
  <1>6. \A k \in 1 .. n : ds[k] \in own /\ <<ds[k], domains[ds[k]].status>> \in Ids \X Statuses
    BY <1>1, <1>3 DEF TableTypes, Rows
  <1>7. ToDelete(u, t) \in [1 .. n -> Ids \X Statuses] BY <1>5, <1>6
  <1>8. ToDelete(u, t) \in Seq(Ids \X Statuses) BY <1>3, <1>7
  <1>9. Len(ToDelete(u, t)) = n BY <1>3, <1>5, <1>8
  <1>10. \A k \in 1 .. n : ToDelete(u, t)[k][1] = ds[k] BY <1>5
  <1> QED BY <1>1, <1>2, <1>6, <1>8, <1>9, <1>10 DEF own, n

----------------------------------------------------------------------------
(* What each step does to the request that takes it.                       *)

\* The request r goes on at step p, for the desktop i, with the list t and the goal g.
Moves(r, p, i, t, g) ==
    /\ DOMAIN req' = Requests /\ \A q \in Requests \ {r} : req'[q] = req[q]
    /\ DOMAIN req'[r] = Fields
    /\ req'[r].op = req[r].op /\ req'[r].user = req[r].user /\ req'[r].template = req[r].template
    /\ req'[r].pc = p /\ req'[r].id = i /\ req'[r].todo = t /\ req'[r].goal = g
GoesOn(r, p) == Moves(r, p, req[r].id, req[r].todo, req[r].goal) /\ req'[r].answer = req[r].answer
Refused(r) == Moves(r, "answered", NoId, <<>>, NoGoal) /\ req'[r].answer \in Answers \ {"ok"}
Granted(r, d) == Moves(r, "answered", d, <<>>, NoGoal) /\ req'[r].answer = "ok"
Waits(r, p, i, t, g) == Moves(r, p, i, t, g) /\ req'[r].answer = req[r].answer
TableKept == UNCHANGED <<domains, feed, jobs, guests, now>>

LEMMA GoMoves ==
  ASSUME RequestTypes, NEW r \in Requests, NEW fields, Go(r, fields),
         DOMAIN fields \subseteq {"pc", "id", "todo", "goal", "answer"}
  PROVE  /\ DOMAIN req' = Requests /\ \A q \in Requests \ {r} : req'[q] = req[q]
         /\ DOMAIN req'[r] = Fields
         /\ req'[r].op = req[r].op /\ req'[r].user = req[r].user /\ req'[r].template = req[r].template
         /\ \A f \in {"pc", "id", "todo", "goal", "answer"} :
              req'[r][f] = IF f \in DOMAIN fields THEN fields[f] ELSE req[r][f]
  <1>1. DOMAIN req = Requests /\ DOMAIN req[r] = Fields BY DEF RequestTypes, RequestOK
  <1>2. DOMAIN req' = Requests /\ (\A q \in Requests \ {r} : req'[q] = req[q]) /\ req'[r] = With(req[r], fields)
    BY <1>1 DEF Go
  <1>3. DOMAIN fields \subseteq DOMAIN req[r] BY <1>1 DEF Fields
  <1>4. DOMAIN req'[r] = Fields
        /\ \A f \in Fields : req'[r][f] = IF f \in DOMAIN fields THEN fields[f] ELSE req[r][f]
    BY <1>1, <1>2, <1>3, WithFields
  <1> QED BY <1>2, <1>4 DEF Fields

LEMMA GoGoesOn ==
  ASSUME RequestTypes, NEW r \in Requests, NEW p, Go(r, [pc |-> p])
  PROVE  GoesOn(r, p)
  <1> DEFINE f == [pc |-> p]
  <1>1. DOMAIN f = {"pc"} /\ f.pc = p OBVIOUS
  <1>2. Go(r, f) OBVIOUS
  <1> HIDE DEF f
  <1> QED BY <1>1, <1>2, GoMoves DEF GoesOn, Moves

LEMMA GoRefused ==
  ASSUME RequestTypes, NEW r \in Requests, NEW a \in Answers \ {"ok"}, Go(r, Answered(a))
  PROVE  Refused(r)
  <1> DEFINE f == Answered(a)
  <1>1. DOMAIN f = {"pc", "answer", "goal", "todo", "id"} /\ f.pc = "answered" /\ f.answer = a /\ f.goal = NoGoal
        /\ f.todo = <<>> /\ f.id = NoId
    BY DEF Answered
  <1>2. Go(r, f) OBVIOUS
  <1> HIDE DEF f
  <1> QED BY <1>1, <1>2, GoMoves DEF Refused, Moves

LEMMA GoGranted ==
  ASSUME RequestTypes, NEW r \in Requests, NEW d, Go(r, OkWith(d))
  PROVE  Granted(r, d)
  <1> DEFINE f == OkWith(d)
  <1>1. DOMAIN f = {"pc", "answer", "goal", "todo", "id"} /\ f.pc = "answered" /\ f.answer = "ok" /\ f.goal = NoGoal
        /\ f.todo = <<>> /\ f.id = d
    BY DEF OkWith
  <1>2. Go(r, f) OBVIOUS
  <1> HIDE DEF f
  <1> QED BY <1>1, <1>2, GoMoves DEF Granted, Moves

LEMMA GoGoal ==
  ASSUME RequestTypes, NEW r \in Requests, NEW p, NEW g, Go(r, [pc |-> p, goal |-> g])
  PROVE  Waits(r, p, req[r].id, req[r].todo, g)
  <1> DEFINE f == [pc |-> p, goal |-> g]
  <1>1. DOMAIN f = {"pc", "goal"} /\ f.pc = p /\ f.goal = g OBVIOUS
  <1>2. Go(r, f) OBVIOUS
  <1> HIDE DEF f
  <1> QED BY <1>1, <1>2, GoMoves DEF Waits, Moves

LEMMA GoIdGoal ==
  ASSUME RequestTypes, NEW r \in Requests, NEW p, NEW i, NEW g, Go(r, [pc |-> p, id |-> i, goal |-> g])
  PROVE  Waits(r, p, i, req[r].todo, g)
  <1> DEFINE f == [pc |-> p, id |-> i, goal |-> g]
  <1>1. DOMAIN f = {"pc", "id", "goal"} /\ f.pc = p /\ f.id = i /\ f.goal = g OBVIOUS
  <1>2. Go(r, f) OBVIOUS
  <1> HIDE DEF f
  <1> QED BY <1>1, <1>2, GoMoves DEF Waits, Moves

LEMMA GoId ==
  ASSUME RequestTypes, NEW r \in Requests, NEW p, NEW i, Go(r, [pc |-> p, id |-> i])
  PROVE  Waits(r, p, i, req[r].todo, req[r].goal)
  <1> DEFINE f == [pc |-> p, id |-> i]
  <1>1. DOMAIN f = {"pc", "id"} /\ f.pc = p /\ f.id = i OBVIOUS
  <1>2. Go(r, f) OBVIOUS
  <1> HIDE DEF f
  <1> QED BY <1>1, <1>2, GoMoves DEF Waits, Moves

LEMMA GoTodo ==
  ASSUME RequestTypes, NEW r \in Requests, NEW p, NEW t, Go(r, [pc |-> p, todo |-> t])
  PROVE  Waits(r, p, req[r].id, t, req[r].goal)
  <1> DEFINE f == [pc |-> p, todo |-> t]
  <1>1. DOMAIN f = {"pc", "todo"} /\ f.pc = p /\ f.todo = t OBVIOUS
  <1>2. Go(r, f) OBVIOUS
  <1> HIDE DEF f
  <1> QED BY <1>1, <1>2, GoMoves DEF Waits, Moves

LEMMA GoAll ==
  ASSUME RequestTypes, NEW r \in Requests, NEW p, NEW i, NEW t, NEW g,
         Go(r, [pc |-> p, id |-> i, todo |-> t, goal |-> g])
  PROVE  Waits(r, p, i, t, g)
  <1> DEFINE f == [pc |-> p, id |-> i, todo |-> t, goal |-> g]
  <1>1. DOMAIN f = {"pc", "id", "todo", "goal"} /\ f.pc = p /\ f.id = i /\ f.todo = t /\ f.goal = g OBVIOUS
  <1>2. Go(r, f) OBVIOUS
  <1> HIDE DEF f
  <1> QED BY <1>1, <1>2, GoMoves DEF Waits, Moves

LEMMA AnswersAre ==
  ASSUME NEW raised
  PROVE  /\ AnswerToQuota(raised) \in Answers \ {"ok"} /\ AnswerToAction(raised) \in Answers \ {"ok"}
         /\ AnswerToNew(raised) \in Answers \ {"ok"} /\ AnswerToNamed(raised) \in Answers \ {"ok"}
         /\ AnswerToDelete(raised) \in Answers \ {"ok"}
  BY DEF AnswerToQuota, AnswerToAction, AnswerToNew, AnswerToNamed, AnswerToDelete, Answers

\* A request arrives, for one of the users' desktops or for a new one.
Begins(r) ==
    /\ Cardinality(Active) < Clients /\ req[r].pc = "idle"
    /\ DOMAIN req' = Requests /\ \A q \in Requests \ {r} : req'[q] = req[q]
    /\ DOMAIN req'[r] = Fields /\ req'[r].pc = "begin"
    /\ req'[r].op \in Ops /\ req'[r].user \in Users /\ req'[r].template \in Templates
    /\ req'[r].id \in Ids \cup {NoId}
    /\ req'[r].op # "volatile" => req'[r].id \in Ids /\ req'[r].id[1] = req'[r].user
    /\ req'[r].op \in {"persistent", "scratch"} => req'[r].id \in PersistentIds
    /\ req'[r].op \in {"start", "stop", "delete"} => Exists(req'[r].id) /\ (Patient => DoneWith(req'[r].id))
    /\ req'[r].todo = req[r].todo /\ req'[r].goal = req[r].goal /\ req'[r].answer = req[r].answer

LEMMA ArrivesBegins ==
  ASSUME RequestTypes, NEW r \in Requests, NEW op, NEW u, NEW t, NEW d, Arrives(r, op, u, t, d)
  PROVE  /\ Cardinality(Active) < Clients /\ req[r].pc = "idle" /\ op \in Ops /\ TableKept
         /\ DOMAIN req' = Requests /\ \A q \in Requests \ {r} : req'[q] = req[q]
         /\ DOMAIN req'[r] = Fields /\ req'[r].pc = "begin"
         /\ req'[r].op = op /\ req'[r].user = u /\ req'[r].template = t /\ req'[r].id = d
         /\ req'[r].todo = req[r].todo /\ req'[r].goal = req[r].goal /\ req'[r].answer = req[r].answer
  <1> DEFINE f == [op |-> op, user |-> u, template |-> t, id |-> d, pc |-> "begin"]
  <1>1. DOMAIN f = {"op", "user", "template", "id", "pc"} /\ f.op = op /\ f.user = u /\ f.template = t /\ f.id = d
        /\ f.pc = "begin"
    OBVIOUS
  <1>2. Go(r, f) BY DEF Arrives
  <1> HIDE DEF f
  <1>3. DOMAIN req = Requests /\ DOMAIN req[r] = Fields BY DEF RequestTypes, RequestOK
  <1>4. DOMAIN req' = Requests /\ (\A q \in Requests \ {r} : req'[q] = req[q]) /\ req'[r] = With(req[r], f)
    BY <1>2, <1>3 DEF Go
  <1>5. DOMAIN f \subseteq DOMAIN req[r] BY <1>1, <1>3 DEF Fields
  <1>6. DOMAIN req'[r] = Fields /\ \A x \in Fields : req'[r][x] = IF x \in DOMAIN f THEN f[x] ELSE req[r][x]
    BY <1>3, <1>4, <1>5, WithFields
  <1> QED BY <1>1, <1>4, <1>6 DEF Fields, Arrives, TableKept

LEMMA AsksBegins ==
  ASSUME Assumption, TableTypes, RequestTypes, NEW r \in Requests,
         AsksVolatile(r) \/ AsksNamed(r) \/ AsksScratch(r) \/ AsksAction(r)
  PROVE  Begins(r) /\ TableKept
  <1>1. CASE AsksVolatile(r)
    <2>1. PICK u \in Users, t \in Templates : Arrives(r, "volatile", u, t, NoId) BY <1>1 DEF AsksVolatile
    <2> QED BY <2>1, ArrivesBegins DEF Begins
  <1>2. CASE AsksNamed(r)
    <2>1. PICK t \in Templates, d \in PersistentIds : Arrives(r, "persistent", d[1], t, d) BY <1>2 DEF AsksNamed
    <2>2. d \in Ids /\ d[1] \in Users BY DEF PersistentIds, Ids
    <2> QED BY <2>1, <2>2, ArrivesBegins DEF Begins
  <1>3. CASE AsksScratch(r)
    <2>1. PICK t \in Templates, d \in PersistentIds : Arrives(r, "scratch", d[1], t, d) BY <1>3 DEF AsksScratch
    <2>2. d \in Ids /\ d[1] \in Users BY DEF PersistentIds, Ids
    <2> QED BY <2>1, <2>2, ArrivesBegins DEF Begins
  <1>4. CASE AsksAction(r)
    <2>1. PICK op \in {"start", "stop", "delete"}, d \in DOMAIN domains :
            (Patient => DoneWith(d)) /\ Arrives(r, op, d[1], domains[d].template, d)
      BY <1>4 DEF AsksAction
    <2>2. d \in Ids /\ d[1] \in Users /\ domains[d].template \in Templates
      BY DEF TableTypes, Rows, Ids, VolatileIds, PersistentIds
    <2> QED BY <2>1, <2>2, ArrivesBegins DEF Begins, Exists
  <1> QED BY <1>1, <1>2, <1>3, <1>4

LEMMA LooksForOthersDoes ==
  ASSUME RequestTypes, TableTypes, NEW r \in Requests, LooksForOthers(r)
  PROVE  LET q == req[r]  own == VolatileOf(q.user, q.template)
         IN /\ q.pc = "begin" /\ q.op = "volatile" /\ TableKept
            /\ \/ Refused(r)
               \/ own = {} /\ GoesOn(r, "both")
               \/ own # {} /\ domains[Newest(own)].status = "Stopped" /\ GoesOn(r, "quota")
               \/ own # {} /\ domains[Newest(own)].status # "Stopped" /\ GoesOn(r, "look")
  <1> DEFINE q == req[r]  own == VolatileOf(q.user, q.template)
             u == q.user  t == q.template
  <1>1. q.pc = "begin" /\ q.op = "volatile" /\ TableKept BY DEF LooksForOthers, TableKept
  <1>2. Cardinality(own) \in Nat /\ (own # {} => Cardinality(own) # 0)
    BY OwnIs, FS_CardinalityType, FS_EmptySet
  <1>3. CASE u \notin Allowed[t]
    <2>1. Go(r, Answered("forbidden")) BY <1>3 DEF LooksForOthers
    <2> QED BY <1>1, <2>1, GoRefused DEF Answers
  <1>4. CASE u \in Allowed[t] /\ Cardinality(own) > 2
    <2>1. own # {} BY <1>4, FS_EmptySet
    <2>2. Go(r, Answered("error"))
      BY <1>4, <2>1 DEF LooksForOthers
    <2> QED BY <1>1, <2>2, GoRefused DEF Answers
  <1>5. CASE u \in Allowed[t] /\ own = {}
    <2>1. Cardinality(own) = 0 BY <1>5, FS_EmptySet
    <2>2. Go(r, [pc |-> "both"]) BY <1>5, <2>1 DEF LooksForOthers
    <2> QED BY <1>1, <1>5, <2>2, GoGoesOn
  <1>6. CASE u \in Allowed[t] /\ own # {} /\ Cardinality(own) <= 2
    <2> DEFINE p == IF domains[Newest(own)].status = "Stopped" THEN "quota" ELSE "look"
    <2>1. Cardinality(own) \in {1, 2} BY <1>2, <1>6
    <2>2. Go(r, [pc |-> p]) BY <1>6, <2>1 DEF LooksForOthers
    <2> HIDE DEF p
    <2>3. GoesOn(r, p) BY <2>2, GoGoesOn
    <2> QED BY <1>1, <1>6, <2>3 DEF p
  <1> QED BY <1>2, <1>3, <1>4, <1>5, <1>6

LEMMA ChecksBothDoes ==
  ASSUME RequestTypes, NEW r \in Requests, ChecksBoth(r)
  PROVE  /\ req[r].pc = "both" /\ req[r].op = "volatile" /\ TableKept
         /\ \/ Refused(r)
            \/ /\ DesktopCreate(Tables, req[r].user) = Fine /\ DesktopStart(Tables, req[r].user) = Fine
               /\ GoesOn(r, "look")
  <1> DEFINE raised == DesktopCreateAndStart(Tables, req[r].user)
  <1>1. req[r].pc = "both" /\ req[r].op = "volatile" /\ TableKept BY DEF ChecksBoth, TableKept
  <1>2. CASE raised = Fine
    <2>1. Go(r, [pc |-> "look"]) BY <1>2 DEF ChecksBoth
    <2>2. DesktopCreate(Tables, req[r].user) = Fine /\ DesktopStart(Tables, req[r].user) = Fine
      BY <1>2 DEF DesktopCreateAndStart
    <2> QED BY <1>1, <2>1, <2>2, GoGoesOn
  <1>3. CASE raised # Fine
    <2>1. Go(r, Answered(AnswerToQuota(raised))) BY <1>3 DEF ChecksBoth
    <2> QED BY <1>1, <2>1, GoRefused, AnswersAre
  <1> QED BY <1>2, <1>3

LEMMA LooksAtOwnDoes ==
  ASSUME RequestTypes, TableTypes, NEW r \in Requests, LooksAtOwn(r)
  PROVE  LET q == req[r]  own == VolatileOf(q.user, q.template)
         IN /\ q.pc = "look" /\ q.op = "volatile" /\ TableKept
            /\ \/ \E d \in own : own = {d} /\ domains[d].status = "Started" /\ Granted(r, d)
               \/ \E d \in own : own = {d} /\ domains[d].status = "Stopped"
                                 /\ Waits(r, "write", d, q.todo, Goal("Starting", "Started", "ok"))
               \/ /\ \A d \in own : own = {d} => domains[d].status \notin {"Started", "Stopped"}
                  /\ Waits(r, "next", q.id, ToDelete(q.user, q.template), q.goal)
  <1> DEFINE q == req[r]  own == VolatileOf(q.user, q.template)
             only == Cardinality(own) = 1  x == CHOOSE e \in own : TRUE
  <1>1. q.pc = "look" /\ q.op = "volatile" /\ TableKept BY DEF LooksAtOwn, TableKept
  <1>2. Go(r, IF only /\ domains[x].status = "Started" THEN OkWith(x)
              ELSE IF only /\ domains[x].status = "Stopped"
              THEN [pc |-> "write", id |-> x, goal |-> Goal("Starting", "Started", "ok")]
              ELSE [pc |-> "next", todo |-> ToDelete(q.user, q.template)])
    BY DEF LooksAtOwn
  <1>3. IsFiniteSet(own) BY OwnIs
  <1> HIDE DEF own
  <1>4. only => own = {x} /\ x \in own
    <2>1. SUFFICES ASSUME only PROVE own = {x} OBVIOUS
    <2>2. PICK e : own = {e} BY <1>3, <2>1, FS_Singleton
    <2> QED BY <2>2
  <1>5. \A d : own = {d} => only /\ x = d
    BY FS_Singleton
  <1> HIDE DEF only, x
  <1>6. CASE only /\ domains[x].status = "Started"
    <2>1. Go(r, OkWith(x)) BY <1>2, <1>6
    <2> QED BY <1>1, <1>4, <1>6, <2>1, GoGranted DEF own
  <1>7. CASE only /\ domains[x].status = "Stopped"
    <2>1. Go(r, [pc |-> "write", id |-> x, goal |-> Goal("Starting", "Started", "ok")]) BY <1>2, <1>7
    <2> QED BY <1>1, <1>4, <1>7, <2>1, GoIdGoal DEF own
  <1>8. CASE ~ (only /\ domains[x].status \in {"Started", "Stopped"})
    <2>1. Go(r, [pc |-> "next", todo |-> ToDelete(q.user, q.template)]) BY <1>2, <1>8
    <2>2. Waits(r, "next", q.id, ToDelete(q.user, q.template), q.goal) BY <2>1, GoTodo
    <2>3. \A d \in own : own = {d} => domains[d].status \notin {"Started", "Stopped"} BY <1>5, <1>8
    <2> QED BY <1>1, <2>2, <2>3 DEF own
  <1> QED BY <1>6, <1>7, <1>8

LEMMA CreatesDoes ==
  ASSUME RequestTypes, NEW r \in Requests, Creates(r)
  PROVE  LET q == req[r]  d == <<q.user, q.template, now>>
         IN /\ q.pc = "create" /\ UNCHANGED <<jobs, guests, now>>
            /\ \/ Exists(d) /\ Refused(r) /\ TableKept
               \/ ~ Exists(d) /\ Insert(d, q.user, q.template, "CreatingAndStarting")
                  /\ Waits(r, "open", d, q.todo, q.goal)
  <1> DEFINE q == req[r]  d == <<q.user, q.template, now>>
  <1>1. q.pc = "create" /\ UNCHANGED <<jobs, guests, now>> BY DEF Creates
  <1>2. CASE Exists(d)
    <2>1. Go(r, Answered(AnswerToNew("DesktopNotCreated"))) /\ TableKept BY <1>2 DEF Creates, TableKept
    <2> QED BY <1>1, <1>2, <2>1, GoRefused, AnswersAre
  <1>3. CASE ~ Exists(d)
    <2>1. Insert(d, q.user, q.template, "CreatingAndStarting") /\ Go(r, [pc |-> "open", id |-> d])
      BY <1>3 DEF Creates
    <2>2. Waits(r, "open", d, q.todo, q.goal) BY <2>1, GoId
    <2> QED BY <1>1, <1>3, <2>1, <2>2
  <1> QED BY <1>2, <1>3

LEMMA OpensDoes ==
  ASSUME RequestTypes, NEW r \in Requests, Opens(r)
  PROVE  /\ req[r].pc = "open" /\ TableKept
         /\ Waits(r, "wait", req[r].id, req[r].todo, Goal("Any", "Started", "ok"))
  BY GoGoal DEF Opens, TableKept

LEMMA WritesDoes ==
  ASSUME RequestTypes, NEW r \in Requests, Writes(r)
  PROVE  /\ req[r].pc = "write" /\ PutStatus(req[r].id, req[r].goal.to) /\ GoesOn(r, "wait")
         /\ UNCHANGED <<jobs, guests, now>>
  BY GoGoesOn DEF Writes

LEMMA TimesOutDoes ==
  ASSUME RequestTypes, NEW r \in Requests, TimesOut(r)
  PROVE  req[r].pc = "wait" /\ (Patient => DoneWith(req[r].id)) /\ TableKept /\ Refused(r)
  <1>1. PICK a \in Answers \ {"ok"} : Go(r, Answered(a)) BY AnswersAre DEF TimesOut
  <1> QED BY <1>1, GoRefused DEF TimesOut, TableKept

LEMMA LooksToDeleteDoes ==
  ASSUME RequestTypes, NEW r \in Requests, LooksToDelete(r)
  PROVE  LET q == req[r]
         IN /\ q.pc = "begin" /\ q.op = "delete" /\ TableKept
            /\ \/ Refused(r)
               \/ Exists(q.id) /\ Waits(r, "next", q.id, <<<<q.id, domains[q.id].status>>>>, q.goal)
  <1> DEFINE d == req[r].id
  <1>1. req[r].pc = "begin" /\ req[r].op = "delete" /\ TableKept BY DEF LooksToDelete, TableKept
  <1>2. CASE ~ Exists(d)
    <2>1. Go(r, Answered(AnswerToDelete("DesktopNotFound"))) BY <1>2 DEF LooksToDelete
    <2> QED BY <1>1, <2>1, GoRefused, AnswersAre
  <1>3. CASE Exists(d)
    <2>1. Go(r, [pc |-> "next", todo |-> <<<<d, domains[d].status>>>>]) BY <1>3 DEF LooksToDelete
    <2>2. Waits(r, "next", d, <<<<d, domains[d].status>>>>, req[r].goal) BY <2>1, GoTodo
    <2> QED BY <1>1, <1>3, <2>2
  <1> QED BY <1>2, <1>3

LEMMA DeletesNextDoes ==
  ASSUME RequestTypes, NEW r \in Requests, DeletesNext(r)
  PROVE  LET q == req[r]  d == q.todo[1][1]  s == q.todo[1][2]
         IN /\ q.pc = "next" /\ q.todo # <<>> /\ UNCHANGED <<jobs, guests, now>>
            /\ \/ /\ s = "Started" /\ UNCHANGED <<domains, feed>>
                  /\ Waits(r, "write", d, Tail(q.todo), Goal("Stopping", "Stopped", "delete"))
               \/ /\ s # "Started" /\ Waits(r, "write", d, Tail(q.todo), Goal("Deleting", "gone", "next"))
                  /\ \/ s \in {"Stopped", "Failed"} /\ UNCHANGED <<domains, feed>>
                     \/ s \notin {"Stopped", "Failed"} /\ PutStatus(d, "Failed")
  <1> DEFINE q == req[r]  d == q.todo[1][1]  s == q.todo[1][2]
  <1>1. q.pc = "next" /\ q.todo # <<>> /\ UNCHANGED <<jobs, guests, now>> BY DEF DeletesNext
  <1>2. CASE s = "Started"
    <2>1. Go(r, [pc |-> "write", id |-> d, todo |-> Tail(q.todo), goal |-> Goal("Stopping", "Stopped", "delete")])
          /\ UNCHANGED <<domains, feed>>
      BY <1>2 DEF DeletesNext, StopsFirst
    <2> QED BY <1>1, <1>2, <2>1, GoAll
  <1>3. CASE s # "Started"
    <2>1. /\ Go(r, [pc |-> "write", id |-> d, todo |-> Tail(q.todo), goal |-> Goal("Deleting", "gone", "next")])
          /\ IF s \in {"Stopped", "Failed"} THEN UNCHANGED <<domains, feed>> ELSE PutStatus(d, "Failed")
      BY <1>3 DEF DeletesNext, StopsFirst
    <2>2. Waits(r, "write", d, Tail(q.todo), Goal("Deleting", "gone", "next")) BY <2>1, GoAll
    <2> QED BY <1>1, <1>3, <2>1, <2>2
  <1> QED BY <1>2, <1>3

LEMMA AllDeletedDoes ==
  ASSUME RequestTypes, NEW r \in Requests, AllDeleted(r)
  PROVE  /\ req[r].pc = "next" /\ req[r].todo = <<>> /\ TableKept
         /\ \/ req[r].op = "delete" /\ Granted(r, req[r].id)
            \/ req[r].op # "delete" /\ GoesOn(r, "create")
  <1>1. req[r].pc = "next" /\ req[r].todo = <<>> /\ TableKept BY DEF AllDeleted, TableKept
  <1>2. CASE req[r].op = "delete"
    <2>1. Go(r, OkWith(req[r].id)) BY <1>2 DEF AllDeleted
    <2> QED BY <1>1, <1>2, <2>1, GoGranted
  <1>3. CASE req[r].op # "delete"
    <2>1. Go(r, [pc |-> "create"]) BY <1>3 DEF AllDeleted
    <2> QED BY <1>1, <1>3, <2>1, GoGoesOn
  <1> QED BY <1>2, <1>3

LEMMA LooksUpDoes ==
  ASSUME RequestTypes, NEW r \in Requests, LooksUpToStart(r) \/ LooksUpToStop(r)
  PROVE  /\ req[r].pc = "begin" /\ TableKept
         /\ \/ Refused(r)
            \/ req[r].op = "start" /\ GoesOn(r, "quota")
            \/ req[r].op = "stop" /\ GoesOn(r, "look")
  <1>1. CASE LooksUpToStart(r)
    <2>1. Go(r, Answered("error")) \/ Go(r, [pc |-> "quota"]) BY <1>1 DEF LooksUpToStart
    <2> QED BY <1>1, <2>1, GoGoesOn, GoRefused DEF LooksUpToStart, TableKept, Answers
  <1>2. CASE LooksUpToStop(r)
    <2>1. Go(r, Answered("error")) \/ Go(r, [pc |-> "look"]) BY <1>2 DEF LooksUpToStop
    <2> QED BY <1>2, <2>1, GoGoesOn, GoRefused DEF LooksUpToStop, TableKept, Answers
  <1> QED BY <1>1, <1>2

LEMMA ChecksStartsDoes ==
  ASSUME RequestTypes, NEW r \in Requests, ChecksStartOfOwn(r) \/ ChecksStart(r)
  PROVE  /\ req[r].pc = "quota" /\ req[r].op \in {"volatile", "start"} /\ TableKept
         /\ \/ Refused(r)
            \/ DesktopStart(Tables, req[r].user) = Fine /\ GoesOn(r, "look")
  <1> DEFINE raised == DesktopStart(Tables, req[r].user)
  <1>1. req[r].pc = "quota" /\ req[r].op \in {"volatile", "start"} /\ TableKept
    BY DEF ChecksStartOfOwn, ChecksStart, TableKept
  <1>2. CASE raised = Fine
    <2>1. Go(r, [pc |-> "look"]) BY <1>2 DEF ChecksStartOfOwn, ChecksStart
    <2> QED BY <1>1, <1>2, <2>1, GoGoesOn
  <1>3. CASE raised # Fine
    <2>1. Go(r, Answered(AnswerToQuota(raised))) BY <1>3 DEF ChecksStartOfOwn, ChecksStart
    <2> QED BY <1>1, <2>1, GoRefused, AnswersAre
  <1> QED BY <1>2, <1>3

LEMMA LooksToStartDoes ==
  ASSUME RequestTypes, NEW r \in Requests, LooksToStart(r)
  PROVE  LET q == req[r]
         IN /\ q.pc = "look" /\ q.op = "start" /\ TableKept
            /\ \/ Refused(r)
               \/ Exists(q.id) /\ Granted(r, q.id)
               \/ /\ Exists(q.id) /\ domains[q.id].status \in {"Stopped", "Failed"}
                  /\ Waits(r, "write", q.id, q.todo, Goal("Starting", "Started", "ok"))
  <1> DEFINE d == req[r].id
  <1>1. req[r].pc = "look" /\ req[r].op = "start" /\ TableKept BY DEF LooksToStart, TableKept
  <1>2. CASE ~ Exists(d)
    <2>1. Go(r, Answered("error")) BY <1>2 DEF LooksToStart
    <2> QED BY <1>1, <2>1, GoRefused DEF Answers
  <1>3. CASE Exists(d) /\ domains[d].status = "Started"
    <2>1. Go(r, OkWith(d)) BY <1>3 DEF LooksToStart
    <2> QED BY <1>1, <1>3, <2>1, GoGranted
  <1>4. CASE Exists(d) /\ domains[d].status # "Started" /\ domains[d].status \notin {"Stopped", "Failed"}
    <2>1. Go(r, Answered(AnswerToAction("DesktopActionFailed"))) BY <1>4 DEF LooksToStart
    <2> QED BY <1>1, <2>1, GoRefused, AnswersAre
  <1>5. CASE Exists(d) /\ domains[d].status \in {"Stopped", "Failed"}
    <2>1. domains[d].status # "Started" BY <1>5
    <2>2. Go(r, [pc |-> "write", goal |-> Goal("Starting", "Started", "ok")]) BY <1>5, <2>1 DEF LooksToStart
    <2> QED BY <1>1, <1>5, <2>2, GoGoal
  <1> QED BY <1>2, <1>3, <1>4, <1>5

LEMMA LooksToStopDoes ==
  ASSUME RequestTypes, NEW r \in Requests, LooksToStop(r)
  PROVE  LET q == req[r]
         IN /\ q.pc = "look" /\ q.op = "stop" /\ TableKept
            /\ \/ Refused(r)
               \/ Exists(q.id) /\ Granted(r, q.id)
               \/ /\ Exists(q.id) /\ domains[q.id].status = "Started"
                  /\ Waits(r, "write", q.id, q.todo, Goal("Stopping", "Stopped", "ok"))
  <1> DEFINE d == req[r].id
  <1>1. req[r].pc = "look" /\ req[r].op = "stop" /\ TableKept BY DEF LooksToStop, TableKept
  <1>2. CASE ~ Exists(d)
    <2>1. Go(r, Answered("error")) BY <1>2 DEF LooksToStop
    <2> QED BY <1>1, <2>1, GoRefused DEF Answers
  <1>3. CASE Exists(d) /\ domains[d].status = "Stopped"
    <2>1. Go(r, OkWith(d)) BY <1>3 DEF LooksToStop
    <2> QED BY <1>1, <1>3, <2>1, GoGranted
  <1>4. CASE Exists(d) /\ domains[d].status \notin {"Stopped", "Started"}
    <2>1. Go(r, Answered(AnswerToAction("DesktopActionFailed"))) BY <1>4 DEF LooksToStop
    <2> QED BY <1>1, <2>1, GoRefused, AnswersAre
  <1>5. CASE Exists(d) /\ domains[d].status = "Started"
    <2>1. domains[d].status # "Stopped" BY <1>5
    <2>2. Go(r, [pc |-> "write", goal |-> Goal("Stopping", "Stopped", "ok")]) BY <1>5, <2>1 DEF LooksToStop
    <2> QED BY <1>1, <1>5, <2>2, GoGoal
  <1> QED BY <1>2, <1>3, <1>4, <1>5

LEMMA ChecksNamedDoes ==
  ASSUME RequestTypes, NEW r \in Requests, ChecksNamed(r)
  PROVE  /\ req[r].pc = "begin" /\ req[r].op = "persistent" /\ TableKept
         /\ \/ Refused(r)
            \/ DesktopCreate(Tables, req[r].user) = Fine /\ GoesOn(r, "look")
  <1> DEFINE q == req[r]  raised == DesktopCreate(Tables, q.user)
  <1>1. q.pc = "begin" /\ q.op = "persistent" /\ TableKept BY DEF ChecksNamed, TableKept
  <1>2. CASE q.user \notin Allowed[q.template]
    <2>1. Go(r, Answered("forbidden")) BY <1>2 DEF ChecksNamed
    <2> QED BY <1>1, <2>1, GoRefused DEF Answers
  <1>3. CASE q.user \in Allowed[q.template] /\ raised = Fine
    <2>1. Go(r, [pc |-> "look"]) BY <1>3 DEF ChecksNamed
    <2> QED BY <1>1, <1>3, <2>1, GoGoesOn
  <1>4. CASE q.user \in Allowed[q.template] /\ raised # Fine
    <2>1. Go(r, Answered(AnswerToQuota(raised))) BY <1>4 DEF ChecksNamed
    <2> QED BY <1>1, <2>1, GoRefused, AnswersAre
  <1> QED BY <1>2, <1>3, <1>4

LEMMA LooksForNameDoes ==
  ASSUME RequestTypes, NEW r \in Requests, LooksForName(r)
  PROVE  /\ req[r].pc = "look" /\ req[r].op = "persistent" /\ TableKept
         /\ Refused(r) \/ GoesOn(r, "both")
  <1>1. Go(r, Answered(AnswerToNamed("DesktopExists"))) \/ Go(r, [pc |-> "both"]) BY DEF LooksForName
  <1> QED BY <1>1, GoRefused, GoGoesOn, AnswersAre DEF LooksForName, TableKept

LEMMA InsertsNamedDoes ==
  ASSUME RequestTypes, NEW r \in Requests, InsertsNamed(r)
  PROVE  LET q == req[r]
         IN /\ q.pc = "both" /\ q.op = "persistent" /\ UNCHANGED <<jobs, guests, now>>
            /\ \/ Exists(q.id) /\ Refused(r) /\ TableKept
               \/ ~ Exists(q.id) /\ Insert(q.id, q.user, q.template, "Creating") /\ Granted(r, q.id)
  <1> DEFINE q == req[r]
  <1>1. q.pc = "both" /\ q.op = "persistent" /\ UNCHANGED <<jobs, guests, now>> BY DEF InsertsNamed
  <1>2. CASE Exists(q.id)
    <2>1. Go(r, Answered(AnswerToNamed("NewDesktopNotInserted"))) /\ TableKept
      BY <1>2 DEF InsertsNamed, AnswerToConflict, TableKept
    <2> QED BY <1>1, <1>2, <2>1, GoRefused, AnswersAre
  <1>3. CASE ~ Exists(q.id)
    <2>1. Insert(q.id, q.user, q.template, "Creating") /\ Go(r, OkWith(q.id)) BY <1>3 DEF InsertsNamed
    <2> QED BY <1>1, <1>3, <2>1, GoGranted
  <1> QED BY <1>2, <1>3

LEMMA ScratchDoes ==
  ASSUME RequestTypes, NEW r \in Requests, RefusesScratch(r) \/ LooksForScratch(r) \/ LacksHardware(r)
  PROVE  req[r].op = "scratch" /\ req[r].pc \in {"begin", "both"} /\ TableKept /\ (Refused(r) \/ GoesOn(r, "both"))
  <1>1. req[r].op = "scratch" /\ req[r].pc \in {"begin", "both"} /\ TableKept
    BY DEF RefusesScratch, LooksForScratch, LacksHardware, TableKept
  <1>2. Go(r, Answered("bad")) \/ Go(r, Answered("error")) \/ Go(r, [pc |-> "both"])
    BY DEF RefusesScratch, LooksForScratch, LacksHardware, AnswerToScratch
  <1> QED BY <1>1, <1>2, GoRefused, GoGoesOn DEF Answers

LEMMA InsertsScratchDoes ==
  ASSUME RequestTypes, NEW r \in Requests, InsertsScratch(r)
  PROVE  LET q == req[r]
         IN /\ q.pc = "both" /\ q.op = "scratch" /\ UNCHANGED <<jobs, guests, now>> /\ Granted(r, q.id)
            /\ \/ UNCHANGED <<domains, feed>>
               \/ ~ Exists(q.id) /\ Insert(q.id, q.user, q.template, "CreatingDomainFromDisk")
  BY GoGranted DEF InsertsScratch

\* A change that a request waits for is told to it.
LEMMA ToldDoes ==
  ASSUME RequestTypes, NEW d, NEW s, req' = Told(req, d, s), NEW r \in Requests
  PROVE  LET q == req[r]  n == req'[r]
         IN \/ n = q /\ ~ (q.pc = "wait" /\ q.id = d /\ q.goal.final = s)
            \/ /\ q.pc = "wait" /\ q.id = d /\ q.goal.final = s
               /\ n.op = q.op /\ n.user = q.user /\ n.template = q.template /\ n.id = d /\ n.goal = NoGoal
               /\ \/ q.goal.then = "ok" /\ n.pc = "answered" /\ n.answer = "ok" /\ n.todo = <<>>
                  \/ /\ q.goal.then # "ok" /\ n.pc = "next" /\ n.answer = q.answer
                     /\ n.todo = IF q.goal.then = "delete" THEN <<<<d, "Stopped">>>> \o q.todo ELSE q.todo
  <1> DEFINE q == req[r]  n == req'[r]
             told == q.pc = "wait" /\ q.id = d /\ q.goal.final = s
             todo == IF q.goal.then = "delete" THEN <<<<d, "Stopped">>>> \o q.todo ELSE q.todo
  <1>1. DOMAIN q = Fields BY DEF RequestTypes, RequestOK
  <1>2. CASE ~ told
    <2>1. n = q BY <1>2 DEF Told
    <2> QED BY <1>2, <2>1
  <1>3. CASE told /\ q.goal.then = "ok"
    <2> DEFINE f == OkWith(d)
    <2>1. n = With(q, f) BY <1>3 DEF Told
    <2>2. DOMAIN f = {"pc", "answer", "goal", "todo", "id"} /\ f.pc = "answered" /\ f.answer = "ok" /\ f.goal = NoGoal
          /\ f.todo = <<>> /\ f.id = d
      BY DEF OkWith
    <2> HIDE DEF f
    <2>3. \A x \in Fields : n[x] = IF x \in DOMAIN f THEN f[x] ELSE q[x]
      BY <1>1, <2>1, <2>2, WithFields DEF Fields
    <2>4. n.op = q.op /\ n.user = q.user /\ n.template = q.template /\ n.id = d /\ n.goal = NoGoal
          /\ n.pc = "answered" /\ n.answer = "ok" /\ n.todo = <<>>
      BY <2>2, <2>3 DEF Fields
    <2> QED BY <1>3, <2>4
  <1>4. CASE told /\ q.goal.then # "ok"
    <2> DEFINE f == [pc |-> "next", goal |-> NoGoal, todo |-> todo]
    <2>1. n = With(q, f) BY <1>4 DEF Told
    <2> HIDE DEF todo
    <2>2. DOMAIN f = {"pc", "goal", "todo"} /\ f.pc = "next" /\ f.goal = NoGoal /\ f.todo = todo OBVIOUS
    <2> HIDE DEF f
    <2>3. \A x \in Fields : n[x] = IF x \in DOMAIN f THEN f[x] ELSE q[x]
      BY <1>1, <2>1, <2>2, WithFields DEF Fields
    <2>4. n.op = q.op /\ n.user = q.user /\ n.template = q.template /\ n.id = q.id /\ n.goal = NoGoal
          /\ n.pc = "next" /\ n.answer = q.answer /\ n.todo = todo
      BY <2>2, <2>3 DEF Fields
    <2> QED BY <1>4, <2>4 DEF todo
  <1> QED BY <1>2, <1>3, <1>4

----------------------------------------------------------------------------
(* Types are kept.                                                         *)

LEMMA WaitsTypes ==
  ASSUME RequestTypes, NEW r \in Requests, req[r].pc \notin {"idle", "answered"}, NEW p \in Pcs \ {"idle", "answered"},
         NEW i \in Ids \cup {NoId}, NEW t \in Seq(Ids \X Statuses), NEW g \in Goals \cup {NoGoal}, Waits(r, p, i, t, g),
         i = req[r].id \/ (i \in Ids /\ req[r].op \in {"volatile", "delete"}),
         p \in {"open", "write", "wait"} => i \in Ids,
         p \in {"write", "wait"} => g \in Goals /\ (g.then # "ok" => req[r].op \in {"volatile", "delete"}),
         p = "write" => g.to # "Any",
         p = "next" => req[r].op \in {"volatile", "delete"},
         p \in {"create", "open"} => req[r].op = "volatile"
  PROVE  RequestTypes'
  <1>1. RequestOK(req[r]) BY DEF RequestTypes
  <1>2. RequestOK(req'[r]) BY <1>1, MovedOK DEF Waits, Moves
  <1> QED BY <1>2 DEF RequestTypes, Waits, Moves

LEMMA GoesOnTypes ==
  ASSUME RequestTypes, NEW r \in Requests, req[r].pc \notin {"idle", "answered"}, NEW p \in Pcs \ {"idle", "answered"},
         GoesOn(r, p), p \notin {"open", "write", "wait"},
         p = "next" => req[r].op \in {"volatile", "delete"},
         p = "create" => req[r].op = "volatile"
  PROVE  RequestTypes'
  <1>1. RequestOK(req[r]) BY DEF RequestTypes
  <1>2. Waits(r, p, req[r].id, req[r].todo, req[r].goal) BY DEF GoesOn, Waits
  <1> QED BY <1>1, <1>2, WaitsTypes DEF RequestOK

LEMMA AnsweredTypes ==
  ASSUME RequestTypes, NEW r \in Requests, NEW d \in Ids \cup {NoId}, Refused(r) \/ Granted(r, d)
  PROVE  RequestTypes'
  <1>1. RequestOK(req[r]) BY DEF RequestTypes
  <1>2. /\ DOMAIN req' = Requests /\ \A q \in Requests \ {r} : req'[q] = req[q]
        /\ DOMAIN req'[r] = Fields /\ req'[r].op = req[r].op /\ req'[r].pc = "answered" /\ req'[r].id \in Ids \cup {NoId}
        /\ req'[r].todo = <<>> /\ req'[r].goal = NoGoal /\ req'[r].answer \in Answers
    BY DEF Refused, Granted, Moves, Answers
  <1>3. RequestOK(req'[r]) BY <1>1, <1>2 DEF RequestOK, Pcs
  <1> QED BY <1>2, <1>3 DEF RequestTypes

LEMMA KeptTypes ==
  ASSUME TableTypes, EngineTypes, TableKept PROVE TableTypes' /\ EngineTypes'
  BY DEF TableTypes, EngineTypes, TableKept

LEMMA TypesInit == Assumption /\ Init => Types
  <1> SUFFICES ASSUME Assumption, Init PROVE Types OBVIOUS
  <1>1. TableTypes BY FS_EmptySet DEF Init, TableTypes
  <1>2. EngineTypes BY DEF Init, EngineTypes, Assumption
  <1>3. RequestTypes
    <2>1. DOMAIN req = Requests /\ \A r \in Requests : req[r] = Idle BY DEF Init
    <2>2. RequestOK(Idle) BY DEF RequestOK, Idle, Fields, Pcs, Answers
    <2> QED BY <2>1, <2>2 DEF RequestTypes
  <1> QED BY <1>1, <1>2, <1>3 DEF Types

LEMMA BeginsTypes ==
  ASSUME RequestTypes, NEW r \in Requests, Begins(r)
  PROVE  RequestTypes'
  <1>1. RequestOK(req[r]) BY DEF RequestTypes
  <1>2. RequestOK(req'[r]) BY <1>1 DEF Begins, RequestOK, Pcs
  <1> QED BY <1>2 DEF RequestTypes, Begins

LEMMA RowIds ==
  ASSUME TableTypes, NEW d \in DOMAIN domains
  PROVE  d \in Ids /\ d[1] \in Users /\ domains[d].user = d[1] /\ domains[d].template \in Templates
         /\ domains[d].status \in Statuses
  BY DEF TableTypes, Rows, Ids, VolatileIds, PersistentIds

LEMMA VolatileTypes ==
  ASSUME Assumption, Types, NEW r \in Requests,
         LooksForOthers(r) \/ ChecksBoth(r) \/ LooksAtOwn(r) \/ Creates(r) \/ Opens(r)
  PROVE  Types'
  <1> DEFINE q == req[r]
  <1>1. TableTypes /\ EngineTypes /\ RequestTypes /\ RequestOK(q) BY DEF Types, RequestTypes
  <1>2. CASE LooksForOthers(r)
    <2>1. q.pc = "begin" /\ q.op = "volatile" /\ TableKept
          /\ (Refused(r) \/ GoesOn(r, "both") \/ GoesOn(r, "quota") \/ GoesOn(r, "look"))
      BY <1>1, <1>2, LooksForOthersDoes
    <2>2. RequestTypes' BY <1>1, <2>1, AnsweredTypes, GoesOnTypes DEF Pcs
    <2> QED BY <1>1, <2>1, <2>2, KeptTypes DEF Types
  <1>3. CASE ChecksBoth(r)
    <2>1. q.pc = "both" /\ TableKept /\ (Refused(r) \/ GoesOn(r, "look"))
      BY <1>1, <1>3, ChecksBothDoes
    <2>2. RequestTypes' BY <1>1, <2>1, AnsweredTypes, GoesOnTypes DEF Pcs
    <2> QED BY <1>1, <2>1, <2>2, KeptTypes DEF Types
  <1>4. CASE LooksAtOwn(r)
    <2> DEFINE own == VolatileOf(q.user, q.template)
    <2>1. q.pc = "look" /\ q.op = "volatile" /\ TableKept
          /\ \/ \E d \in own : Granted(r, d) \/ Waits(r, "write", d, q.todo, Goal("Starting", "Started", "ok"))
             \/ Waits(r, "next", q.id, ToDelete(q.user, q.template), q.goal)
      BY <1>1, <1>4, LooksAtOwnDoes
    <2>2. own \subseteq Ids /\ ToDelete(q.user, q.template) \in Seq(Ids \X Statuses) BY <1>1, OwnIs
    <2>3. q.todo \in Seq(Ids \X Statuses) /\ q.goal \in Goals \cup {NoGoal} /\ q.id \in Ids \cup {NoId} BY <1>1 DEF RequestOK
    <2>4. Goal("Starting", "Started", "ok") \in Goals /\ Goal("Starting", "Started", "ok").then = "ok"
          /\ Goal("Starting", "Started", "ok").to # "Any"
      BY DEF Goals, Goal
    <2> HIDE DEF own
    <2>5. CASE \E d \in own : Granted(r, d) BY <1>1, <2>1, <2>2, <2>5, AnsweredTypes, KeptTypes DEF Types
    <2>6. CASE \E d \in own : Waits(r, "write", d, q.todo, Goal("Starting", "Started", "ok"))
      <3>1. RequestTypes' BY <1>1, <2>1, <2>2, <2>3, <2>4, <2>6, WaitsTypes DEF Pcs
      <3> QED BY <1>1, <2>1, <3>1, KeptTypes DEF Types
    <2>7. CASE Waits(r, "next", q.id, ToDelete(q.user, q.template), q.goal)
      <3>1. RequestTypes' BY <1>1, <2>1, <2>2, <2>3, <2>7, WaitsTypes DEF Pcs
      <3> QED BY <1>1, <2>1, <3>1, KeptTypes DEF Types
    <2> QED BY <2>1, <2>5, <2>6, <2>7
  <1>5. CASE Creates(r)
    <2> DEFINE d == <<q.user, q.template, now>>
    <2>1. q.pc = "create" /\ UNCHANGED <<jobs, guests, now>>
          /\ \/ Refused(r) /\ TableKept
             \/ Insert(d, q.user, q.template, "CreatingAndStarting") /\ Waits(r, "open", d, q.todo, q.goal)
      BY <1>1, <1>5, CreatesDoes
    <2>2. q.op = "volatile" /\ q.user \in Users /\ q.template \in Templates
          /\ q.todo \in Seq(Ids \X Statuses) /\ q.goal \in Goals \cup {NoGoal}
      BY <1>1, <2>1 DEF RequestOK
    <2>3. d \in Ids /\ d[1] = q.user BY <1>1, <2>2 DEF Ids, VolatileIds, EngineTypes
    <2> HIDE DEF d
    <2>4. CASE Refused(r) /\ TableKept BY <1>1, <2>4, AnsweredTypes, KeptTypes DEF Types
    <2>5. CASE Insert(d, q.user, q.template, "CreatingAndStarting") /\ Waits(r, "open", d, q.todo, q.goal)
      <3>1. TableTypes' /\ EngineTypes' BY <1>1, <2>1, <2>2, <2>3, <2>5, InsertTypes DEF Statuses
      <3>2. RequestTypes' BY <1>1, <2>1, <2>2, <2>3, <2>5, WaitsTypes DEF Pcs
      <3> QED BY <3>1, <3>2 DEF Types
    <2> QED BY <2>1, <2>4, <2>5
  <1>6. CASE Opens(r)
    <2>1. q.pc = "open" /\ TableKept /\ Waits(r, "wait", q.id, q.todo, Goal("Any", "Started", "ok"))
      BY <1>1, <1>6, OpensDoes
    <2>2. q.id \in Ids /\ q.op = "volatile" /\ q.todo \in Seq(Ids \X Statuses) BY <1>1, <2>1 DEF RequestOK
    <2>3. Goal("Any", "Started", "ok") \in Goals /\ Goal("Any", "Started", "ok").then = "ok" BY DEF Goals, Goal
    <2>4. RequestTypes' BY <1>1, <2>1, <2>2, <2>3, WaitsTypes DEF Pcs
    <2> QED BY <1>1, <2>1, <2>4, KeptTypes DEF Types
  <1> QED BY <1>2, <1>3, <1>4, <1>5, <1>6

LEMMA WaitingTypes ==
  ASSUME Types, NEW r \in Requests, Writes(r) \/ TimesOut(r)
  PROVE  Types'
  <1> DEFINE q == req[r]
  <1>1. TableTypes /\ EngineTypes /\ RequestTypes /\ RequestOK(q) BY DEF Types, RequestTypes
  <1>2. CASE Writes(r)
    <2>1. q.pc = "write" /\ PutStatus(q.id, q.goal.to) /\ GoesOn(r, "wait") /\ UNCHANGED <<jobs, guests, now>>
      BY <1>1, <1>2, WritesDoes
    <2>2. q.id \in Ids /\ q.goal \in Goals /\ (q.goal.then # "ok" => q.op \in {"volatile", "delete"})
          /\ q.todo \in Seq(Ids \X Statuses)
      BY <1>1, <2>1 DEF RequestOK
    <2>3. q.goal.to \in Statuses BY <1>1, <2>1, <2>2 DEF RequestOK, Goals, Goal, Statuses
    <2>4. Waits(r, "wait", q.id, q.todo, q.goal) BY <2>1 DEF GoesOn, Waits
    <2>5. RequestTypes' BY <1>1, <2>1, <2>2, <2>4, WaitsTypes DEF Pcs
    <2>6. TableTypes' /\ EngineTypes' BY <1>1, <2>1, <2>2, <2>3, PutStatusTypes
    <2> QED BY <2>5, <2>6 DEF Types
  <1>3. CASE TimesOut(r)
    <2>1. TableKept /\ Refused(r) BY <1>1, <1>3, TimesOutDoes
    <2> QED BY <1>1, <2>1, AnsweredTypes, KeptTypes DEF Types
  <1> QED BY <1>2, <1>3

LEMMA DeletionTypes ==
  ASSUME Types, NEW r \in Requests, LooksToDelete(r) \/ DeletesNext(r) \/ AllDeleted(r)
  PROVE  Types'
  <1> DEFINE q == req[r]
  <1>1. TableTypes /\ EngineTypes /\ RequestTypes /\ RequestOK(q) BY DEF Types, RequestTypes
  <1>2. CASE LooksToDelete(r)
    <2>1. q.pc = "begin" /\ q.op = "delete" /\ TableKept
          /\ \/ Refused(r)
             \/ Exists(q.id) /\ Waits(r, "next", q.id, <<<<q.id, domains[q.id].status>>>>, q.goal)
      BY <1>1, <1>2, LooksToDeleteDoes
    <2>2. CASE Refused(r) BY <1>1, <2>1, <2>2, AnsweredTypes, KeptTypes DEF Types
    <2>3. CASE Exists(q.id) /\ Waits(r, "next", q.id, <<<<q.id, domains[q.id].status>>>>, q.goal)
      <3> DEFINE t == <<<<q.id, domains[q.id].status>>>>
      <3>1. q.id \in Ids /\ domains[q.id].status \in Statuses BY <1>1, <2>3, RowIds DEF Exists
      <3>2. t \in Seq(Ids \X Statuses) BY <3>1
      <3>3. Waits(r, "next", q.id, t, q.goal) BY <2>3
      <3> HIDE DEF t
      <3>4. q.goal \in Goals \cup {NoGoal} BY <1>1 DEF RequestOK
      <3>5. RequestTypes' BY <1>1, <2>1, <3>1, <3>2, <3>3, <3>4, WaitsTypes DEF Pcs
      <3> QED BY <1>1, <2>1, <3>5, KeptTypes DEF Types
    <2> QED BY <2>1, <2>2, <2>3
  <1>3. CASE DeletesNext(r)
    <2> DEFINE d == q.todo[1][1]  s == q.todo[1][2]  t == Tail(q.todo)
    <2>1. q.pc = "next" /\ q.todo # <<>> /\ UNCHANGED <<jobs, guests, now>>
          /\ \/ UNCHANGED <<domains, feed>> /\ Waits(r, "write", d, t, Goal("Stopping", "Stopped", "delete"))
             \/ Waits(r, "write", d, t, Goal("Deleting", "gone", "next"))
                /\ (UNCHANGED <<domains, feed>> \/ PutStatus(d, "Failed"))
      BY <1>1, <1>3, DeletesNextDoes
    <2>2. q.todo \in Seq(Ids \X Statuses) /\ q.op \in {"volatile", "delete"} BY <1>1, <2>1 DEF RequestOK
    <2>3. q.todo[1] \in Ids \X Statuses /\ t \in Seq(Ids \X Statuses) BY <2>1, <2>2
    <2>4. d \in Ids BY <2>3
    <2> HIDE DEF d, t
    <2>5. PICK g \in Goals : Waits(r, "write", d, t, g) /\ g.to # "Any"
      BY <2>1 DEF Goals, Goal
    <2>6. RequestTypes' BY <1>1, <2>1, <2>2, <2>3, <2>4, <2>5, WaitsTypes DEF Pcs
    <2>7. TableTypes' /\ EngineTypes'
      BY <1>1, <2>1, <2>4, PutStatusTypes, KeptTypes DEF TableKept, Statuses
    <2> QED BY <2>6, <2>7 DEF Types
  <1>4. CASE AllDeleted(r)
    <2>1. q.pc = "next" /\ TableKept
          /\ (Granted(r, q.id) \/ (q.op # "delete" /\ GoesOn(r, "create")))
      BY <1>1, <1>4, AllDeletedDoes
    <2>2. q.id \in Ids \cup {NoId} /\ q.op \in {"volatile", "delete"} BY <1>1, <2>1 DEF RequestOK
    <2>3. RequestTypes' BY <1>1, <2>1, <2>2, AnsweredTypes, GoesOnTypes DEF Pcs
    <2> QED BY <1>1, <2>1, <2>3, KeptTypes DEF Types
  <1> QED BY <1>2, <1>3, <1>4

LEMMA ActionTypes ==
  ASSUME Types, NEW r \in Requests,
         LooksUpToStart(r) \/ LooksUpToStop(r) \/ ChecksStartOfOwn(r) \/ ChecksStart(r) \/ LooksToStart(r) \/ LooksToStop(r)
  PROVE  Types'
  <1> DEFINE q == req[r]
  <1>1. TableTypes /\ EngineTypes /\ RequestTypes /\ RequestOK(q) BY DEF Types, RequestTypes
  <1>2. CASE LooksUpToStart(r) \/ LooksUpToStop(r)
    <2>1. q.pc = "begin" /\ TableKept /\ (Refused(r) \/ GoesOn(r, "quota") \/ GoesOn(r, "look"))
      BY <1>1, <1>2, LooksUpDoes
    <2>2. RequestTypes' BY <1>1, <2>1, AnsweredTypes, GoesOnTypes DEF Pcs
    <2> QED BY <1>1, <2>1, <2>2, KeptTypes DEF Types
  <1>3. CASE ChecksStartOfOwn(r) \/ ChecksStart(r)
    <2>1. q.pc = "quota" /\ TableKept /\ (Refused(r) \/ GoesOn(r, "look"))
      BY <1>1, <1>3, ChecksStartsDoes
    <2>2. RequestTypes' BY <1>1, <2>1, AnsweredTypes, GoesOnTypes DEF Pcs
    <2> QED BY <1>1, <2>1, <2>2, KeptTypes DEF Types
  <1>4. CASE LooksToStart(r) \/ LooksToStop(r)
    <2>1. q.pc = "look" /\ q.op \in {"start", "stop"} /\ TableKept
          /\ \/ Refused(r) \/ Granted(r, q.id)
             \/ \E g \in {Goal("Starting", "Started", "ok"), Goal("Stopping", "Stopped", "ok")} :
                  Waits(r, "write", q.id, q.todo, g)
      BY <1>1, <1>4, LooksToStartDoes, LooksToStopDoes
    <2>2. q.id \in Ids /\ q.todo \in Seq(Ids \X Statuses) BY <1>1, <2>1 DEF RequestOK
    <2>3. CASE Refused(r) \/ Granted(r, q.id) BY <1>1, <2>1, <2>2, <2>3, AnsweredTypes, KeptTypes DEF Types
    <2>4. ASSUME NEW g \in {Goal("Starting", "Started", "ok"), Goal("Stopping", "Stopped", "ok")},
                 Waits(r, "write", q.id, q.todo, g)
          PROVE  Types'
      <3>1. g \in Goals /\ g.then = "ok" /\ g.to # "Any" BY DEF Goals, Goal
      <3>2. RequestTypes' BY <1>1, <2>1, <2>2, <2>4, <3>1, WaitsTypes DEF Pcs
      <3> QED BY <1>1, <2>1, <3>2, KeptTypes DEF Types
    <2> QED BY <2>1, <2>3, <2>4
  <1> QED BY <1>2, <1>3, <1>4

LEMMA NamedTypes ==
  ASSUME Assumption, Types, NEW r \in Requests,
         ChecksNamed(r) \/ LooksForName(r) \/ InsertsNamed(r)
         \/ RefusesScratch(r) \/ LooksForScratch(r) \/ LacksHardware(r) \/ InsertsScratch(r)
  PROVE  Types'
  <1> DEFINE q == req[r]
  <1>1. TableTypes /\ EngineTypes /\ RequestTypes /\ RequestOK(q) BY DEF Types, RequestTypes
  <1>2. CASE ChecksNamed(r) \/ LooksForName(r)
    <2>1. q.pc \in {"begin", "look"} /\ TableKept /\ (Refused(r) \/ GoesOn(r, "look") \/ GoesOn(r, "both"))
      BY <1>1, <1>2, ChecksNamedDoes, LooksForNameDoes
    <2>2. RequestTypes' BY <1>1, <2>1, AnsweredTypes, GoesOnTypes DEF Pcs
    <2> QED BY <1>1, <2>1, <2>2, KeptTypes DEF Types
  <1>3. CASE RefusesScratch(r) \/ LooksForScratch(r) \/ LacksHardware(r)
    <2>1. q.pc \in {"begin", "both"} /\ TableKept /\ (Refused(r) \/ GoesOn(r, "both"))
      BY <1>1, <1>3, ScratchDoes
    <2>2. RequestTypes' BY <1>1, <2>1, AnsweredTypes, GoesOnTypes DEF Pcs
    <2> QED BY <1>1, <2>1, <2>2, KeptTypes DEF Types
  <1>4. CASE InsertsNamed(r) \/ InsertsScratch(r)
    <2>1. q.pc = "both" /\ q.op \in {"persistent", "scratch"} /\ UNCHANGED <<jobs, guests, now>>
          /\ (Refused(r) \/ Granted(r, q.id))
          /\ \/ UNCHANGED <<domains, feed>>
             \/ \E s \in {"Creating", "CreatingDomainFromDisk"} : Insert(q.id, q.user, q.template, s)
      BY <1>1, <1>4, InsertsNamedDoes, InsertsScratchDoes DEF TableKept
    <2>2. q.id \in Ids /\ q.user = q.id[1] /\ q.user \in Users /\ q.template \in Templates BY <1>1, <2>1 DEF RequestOK
    <2>3. RequestTypes' BY <1>1, <2>1, <2>2, AnsweredTypes
    <2>4. TableTypes' /\ EngineTypes'
      <3>1. CASE UNCHANGED <<domains, feed>> BY <1>1, <2>1, <3>1, KeptTypes DEF TableKept
      <3>2. CASE \E s \in {"Creating", "CreatingDomainFromDisk"} : Insert(q.id, q.user, q.template, s)
        BY <1>1, <2>1, <2>2, <3>2, InsertTypes DEF Statuses
      <3> QED BY <2>1, <3>1, <3>2
    <2> QED BY <2>3, <2>4 DEF Types
  <1> QED BY <1>2, <1>3, <1>4

LEMMA EndsTypes ==
  ASSUME Types, NEW d \in Ids, NEW job, NEW s \in Statuses, NEW more \in SUBSET Jobs, Ends(d, job, s, more),
         guests' \subseteq Ids
  PROVE  Types'
  <1>1. TableTypes /\ EngineTypes /\ RequestTypes BY DEF Types
  <1>2. TableTypes' BY <1>1, WithStatusTypes DEF Ends
  <1>3. EngineTypes' BY <1>1 DEF Ends, EngineTypes
  <1>4. RequestTypes'
    <2>1. req' = Told(req, d, s) \/ req' = req BY DEF Ends
    <2> QED BY <1>1, <2>1, ToldTypes DEF RequestTypes
  <1> QED BY <1>2, <1>3, <1>4 DEF Types

LEMMA JobForTypes ==
  ASSUME NEW old, NEW new PROVE JobFor(old, new) \in SUBSET Jobs
  BY DEF JobFor, Jobs

LEMMA WorkTypes ==
  ASSUME Types, Engine
  PROVE  Types'
  <1> PICK d \in Ids : EngineReads(d) \/ EngineCreated(d) \/ EngineStartsCreated(d) \/ EngineStarted(d)
                        \/ EngineStopped(d) \/ EngineFailed(d) \/ EngineDeleted(d) \/ GuestEnds(d)
    BY DEF Engine
  <1>1. TableTypes /\ EngineTypes /\ RequestTypes /\ guests \subseteq Ids BY DEF Types, EngineTypes
  <1>2. CASE EngineReads(d)
    <2>1. JobFor(feed[d][1][1], feed[d][1][2]) \in SUBSET Jobs BY JobForTypes
    <2>2. feed[d] \in Seq((Statuses \cup {"none"}) \X Statuses) /\ feed[d] # <<>> BY <1>1, <1>2 DEF EngineReads, EngineTypes
    <2>3. Tail(feed[d]) \in Seq((Statuses \cup {"none"}) \X Statuses) BY <2>2
    <2>4. EngineTypes' BY <1>1, <1>2, <2>1, <2>3 DEF EngineReads, EngineTypes
    <2>5. TableTypes' /\ RequestTypes' BY <1>1, <1>2 DEF EngineReads, TableTypes, RequestTypes
    <2> QED BY <2>4, <2>5 DEF Types
  <1>3. CASE EngineCreated(d) BY <1>1, <1>3, EndsTypes DEF EngineCreated, Statuses
  <1>4. CASE EngineStartsCreated(d)
    <2>1. {"start"} \in SUBSET Jobs BY DEF Jobs
    <2> QED BY <1>1, <1>4, <2>1, EndsTypes DEF EngineStartsCreated, Statuses
  <1>5. CASE EngineStarted(d) BY <1>1, <1>5, EndsTypes DEF EngineStarted, Statuses
  <1>6. CASE EngineStopped(d) BY <1>1, <1>6, EndsTypes DEF EngineStopped, Statuses
  <1>7. CASE EngineFailed(d) BY <1>1, <1>7, EndsTypes DEF EngineFailed, Statuses
  <1>8. CASE EngineDeleted(d)
    <2>1. domains' = [e \in DOMAIN domains \ {d} |-> domains[e]] BY <1>8 DEF EngineDeleted
    <2>2. IsFiniteSet(DOMAIN domains') BY <1>1, <2>1, FS_RemoveElement DEF TableTypes
    <2>3. TableTypes' BY <1>1, <2>1, <2>2 DEF TableTypes
    <2>4. EngineTypes' BY <1>1, <1>8 DEF EngineDeleted, EngineTypes
    <2>5. RequestTypes' BY <1>1, <1>8, ToldTypes DEF EngineDeleted
    <2> QED BY <2>3, <2>4, <2>5 DEF Types
  <1>9. CASE GuestEnds(d)
    <2>1. TableTypes' BY <1>1, <1>9, WithStatusTypes DEF GuestEnds, Statuses
    <2>2. EngineTypes' BY <1>1, <1>9 DEF GuestEnds, EngineTypes
    <2>3. req' = Told(req, d, "Stopped") \/ req' = req BY <1>9 DEF GuestEnds
    <2>4. RequestTypes' BY <1>1, <2>3, ToldTypes DEF RequestTypes
    <2> QED BY <2>1, <2>2, <2>4 DEF Types
  <1> QED BY <1>2, <1>3, <1>4, <1>5, <1>6, <1>7, <1>8, <1>9

LEMMA TypesStep == Assumption /\ Types /\ [Next]_vars => Types'
  <1> SUFFICES ASSUME Assumption, Types, [Next]_vars PROVE Types' OBVIOUS
  <1>1. TableTypes /\ EngineTypes /\ RequestTypes BY DEF Types
  <1>2. CASE Api
    <2> PICK r \in Requests :
        \/ AsksVolatile(r) \/ AsksNamed(r) \/ AsksScratch(r) \/ AsksAction(r)
        \/ LooksForOthers(r) \/ ChecksBoth(r) \/ LooksAtOwn(r) \/ Creates(r) \/ Opens(r)
        \/ Writes(r) \/ TimesOut(r) \/ LooksToDelete(r) \/ DeletesNext(r) \/ AllDeleted(r)
        \/ LooksUpToStart(r) \/ LooksUpToStop(r) \/ ChecksStartOfOwn(r) \/ ChecksStart(r) \/ LooksToStart(r) \/ LooksToStop(r)
        \/ ChecksNamed(r) \/ LooksForName(r) \/ InsertsNamed(r)
        \/ RefusesScratch(r) \/ LooksForScratch(r) \/ LacksHardware(r) \/ InsertsScratch(r)
      BY <1>2 DEF Api
    <2>1. CASE AsksVolatile(r) \/ AsksNamed(r) \/ AsksScratch(r) \/ AsksAction(r)
      <3>1. Begins(r) /\ TableKept BY <1>1, <2>1, AsksBegins
      <3> QED BY <1>1, <3>1, BeginsTypes, KeptTypes DEF Types
    <2> QED BY <2>1, VolatileTypes, WaitingTypes, DeletionTypes, ActionTypes, NamedTypes
  <1>3. CASE Engine BY <1>3, WorkTypes
  <1>4. CASE ClockTicks
    <2>1. EngineTypes' BY <1>1, <1>4 DEF ClockTicks, EngineTypes, Assumption
    <2> QED BY <1>1, <1>4, <2>1 DEF ClockTicks, Types, TableTypes, RequestTypes
  <1>5. CASE UNCHANGED vars BY <1>1, <1>5 DEF vars, Types, TableTypes, EngineTypes, RequestTypes
  <1> QED BY <1>2, <1>3, <1>4, <1>5 DEF Next

(***************************************************************************)
(* Whatever is requested, however many requests are served at once, and    *)
(* however slow or broken the engine is, the tables are well typed, and a  *)
(* request has, at each of its steps, what that step uses.                 *)
(***************************************************************************)
THEOREM RequestsTyped == Assumption => (Spec => []TypeOK)
  <1> SUFFICES ASSUME Assumption PROVE Spec => []TypeOK OBVIOUS
  <1>1. Types => TypeOK
    BY DEF Types, TableTypes, EngineTypes, RequestTypes, RequestOK, TypeOK, Pcs, Goals, Jobs, Goal, NoGoal
  <1> QED BY <1>1, TypesInit, TypesStep, PTL DEF Spec

----------------------------------------------------------------------------
(* One request at a time: one volatile desktop of a template, and no more  *)
(* desktops than the quota.  A request that is about to make a volatile    *)
(* desktop waits for the deletion of all that it found of the template; a  *)
(* quota that was checked leaves room for the desktop that is inserted     *)
(* later, because all that others do meanwhile is delete.                  *)

OneAtATime == Clients <= 1
NoScratch == "scratch" \notin Ops

Busy(r) == req[r].pc \notin {"idle", "answered"}
OneBusy == \A r, q \in Requests : Busy(r) /\ Busy(q) => r = q

Listed(t) == {t[k][1] : k \in 1 .. Len(t)}
Replaces(q) ==
    /\ q.op = "volatile"
    /\ q.pc \in {"next", "create"} \/ (q.pc \in {"write", "wait"} /\ q.goal.then # "ok")
ToGo(q) == IF q.pc = "create" THEN {}
           ELSE IF q.pc = "next" THEN Listed(q.todo) ELSE Listed(q.todo) \cup {q.id}
OwnGoes(r) == Replaces(req[r]) => VolatileOf(req[r].user, req[r].template) \subseteq ToGo(req[r])
OneOwn == \A u, t : \A d, e \in VolatileOf(u, t) : d = e

Mine(u) == {d \in DOMAIN domains : d[1] = u}
Limited(u) == UserQuota[u] # NoLimit
QuotaKept == \A u \in Users : Limited(u) => Cardinality(Mine(u)) <= UserQuota[u].d
HasRoom(r) ==
    LET q == req[r]
    IN Limited(q.user) =>
       /\ q.op = "persistent" /\ q.pc \in {"look", "both"} => Cardinality(Mine(q.user)) < UserQuota[q.user].d
       /\ (q.op = "volatile" /\ q.pc \in {"quota", "look"}) \/ Replaces(q) =>
            Cardinality(Mine(q.user) \ VolatileOf(q.user, q.template)) < UserQuota[q.user].d

RequestInv ==
    /\ OneBusy /\ OneOwn /\ \A r \in Requests : OwnGoes(r)
    /\ NoScratch => QuotaKept /\ \A r \in Requests : HasRoom(r)

LEMMA QuotaIs ==
  ASSUME Assumption, NEW u \in Users, Limited(u)
  PROVE  UserQuota[u] \in [Resources -> Nat] /\ UserQuota[u].d \in Nat /\ UserQuota[u].r \in Nat
  <1>1. UserQuota \in [Users -> [Resources -> Nat] \cup {NoLimit}] BY DEF Assumption, QuotasAssumption
  <1>2. UserQuota[u] \in [Resources -> Nat] BY <1>1 DEF Limited
  <1> QED BY <1>2 DEF Resources

LEMMA MineIs ==
  ASSUME TableTypes, NEW u
  PROVE  /\ Desktops(domains, {u}) = Mine(u) /\ Tables.domains = domains
         /\ IsFiniteSet(Mine(u)) /\ Cardinality(Mine(u)) \in Nat
  <1>1. \A d \in DOMAIN domains : domains[d].kind = "desktop" /\ domains[d].user = d[1] BY DEF TableTypes, Rows
  <1>2. Desktops(domains, {u}) = Mine(u) BY <1>1 DEF Desktops, Owned, Mine
  <1>3. Mine(u) \subseteq DOMAIN domains BY DEF Mine
  <1>4. IsFiniteSet(Mine(u)) BY <1>3, FS_Subset DEF TableTypes
  <1> QED BY <1>2, <1>4, FS_CardinalityType DEF Tables

LEMMA FewerMine ==
  ASSUME TableTypes, NEW u, NEW S \in SUBSET Mine(u)
  PROVE  /\ Cardinality(S) \in Nat /\ Cardinality(S) <= Cardinality(Mine(u))
         /\ S # Mine(u) => Cardinality(S) < Cardinality(Mine(u))
  <1>1. IsFiniteSet(Mine(u)) /\ Cardinality(Mine(u)) \in Nat BY MineIs
  <1>2. IsFiniteSet(S) /\ Cardinality(S) <= Cardinality(Mine(u)) /\ (Cardinality(S) = Cardinality(Mine(u)) => S = Mine(u))
    BY <1>1, FS_Subset
  <1>3. Cardinality(S) \in Nat BY <1>2, FS_CardinalityType
  <1> QED BY <1>1, <1>2, <1>3

LEMMA ListedTail ==
  ASSUME NEW S, NEW t \in Seq(S), t # <<>>
  PROVE  Listed(t) \subseteq Listed(Tail(t)) \cup {t[1][1]}
  <1>1. SUFFICES ASSUME NEW k \in 1 .. Len(t), k # 1 PROVE t[k][1] \in Listed(Tail(t)) BY DEF Listed
  <1>2. k - 1 \in 1 .. Len(Tail(t)) /\ Tail(t)[k - 1] = t[k] BY <1>1
  <1> QED BY <1>2 DEF Listed

LEMMA ListedFirst ==
  ASSUME NEW S, NEW x \in S, NEW t \in Seq(S)
  PROVE  Listed(t) \cup {x[1]} \subseteq Listed(<<x>> \o t)
  <1> DEFINE n == <<x>> \o t
  <1>1. n \in Seq(S) /\ Len(n) = Len(t) + 1 /\ n[1] = x /\ \A k \in 1 .. Len(t) : n[k + 1] = t[k] OBVIOUS
  <1> HIDE DEF n
  <1>2. x[1] \in Listed(n)
    <2>1. 1 \in 1 .. Len(n) BY <1>1
    <2> QED BY <1>1, <2>1 DEF Listed
  <1>3. ASSUME NEW k \in 1 .. Len(t) PROVE t[k][1] \in Listed(n)
    <2>1. k + 1 \in 1 .. Len(n) /\ n[k + 1] = t[k] BY <1>1
    <2> QED BY <2>1 DEF Listed
  <1> QED BY <1>2, <1>3 DEF Listed, n

\* Nobody else is served while a request goes on, which therefore has only itself to look after.
LEMMA OneGoesOn ==
  ASSUME Types, Types', RequestInv, NEW r \in Requests, Busy(r), \A q \in Requests \ {r} : req'[q] = req[q]
  PROVE  OneBusy' /\ \A q \in Requests \ {r} : OwnGoes(q)' /\ HasRoom(q)'
  <1>1. \A q \in Requests \ {r} : ~ Busy(q) BY DEF RequestInv, OneBusy
  <1>2. \A q \in Requests \ {r} : req'[q].pc \in {"idle", "answered"} BY <1>1 DEF Busy
  <1>3. OneBusy' BY <1>2 DEF OneBusy, Busy
  <1> QED BY <1>2, <1>3 DEF OwnGoes, Replaces, HasRoom

LEMMA FewerOwn ==
  ASSUME \A d \in DOMAIN domains' \ DOMAIN domains : ~ IsVolatile(d)
  PROVE  /\ \A u, t : VolatileOf(u, t)' \subseteq VolatileOf(u, t)
         /\ OneOwn => OneOwn'
  BY DEF VolatileOf, OneOwn

LEMMA FewerRoom ==
  ASSUME TableTypes, TableTypes', DOMAIN domains' \subseteq DOMAIN domains, NEW u, NEW t
  PROVE  /\ Cardinality(Mine(u))' \in Nat /\ Cardinality(Mine(u))' <= Cardinality(Mine(u))
         /\ Cardinality(Mine(u) \ VolatileOf(u, t))' \in Nat
         /\ Cardinality(Mine(u) \ VolatileOf(u, t))' <= Cardinality(Mine(u) \ VolatileOf(u, t))
         /\ Cardinality(Mine(u)) \in Nat /\ Cardinality(Mine(u) \ VolatileOf(u, t)) \in Nat
  <1>1. Mine(u)' \subseteq Mine(u) BY DEF Mine
  <1>2. (Mine(u) \ VolatileOf(u, t))' \subseteq Mine(u) \ VolatileOf(u, t) BY DEF Mine, VolatileOf
  <1>3. IsFiniteSet(Mine(u)) /\ Cardinality(Mine(u)) \in Nat BY MineIs
  <1>4. Cardinality(Mine(u)') \in Nat /\ Cardinality(Mine(u)') <= Cardinality(Mine(u))
    BY <1>1, <1>3, FS_Subset, FS_CardinalityType
  <1> DEFINE rest == Mine(u) \ VolatileOf(u, t)
  <1>5. IsFiniteSet(rest) /\ Cardinality(rest) \in Nat BY <1>3, FS_Subset, FS_CardinalityType
  <1>6. Cardinality(rest') \in Nat /\ Cardinality(rest') <= Cardinality(rest)
    <2>1. rest' \in SUBSET rest BY <1>2
    <2> HIDE DEF rest
    <2> QED BY <1>5, <2>1, FS_Subset, FS_CardinalityType
  <1> QED BY <1>3, <1>4, <1>5, <1>6

\* A step of a request that makes no desktop.
LEMMA NothingMade ==
  ASSUME Assumption, Types, Types', RequestInv, NEW r \in Requests, Busy(r),
         \A q \in Requests \ {r} : req'[q] = req[q],
         \A d \in DOMAIN domains' \ DOMAIN domains : ~ IsVolatile(d),
         NoScratch => DOMAIN domains' \subseteq DOMAIN domains,
         OwnGoes(r)', NoScratch => HasRoom(r)'
  PROVE  RequestInv'
  <1>1. OneBusy' /\ \A q \in Requests \ {r} : OwnGoes(q)' /\ HasRoom(q)' BY OneGoesOn
  <1>2. OneOwn' BY FewerOwn DEF RequestInv
  <1>3. \A q \in Requests : OwnGoes(q)' BY <1>1
  <1>4. NoScratch => \A q \in Requests : HasRoom(q)' BY <1>1
  <1>5. ASSUME NoScratch PROVE QuotaKept'
    <2>1. \A u \in Users : Cardinality(Mine(u)') \in Nat /\ Cardinality(Mine(u)') <= Cardinality(Mine(u))
                           /\ Cardinality(Mine(u)) \in Nat
      BY <1>5, FewerRoom DEF Types
    <2>2. \A u \in Users : Limited(u) => UserQuota[u].d \in Nat BY QuotaIs
    <2>3. \A u \in Users : Limited(u) => Cardinality(Mine(u)) <= UserQuota[u].d BY <1>5 DEF RequestInv, QuotaKept
    <2>4. \A u \in Users : Limited(u) => Cardinality(Mine(u)') <= UserQuota[u].d BY <2>1, <2>2, <2>3
    <2> QED BY <2>4 DEF QuotaKept, Limited
  <1> QED BY <1>1, <1>2, <1>3, <1>4, <1>5 DEF RequestInv, NoScratch

LEMMA InvInit == Assumption /\ Init => RequestInv
  <1> SUFFICES ASSUME Assumption, Init PROVE RequestInv OBVIOUS
  <1>1. DOMAIN domains = {} /\ \A r \in Requests : req[r] = Idle BY DEF Init
  <1>2. \A r \in Requests : ~ Busy(r) /\ OwnGoes(r) /\ HasRoom(r) BY <1>1 DEF Busy, OwnGoes, Replaces, HasRoom, Idle
  <1>3. OneOwn BY <1>1 DEF OneOwn, VolatileOf
  <1>4. \A u \in Users : Limited(u) => 0 <= UserQuota[u].d BY QuotaIs
  <1>5. \A u : Mine(u) = {} BY <1>1 DEF Mine
  <1>6. QuotaKept BY <1>4, <1>5, FS_EmptySet DEF QuotaKept
  <1> QED BY <1>2, <1>3, <1>6 DEF RequestInv, OneBusy

LEMMA NobodyBusy ==
  ASSUME Assumption, OneAtATime, RequestTypes, Cardinality(Active) < Clients
  PROVE  \A q \in Requests : ~ Busy(q)
  <1>1. Active \subseteq Requests BY DEF Active
  <1>2. IsFiniteSet(Active) BY <1>1, FS_Subset DEF Assumption
  <1>3. Cardinality(Active) = 0 BY <1>2, FS_CardinalityType DEF Assumption, OneAtATime
  <1>4. Active = {} BY <1>2, <1>3, FS_EmptySet
  <1> QED BY <1>4 DEF Active, Busy

LEMMA BeginsKeeps ==
  ASSUME Assumption, OneAtATime, Types, RequestInv, NEW r \in Requests, Begins(r), TableKept
  PROVE  RequestInv'
  <1>1. \A q \in Requests : ~ Busy(q) BY NobodyBusy DEF Begins, Types
  <1>2. \A q \in Requests \ {r} : req'[q] = req[q] BY DEF Begins
  <1>3. \A q \in Requests : Busy(q)' => q = r BY <1>1, <1>2 DEF Busy
  <1>4. req'[r].pc = "begin" BY DEF Begins
  <1>5. \A q \in Requests : req'[q].pc \in {"idle", "answered", "begin"} BY <1>1, <1>2, <1>4 DEF Busy
  <1>6. \A q \in Requests : OwnGoes(q)' /\ HasRoom(q)' BY <1>5 DEF OwnGoes, Replaces, HasRoom
  <1>7. OneBusy' BY <1>3 DEF OneBusy
  <1>8. OneOwn' BY DEF RequestInv, OneOwn, VolatileOf, TableKept
  <1>9. NoScratch => QuotaKept' BY DEF RequestInv, QuotaKept, Mine, TableKept
  <1> QED BY <1>6, <1>7, <1>8, <1>9 DEF RequestInv, NoScratch

\* A step of a request that leaves the table alone, or only writes a status.
LEMMA StepKeeps ==
  ASSUME Assumption, Types, Types', RequestInv, NEW r \in Requests, Busy(r), NEW p, NEW i, NEW t, NEW g, Moves(r, p, i, t, g),
         DOMAIN domains' = DOMAIN domains, OwnGoes(r)', NoScratch => HasRoom(r)'
  PROVE  RequestInv'
  <1>1. \A q \in Requests \ {r} : req'[q] = req[q] BY DEF Moves
  <1> QED BY <1>1, NothingMade

LEMMA AnswerKeeps ==
  ASSUME Assumption, Types, Types', RequestInv, NEW r \in Requests, Busy(r), NEW d, Refused(r) \/ Granted(r, d),
         DOMAIN domains' = DOMAIN domains
  PROVE  RequestInv'
  <1>1. PICK i : Moves(r, "answered", i, <<>>, NoGoal) BY DEF Refused, Granted
  <1>2. OwnGoes(r)' /\ HasRoom(r)' BY <1>1 DEF OwnGoes, Replaces, HasRoom, Moves
  <1> QED BY <1>1, <1>2, StepKeeps

\* Steps to a place where a request holds no room yet.
LEMMA EarlyKeeps ==
  ASSUME Assumption, Types, Types', RequestInv, NEW r \in Requests, Busy(r), NEW p, GoesOn(r, p),
         DOMAIN domains' = DOMAIN domains,
         \/ req[r].op \in {"start", "stop", "delete", "scratch"} /\ p \in {"quota", "look", "both"}
         \/ req[r].op = "volatile" /\ p = "both"
  PROVE  RequestInv'
  <1>1. Moves(r, p, req[r].id, req[r].todo, req[r].goal) BY DEF GoesOn
  <1>2. OwnGoes(r)' /\ HasRoom(r)' BY <1>1 DEF OwnGoes, Replaces, HasRoom, Moves
  <1> QED BY <1>1, <1>2, StepKeeps

LEMMA VolatileKeeps ==
  ASSUME Assumption, Types, Types', RequestInv, NEW r \in Requests,
         LooksForOthers(r) \/ ChecksBoth(r) \/ LooksAtOwn(r) \/ Opens(r)
  PROVE  RequestInv'
  <1> DEFINE q == req[r]  u == q.user  t == q.template  own == VolatileOf(u, t)
  <1>1. TableTypes /\ RequestTypes /\ RequestOK(q) BY DEF Types, RequestTypes
  <1>2. CASE LooksForOthers(r)
    <2>1. q.pc = "begin" /\ q.op = "volatile" /\ TableKept
          /\ \/ Refused(r)
             \/ GoesOn(r, "both")
             \/ own # {} /\ (GoesOn(r, "quota") \/ GoesOn(r, "look"))
      BY <1>1, <1>2, LooksForOthersDoes
    <2>2. Busy(r) /\ DOMAIN domains' = DOMAIN domains BY <2>1 DEF Busy, TableKept
    <2>3. CASE Refused(r) BY <2>2, <2>3, AnswerKeeps
    <2>4. CASE GoesOn(r, "both") BY <2>1, <2>2, <2>4, EarlyKeeps
    <2>5. CASE own # {} /\ (GoesOn(r, "quota") \/ GoesOn(r, "look"))
      <3>1. PICK p \in {"quota", "look"} : Moves(r, p, q.id, q.todo, q.goal) BY <2>5 DEF GoesOn
      <3>2. OwnGoes(r)' BY <3>1 DEF OwnGoes, Replaces, Moves
      <3>3. ASSUME NoScratch, Limited(u) PROVE Cardinality(Mine(u) \ own) < UserQuota[u].d
        <4>1. u \in Users BY <1>1, <2>1 DEF RequestOK
        <4>2. own \subseteq Mine(u) BY DEF VolatileOf, Mine
        <4>3. Mine(u) \ own # Mine(u) BY <2>5, <4>2
        <4>4. Cardinality(Mine(u) \ own) < Cardinality(Mine(u)) /\ Cardinality(Mine(u) \ own) \in Nat
          <5> DEFINE rest == Mine(u) \ own
          <5>1. rest \in SUBSET Mine(u) /\ rest # Mine(u) BY <4>3
          <5> HIDE DEF rest
          <5>2. Cardinality(rest) \in Nat /\ Cardinality(rest) < Cardinality(Mine(u)) BY <1>1, <5>1, FewerMine
          <5> QED BY <5>2 DEF rest
        <4>5. Cardinality(Mine(u)) <= UserQuota[u].d /\ UserQuota[u].d \in Nat
          BY <3>3, <4>1, QuotaIs DEF RequestInv, QuotaKept
        <4>6. Cardinality(Mine(u)) \in Nat BY <1>1, MineIs
        <4> QED BY <4>4, <4>5, <4>6
      <3>4. req'[r].op = "volatile" /\ req'[r].user = u /\ req'[r].template = t /\ UNCHANGED domains
        BY <2>1, <3>1 DEF Moves, TableKept
      <3>5. Mine(u)' = Mine(u) /\ VolatileOf(u, t)' = own BY <3>4 DEF Mine, VolatileOf
      <3>6. NoScratch => HasRoom(r)' BY <3>3, <3>4, <3>5 DEF HasRoom, Limited
      <3> QED BY <2>2, <3>1, <3>2, <3>6, StepKeeps
    <2> QED BY <2>1, <2>3, <2>4, <2>5
  <1>3. CASE ChecksBoth(r)
    <2>1. q.pc = "both" /\ q.op = "volatile" /\ TableKept
          /\ \/ Refused(r)
             \/ DesktopCreate(Tables, u) = Fine /\ GoesOn(r, "look")
      BY <1>1, <1>3, ChecksBothDoes
    <2>2. Busy(r) /\ DOMAIN domains' = DOMAIN domains BY <2>1 DEF Busy, TableKept
    <2>3. CASE Refused(r) BY <2>2, <2>3, AnswerKeeps
    <2>4. CASE DesktopCreate(Tables, u) = Fine /\ GoesOn(r, "look")
      <3>1. Moves(r, "look", q.id, q.todo, q.goal) BY <2>4 DEF GoesOn
      <3>2. OwnGoes(r)' BY <3>1 DEF OwnGoes, Replaces, Moves
      <3>3. ASSUME Limited(u) PROVE Cardinality(Mine(u) \ own) < UserQuota[u].d
        <4>1. u \in Users BY <1>1, <2>1 DEF RequestOK
        <4>2. Desktops(domains, {u}) = Mine(u) /\ Tables.domains = domains /\ Cardinality(Mine(u)) \in Nat BY <1>1, MineIs
        <4>3. UserQuota[u] \in [Resources -> Nat] /\ UserQuota[u] # NoLimit /\ UserQuota[u].d \in Nat
          BY <3>3, <4>1, QuotaIs DEF Limited
        <4>4. Cardinality(Desktops(Tables.domains, {u})) < UserQuota[u].d
          BY <2>4, <4>1, <4>2, <4>3, CreateBelow
        <4>5. Cardinality(Mine(u) \ own) \in Nat /\ Cardinality(Mine(u) \ own) <= Cardinality(Mine(u))
          <5> DEFINE rest == Mine(u) \ own
          <5>1. rest \in SUBSET Mine(u) OBVIOUS
          <5> HIDE DEF rest
          <5>2. Cardinality(rest) \in Nat /\ Cardinality(rest) <= Cardinality(Mine(u)) BY <1>1, <5>1, FewerMine
          <5> QED BY <5>2 DEF rest
        <4> QED BY <4>2, <4>3, <4>4, <4>5
      <3>4. req'[r].op = "volatile" /\ req'[r].user = u /\ req'[r].template = t /\ UNCHANGED domains
        BY <2>1, <3>1 DEF Moves, TableKept
      <3>5. Mine(u)' = Mine(u) /\ VolatileOf(u, t)' = own BY <3>4 DEF Mine, VolatileOf
      <3>6. HasRoom(r)' BY <3>3, <3>4, <3>5 DEF HasRoom, Limited
      <3> QED BY <2>2, <3>1, <3>2, <3>6, StepKeeps
    <2> QED BY <2>1, <2>3, <2>4
  <1>4. CASE LooksAtOwn(r)
    <2> DEFINE todo == ToDelete(u, t)
    <2>1. q.pc = "look" /\ q.op = "volatile" /\ TableKept
          /\ \/ \E d \in own : Granted(r, d)
             \/ \E d \in own : Waits(r, "write", d, q.todo, Goal("Starting", "Started", "ok"))
             \/ Waits(r, "next", q.id, todo, q.goal)
      BY <1>1, <1>4, LooksAtOwnDoes
    <2>2. Busy(r) /\ DOMAIN domains' = DOMAIN domains BY <2>1 DEF Busy, TableKept
    <2>3. CASE \E d \in own : Granted(r, d) BY <2>2, <2>3, AnswerKeeps
    <2>4. CASE \E d \in own : Waits(r, "write", d, q.todo, Goal("Starting", "Started", "ok"))
      <3>1. PICK d \in own : Moves(r, "write", d, q.todo, Goal("Starting", "Started", "ok")) BY <2>4 DEF Waits
      <3>2. OwnGoes(r)' /\ HasRoom(r)' BY <2>1, <3>1 DEF OwnGoes, Replaces, HasRoom, Moves, Goal
      <3> QED BY <2>2, <3>1, <3>2, StepKeeps
    <2>5. CASE Waits(r, "next", q.id, todo, q.goal)
      <3>1. Moves(r, "next", q.id, todo, q.goal) BY <2>5 DEF Waits
      <3>2. own \subseteq Listed(todo)
        <4>1. SUFFICES ASSUME NEW d \in own PROVE d \in Listed(todo) OBVIOUS
        <4>2. own = {d} BY DEF RequestInv, OneOwn
        <4>3. Len(todo) = Cardinality(own) /\ \A k \in 1 .. Len(todo) : todo[k][1] \in own
          BY <1>1, OwnIs
        <4>4. Len(todo) = 1 BY <4>2, <4>3, FS_Singleton
        <4> HIDE DEF todo, own
        <4>5. 1 \in 1 .. Len(todo) /\ todo[1][1] = d BY <4>2, <4>3, <4>4
        <4> QED BY <4>5 DEF Listed
      <3> HIDE DEF todo
      <3>3. req'[r].op = "volatile" /\ req'[r].user = u /\ req'[r].template = t /\ req'[r].pc = "next"
            /\ req'[r].todo = todo /\ UNCHANGED domains
        BY <2>1, <3>1 DEF Moves, TableKept
      <3>4. Mine(u)' = Mine(u) /\ VolatileOf(u, t)' = own BY <3>3 DEF Mine, VolatileOf
      <3>5. OwnGoes(r)' BY <3>2, <3>3, <3>4 DEF OwnGoes, ToGo
      <3>6. NoScratch => HasRoom(r)'
        <4>1. NoScratch => HasRoom(r) BY DEF RequestInv
        <4>2. NoScratch /\ Limited(u) => Cardinality(Mine(u) \ own) < UserQuota[u].d BY <2>1, <4>1 DEF HasRoom
        <4> QED BY <3>3, <3>4, <4>2 DEF HasRoom, Limited
      <3> QED BY <2>2, <3>1, <3>5, <3>6, StepKeeps
    <2> QED BY <2>1, <2>3, <2>4, <2>5
  <1>5. CASE Opens(r)
    <2>1. q.pc = "open" /\ TableKept /\ Moves(r, "wait", q.id, q.todo, Goal("Any", "Started", "ok"))
      BY <1>1, <1>5, OpensDoes DEF Waits
    <2>2. q.op = "volatile" BY <1>1, <2>1 DEF RequestOK
    <2>3. OwnGoes(r)' /\ HasRoom(r)' BY <2>1, <2>2 DEF OwnGoes, Replaces, HasRoom, Moves, Goal
    <2> QED BY <2>1, <2>3, StepKeeps DEF Busy, TableKept
  <1> QED BY <1>2, <1>3, <1>4, <1>5

\* The insertion of a volatile desktop: no other of the template is left, and there is room for it.
LEMMA CreatesKeeps ==
  ASSUME Assumption, Types, Types', RequestInv, NEW r \in Requests, Creates(r)
  PROVE  RequestInv'
  <1> DEFINE q == req[r]  u == q.user  t == q.template  d == <<u, t, now>>  own == VolatileOf(u, t)
  <1>1. TableTypes /\ TableTypes' /\ RequestTypes /\ RequestOK(q) /\ now \in 1 .. Seconds
    BY DEF Types, RequestTypes, EngineTypes
  <1>2. q.pc = "create" /\ UNCHANGED <<jobs, guests, now>>
        /\ \/ Refused(r) /\ TableKept
           \/ Insert(d, u, t, "CreatingAndStarting") /\ Waits(r, "open", d, q.todo, q.goal) /\ ~ Exists(d)
    BY <1>1, CreatesDoes
  <1>3. q.op = "volatile" /\ u \in Users /\ t \in Templates BY <1>1, <1>2 DEF RequestOK
  <1>4. Busy(r) BY <1>2 DEF Busy
  <1>5. CASE Refused(r) /\ TableKept BY <1>4, <1>5, AnswerKeeps DEF TableKept
  <1>6. CASE Insert(d, u, t, "CreatingAndStarting") /\ Waits(r, "open", d, q.todo, q.goal) /\ ~ Exists(d)
    <2>1. Moves(r, "open", d, q.todo, q.goal) BY <1>6 DEF Waits
    <2>2. DOMAIN domains' = DOMAIN domains \cup {d} /\ d \notin DOMAIN domains BY <1>6 DEF Insert, Exists
    <2>3. own = {} BY <1>2, <1>3 DEF RequestInv, OwnGoes, Replaces, ToGo
    <2>4. OneBusy' /\ \A x \in Requests \ {r} : OwnGoes(x)' /\ HasRoom(x)'
      BY <1>4, <2>1, OneGoesOn DEF Moves
    <2>5. OwnGoes(r)' /\ HasRoom(r)' BY <1>3, <2>1 DEF OwnGoes, Replaces, HasRoom, Moves
    <2>6. OneOwn'
      <3>1. SUFFICES ASSUME NEW v, NEW w, NEW a \in VolatileOf(v, w)', NEW b \in VolatileOf(v, w)' PROVE a = b
        BY DEF OneOwn
      <3>2. a \in DOMAIN domains \cup {d} /\ b \in DOMAIN domains \cup {d} /\ IsVolatile(a) /\ IsVolatile(b)
            /\ a[1] = v /\ b[1] = v /\ a[2] = w /\ b[2] = w
        BY <2>2 DEF VolatileOf
      <3>3. CASE v = u /\ w = t
        <4>1. a \notin DOMAIN domains /\ b \notin DOMAIN domains BY <2>3, <3>2, <3>3 DEF VolatileOf
        <4> QED BY <3>2, <4>1
      <3>4. CASE ~ (v = u /\ w = t)
        <4>1. a # d /\ b # d BY <3>2, <3>4
        <4>2. a \in VolatileOf(v, w) /\ b \in VolatileOf(v, w) BY <3>2, <4>1 DEF VolatileOf
        <4> QED BY <4>2 DEF RequestInv, OneOwn
      <3> QED BY <3>3, <3>4
    <2>7. ASSUME NoScratch PROVE QuotaKept'
      <3>1. SUFFICES ASSUME NEW v \in Users, Limited(v) PROVE Cardinality(Mine(v)') <= UserQuota[v].d
        BY DEF QuotaKept, Limited
      <3>2. UserQuota[v].d \in Nat /\ IsFiniteSet(Mine(v)) /\ Cardinality(Mine(v)) \in Nat BY <1>1, <3>1, QuotaIs, MineIs
      <3>3. CASE v # u
        <4>1. Mine(v)' = Mine(v) BY <2>2, <3>3 DEF Mine
        <4> QED BY <2>7, <3>1, <4>1 DEF RequestInv, QuotaKept
      <3>4. CASE v = u
        <4>1. Mine(v)' = Mine(v) \cup {d} BY <2>2, <3>4 DEF Mine
        <4>2. Mine(v) \ own = Mine(v) BY <2>3
        <4>3. HasRoom(r) BY <2>7 DEF RequestInv
        <4>4. Cardinality(Mine(v) \ own) < UserQuota[v].d BY <1>2, <1>3, <3>1, <3>4, <4>3 DEF HasRoom, Replaces
        <4>5. Cardinality(Mine(v) \cup {d}) <= Cardinality(Mine(v)) + 1 /\ Cardinality(Mine(v) \cup {d}) \in Nat
          <5> DEFINE more == Mine(v) \cup {d}
          <5>1. IsFiniteSet(more) /\ Cardinality(more) = IF d \in Mine(v) THEN Cardinality(Mine(v)) ELSE Cardinality(Mine(v)) + 1
            BY <3>2, FS_AddElement
          <5> HIDE DEF more
          <5>2. Cardinality(more) \in Nat BY <5>1, FS_CardinalityType
          <5> QED BY <3>2, <5>1, <5>2 DEF more
        <4>6. Cardinality(Mine(v)) < UserQuota[v].d BY <4>2, <4>4
        <4>7. Cardinality(Mine(v) \cup {d}) <= UserQuota[v].d BY <3>2, <4>5, <4>6
        <4> QED BY <4>1, <4>7
      <3> QED BY <3>3, <3>4
    <2> QED BY <2>4, <2>5, <2>6, <2>7 DEF RequestInv, NoScratch
  <1> QED BY <1>2, <1>5, <1>6

\* A status is written, and a wait ends.
LEMMA WaitingKeeps ==
  ASSUME Assumption, Types, Types', RequestInv, NEW r \in Requests, Writes(r) \/ TimesOut(r)
  PROVE  RequestInv'
  <1> DEFINE q == req[r]  u == q.user  t == q.template
  <1>1. RequestTypes /\ TableTypes BY DEF Types
  <1>5. OwnGoes(r) BY DEF RequestInv
  <1>2. CASE Writes(r)
    <2>1. q.pc = "write" /\ PutStatus(q.id, q.goal.to) /\ Moves(r, "wait", q.id, q.todo, q.goal)
      BY <1>1, <1>2, WritesDoes DEF GoesOn
    <2>2. DOMAIN domains' = DOMAIN domains BY <2>1 DEF PutStatus, WithStatus
    <2>3. req'[r].op = q.op /\ req'[r].user = u /\ req'[r].template = t /\ req'[r].pc = "wait"
          /\ req'[r].id = q.id /\ req'[r].todo = q.todo /\ req'[r].goal = q.goal
      BY <2>1 DEF Moves
    <2>4. Replaces(req'[r]) => Replaces(q) /\ ToGo(req'[r]) = ToGo(q) BY <2>1, <2>3 DEF Replaces, ToGo
    <2>5. Mine(u)' = Mine(u) /\ VolatileOf(u, t)' = VolatileOf(u, t) BY <2>2, <2>3 DEF Mine, VolatileOf
    <2>6. OwnGoes(r)' BY <2>3, <2>4, <2>5, <1>5 DEF OwnGoes
    <2>7. NoScratch => HasRoom(r)'
      <3>1. NoScratch => HasRoom(r) BY DEF RequestInv
      <3> QED BY <2>3, <2>4, <2>5, <3>1 DEF HasRoom, Limited
    <2> QED BY <2>1, <2>2, <2>6, <2>7, StepKeeps DEF Busy
  <1>3. CASE TimesOut(r)
    <2>1. q.pc = "wait" /\ TableKept /\ Refused(r) BY <1>1, <1>3, TimesOutDoes
    <2> QED BY <2>1, AnswerKeeps DEF TableKept, Busy
  <1> QED BY <1>2, <1>3

LEMMA DeletionKeeps ==
  ASSUME Assumption, Types, Types', RequestInv, NEW r \in Requests, LooksToDelete(r) \/ DeletesNext(r) \/ AllDeleted(r)
  PROVE  RequestInv'
  <1> DEFINE q == req[r]  u == q.user  t == q.template
  <1>1. RequestTypes /\ TableTypes /\ RequestOK(q) BY DEF Types, RequestTypes
  <1>5. OwnGoes(r) BY DEF RequestInv
  <1>2. CASE LooksToDelete(r)
    <2>1. q.pc = "begin" /\ q.op = "delete" /\ TableKept
          /\ (Refused(r) \/ Moves(r, "next", q.id, <<<<q.id, domains[q.id].status>>>>, q.goal))
      BY <1>1, <1>2, LooksToDeleteDoes DEF Waits
    <2>2. Busy(r) /\ DOMAIN domains' = DOMAIN domains BY <2>1 DEF Busy, TableKept
    <2>3. CASE Refused(r) BY <2>2, <2>3, AnswerKeeps
    <2>4. CASE Moves(r, "next", q.id, <<<<q.id, domains[q.id].status>>>>, q.goal)
      <3>1. OwnGoes(r)' /\ HasRoom(r)' BY <2>1, <2>4 DEF OwnGoes, Replaces, HasRoom, Moves
      <3> QED BY <2>2, <2>4, <3>1, StepKeeps
    <2> QED BY <2>1, <2>3, <2>4
  <1>3. CASE DeletesNext(r)
    <2> DEFINE d == q.todo[1][1]
    <2>1. q.pc = "next" /\ q.todo # <<>> /\ DOMAIN domains' = DOMAIN domains
          /\ \E g \in Goals : Moves(r, "write", d, Tail(q.todo), g) /\ g.then # "ok"
      BY <1>1, <1>3, DeletesNextDoes DEF Waits, PutStatus, WithStatus, Goals, Goal
    <2>2. PICK g \in Goals : Moves(r, "write", d, Tail(q.todo), g) /\ g.then # "ok" BY <2>1
    <2>3. q.op \in {"volatile", "delete"} /\ q.todo \in Seq(Ids \X Statuses) BY <1>1, <2>1 DEF RequestOK
    <2>4. Listed(q.todo) \subseteq Listed(Tail(q.todo)) \cup {d} BY <2>1, <2>3, ListedTail
    <2>5. req'[r].op = q.op /\ req'[r].user = u /\ req'[r].template = t /\ req'[r].pc = "write"
          /\ req'[r].id = d /\ req'[r].todo = Tail(q.todo) /\ req'[r].goal = g
      BY <2>2 DEF Moves
    <2> HIDE DEF d
    <2>6. Replaces(req'[r]) => Replaces(q) /\ ToGo(q) \subseteq ToGo(req'[r]) BY <2>1, <2>4, <2>5 DEF Replaces, ToGo
    <2>7. Mine(u)' = Mine(u) /\ VolatileOf(u, t)' = VolatileOf(u, t) BY <2>1, <2>5 DEF Mine, VolatileOf
    <2>8. OwnGoes(r)' BY <2>5, <2>6, <2>7, <1>5 DEF OwnGoes
    <2>9. NoScratch => HasRoom(r)'
      <3>1. NoScratch => HasRoom(r) BY DEF RequestInv
      <3> QED BY <2>5, <2>6, <2>7, <3>1 DEF HasRoom, Limited
    <2> QED BY <2>1, <2>2, <2>8, <2>9, StepKeeps DEF Busy
  <1>4. CASE AllDeleted(r)
    <2>1. q.pc = "next" /\ q.todo = <<>> /\ TableKept
          /\ (Granted(r, q.id) \/ (q.op # "delete" /\ Moves(r, "create", q.id, q.todo, q.goal)))
      BY <1>1, <1>4, AllDeletedDoes DEF GoesOn
    <2>2. Busy(r) /\ DOMAIN domains' = DOMAIN domains BY <2>1 DEF Busy, TableKept
    <2>3. CASE Granted(r, q.id) BY <2>2, <2>3, AnswerKeeps
    <2>4. CASE q.op # "delete" /\ Moves(r, "create", q.id, q.todo, q.goal)
      <3>1. q.op = "volatile" BY <1>1, <2>1, <2>4 DEF RequestOK
      <3>2. req'[r].op = q.op /\ req'[r].user = u /\ req'[r].template = t /\ req'[r].pc = "create" BY <2>4 DEF Moves
      <3>3. Replaces(q) /\ ToGo(q) = {} BY <2>1, <3>1 DEF Replaces, ToGo, Listed
      <3>4. Mine(u)' = Mine(u) /\ VolatileOf(u, t)' = VolatileOf(u, t) BY <2>2, <3>2 DEF Mine, VolatileOf
      <3>5. OwnGoes(r)' BY <3>2, <3>3, <3>4, <1>5 DEF OwnGoes, ToGo
      <3>6. NoScratch => HasRoom(r)'
        <4>1. NoScratch => HasRoom(r) BY DEF RequestInv
        <4> QED BY <3>2, <3>3, <3>4, <4>1 DEF HasRoom, Limited
      <3> QED BY <2>2, <2>4, <3>5, <3>6, StepKeeps
    <2> QED BY <2>1, <2>3, <2>4
  <1> QED BY <1>2, <1>3, <1>4

LEMMA ActionKeeps ==
  ASSUME Assumption, Types, Types', RequestInv, NEW r \in Requests,
         LooksUpToStart(r) \/ LooksUpToStop(r) \/ ChecksStartOfOwn(r) \/ ChecksStart(r) \/ LooksToStart(r) \/ LooksToStop(r)
  PROVE  RequestInv'
  <1> DEFINE q == req[r]  u == q.user  t == q.template
  <1>1. RequestTypes /\ TableTypes /\ RequestOK(q) BY DEF Types, RequestTypes
  <1>2. CASE LooksUpToStart(r) \/ LooksUpToStop(r)
    <2>1. q.pc = "begin" /\ TableKept
          /\ (Refused(r) \/ (q.op \in {"start", "stop"} /\ (GoesOn(r, "quota") \/ GoesOn(r, "look"))))
      BY <1>1, <1>2, LooksUpDoes
    <2> QED BY <2>1, AnswerKeeps, EarlyKeeps DEF Busy, TableKept
  <1>3. CASE ChecksStartOfOwn(r) \/ ChecksStart(r)
    <2>1. q.pc = "quota" /\ q.op \in {"volatile", "start"} /\ TableKept /\ (Refused(r) \/ GoesOn(r, "look"))
      BY <1>1, <1>3, ChecksStartsDoes
    <2>2. Busy(r) /\ DOMAIN domains' = DOMAIN domains BY <2>1 DEF Busy, TableKept
    <2>3. CASE Refused(r) BY <2>2, <2>3, AnswerKeeps
    <2>4. CASE GoesOn(r, "look")
      <3>1. Moves(r, "look", q.id, q.todo, q.goal) BY <2>4 DEF GoesOn
      <3>2. req'[r].op = q.op /\ req'[r].user = u /\ req'[r].template = t /\ req'[r].pc = "look" BY <3>1 DEF Moves
      <3>3. OwnGoes(r)' BY <3>2 DEF OwnGoes, Replaces
      <3>4. Mine(u)' = Mine(u) /\ VolatileOf(u, t)' = VolatileOf(u, t) BY <2>2, <3>2 DEF Mine, VolatileOf
      <3>5. NoScratch => HasRoom(r)'
        <4>1. NoScratch => HasRoom(r) BY DEF RequestInv
        <4> QED BY <2>1, <3>2, <3>4, <4>1 DEF HasRoom, Limited, Replaces
      <3> QED BY <2>2, <3>1, <3>3, <3>5, StepKeeps
    <2> QED BY <2>1, <2>3, <2>4
  <1>4. CASE LooksToStart(r) \/ LooksToStop(r)
    <2>1. q.pc = "look" /\ q.op \in {"start", "stop"} /\ TableKept
          /\ \/ Refused(r) \/ Granted(r, q.id)
             \/ \E g : Moves(r, "write", q.id, q.todo, g)
      BY <1>1, <1>4, LooksToStartDoes, LooksToStopDoes DEF Waits
    <2>2. Busy(r) /\ DOMAIN domains' = DOMAIN domains BY <2>1 DEF Busy, TableKept
    <2>3. CASE Refused(r) \/ Granted(r, q.id) BY <2>2, <2>3, AnswerKeeps
    <2>4. ASSUME NEW g, Moves(r, "write", q.id, q.todo, g) PROVE RequestInv'
      <3>1. OwnGoes(r)' /\ HasRoom(r)' BY <2>1, <2>4 DEF OwnGoes, Replaces, HasRoom, Moves
      <3> QED BY <2>2, <2>4, <3>1, StepKeeps
    <2> QED BY <2>1, <2>3, <2>4
  <1> QED BY <1>2, <1>3, <1>4

LEMMA NamedKeeps ==
  ASSUME Assumption, Types, Types', RequestInv, NEW r \in Requests, ChecksNamed(r) \/ LooksForName(r) \/ InsertsNamed(r)
  PROVE  RequestInv'
  <1> DEFINE q == req[r]  u == q.user
  <1>1. RequestTypes /\ TableTypes /\ TableTypes' /\ RequestOK(q) BY DEF Types, RequestTypes
  <1>2. CASE ChecksNamed(r)
    <2>1. q.pc = "begin" /\ q.op = "persistent" /\ TableKept
          /\ (Refused(r) \/ (DesktopCreate(Tables, u) = Fine /\ Moves(r, "look", q.id, q.todo, q.goal)))
      BY <1>1, <1>2, ChecksNamedDoes DEF GoesOn
    <2>2. Busy(r) /\ DOMAIN domains' = DOMAIN domains BY <2>1 DEF Busy, TableKept
    <2>3. CASE Refused(r) BY <2>2, <2>3, AnswerKeeps
    <2>4. CASE DesktopCreate(Tables, u) = Fine /\ Moves(r, "look", q.id, q.todo, q.goal)
      <3>1. req'[r].op = "persistent" /\ req'[r].user = u /\ req'[r].pc = "look" BY <2>1, <2>4 DEF Moves
      <3>2. OwnGoes(r)' BY <3>1 DEF OwnGoes, Replaces
      <3>3. ASSUME Limited(u) PROVE Cardinality(Mine(u)) < UserQuota[u].d
        <4>1. u \in Users BY <1>1, <2>1 DEF RequestOK
        <4>2. Desktops(domains, {u}) = Mine(u) /\ Tables.domains = domains /\ Cardinality(Mine(u)) \in Nat BY <1>1, MineIs
        <4>3. UserQuota[u] \in [Resources -> Nat] /\ UserQuota[u] # NoLimit
          BY <3>3, <4>1, QuotaIs DEF Limited
        <4>4. Cardinality(Desktops(Tables.domains, {u})) < UserQuota[u].d
          BY <2>4, <4>1, <4>2, <4>3, CreateBelow
        <4> QED BY <4>2, <4>4
      <3>4. Mine(u)' = Mine(u) BY <2>2, <3>1 DEF Mine
      <3>5. HasRoom(r)' BY <3>1, <3>3, <3>4 DEF HasRoom, Limited, Replaces
      <3> QED BY <2>2, <2>4, <3>2, <3>5, StepKeeps
    <2> QED BY <2>1, <2>3, <2>4
  <1>3. CASE LooksForName(r)
    <2>1. q.pc = "look" /\ q.op = "persistent" /\ TableKept
          /\ (Refused(r) \/ Moves(r, "both", q.id, q.todo, q.goal))
      BY <1>1, <1>3, LooksForNameDoes DEF GoesOn
    <2>2. Busy(r) /\ DOMAIN domains' = DOMAIN domains BY <2>1 DEF Busy, TableKept
    <2>3. CASE Refused(r) BY <2>2, <2>3, AnswerKeeps
    <2>4. CASE Moves(r, "both", q.id, q.todo, q.goal)
      <3>1. req'[r].op = "persistent" /\ req'[r].user = u /\ req'[r].pc = "both" BY <2>1, <2>4 DEF Moves
      <3>2. OwnGoes(r)' BY <3>1 DEF OwnGoes, Replaces
      <3>3. Mine(u)' = Mine(u) BY <2>2, <3>1 DEF Mine
      <3>4. NoScratch => HasRoom(r)'
        <4>1. NoScratch => HasRoom(r) BY DEF RequestInv
        <4> QED BY <2>1, <3>1, <3>3, <4>1 DEF HasRoom, Limited, Replaces
      <3> QED BY <2>2, <2>4, <3>2, <3>4, StepKeeps
    <2> QED BY <2>1, <2>3, <2>4
  <1>4. CASE InsertsNamed(r)
    <2> DEFINE d == q.id
    <2>1. q.pc = "both" /\ q.op = "persistent" /\ UNCHANGED <<jobs, guests, now>>
          /\ \/ Refused(r) /\ TableKept
             \/ Insert(d, u, q.template, "Creating") /\ Granted(r, d)
      BY <1>1, <1>4, InsertsNamedDoes
    <2>2. Busy(r) BY <2>1 DEF Busy
    <2>3. CASE Refused(r) /\ TableKept BY <2>2, <2>3, AnswerKeeps DEF TableKept
    <2>4. CASE Insert(d, u, q.template, "Creating") /\ Granted(r, d)
      <3>1. Moves(r, "answered", d, <<>>, NoGoal) BY <2>4 DEF Granted
      <3>2. d \in PersistentIds /\ d[1] = u BY <1>1, <2>1 DEF RequestOK
      <3>3. DOMAIN domains' = DOMAIN domains \cup {d} /\ ~ IsVolatile(d)
        BY <2>4, <3>2 DEF Insert, PersistentIds, IsVolatile
      <3>4. OneBusy' /\ \A x \in Requests \ {r} : OwnGoes(x)' /\ HasRoom(x)' BY <2>2, <3>1, OneGoesOn DEF Moves
      <3>5. OwnGoes(r)' /\ HasRoom(r)' BY <3>1 DEF OwnGoes, Replaces, HasRoom, Moves
      <3>6. OneOwn' BY <3>3, FewerOwn DEF RequestInv
      <3> HIDE DEF d
      <3>7. ASSUME NoScratch PROVE QuotaKept'
        <4>1. SUFFICES ASSUME NEW v \in Users, Limited(v) PROVE Cardinality(Mine(v)') <= UserQuota[v].d
          BY DEF QuotaKept, Limited
        <4>2. UserQuota[v].d \in Nat /\ IsFiniteSet(Mine(v)) /\ Cardinality(Mine(v)) \in Nat BY <1>1, <4>1, QuotaIs, MineIs
        <4>3. CASE v # u
          <5>1. Mine(v)' = Mine(v) BY <3>2, <3>3, <4>3 DEF Mine
          <5> QED BY <3>7, <4>1, <5>1 DEF RequestInv, QuotaKept
        <4>4. CASE v = u
          <5>1. Mine(v)' = Mine(v) \cup {d} BY <3>2, <3>3, <4>4 DEF Mine
          <5>2. HasRoom(r) BY <3>7 DEF RequestInv
          <5>3. Cardinality(Mine(v)) < UserQuota[v].d BY <2>1, <4>1, <4>4, <5>2 DEF HasRoom
          <5>4. Cardinality(Mine(v) \cup {d}) = IF d \in Mine(v) THEN Cardinality(Mine(v)) ELSE Cardinality(Mine(v)) + 1
            BY <4>2, FS_AddElement
          <5>5. Cardinality(Mine(v) \cup {d}) <= UserQuota[v].d BY <4>2, <5>3, <5>4
          <5> QED BY <5>1, <5>5
        <4> QED BY <4>3, <4>4
      <3> QED BY <3>4, <3>5, <3>6, <3>7 DEF RequestInv, NoScratch
    <2> QED BY <2>1, <2>3, <2>4
  <1> QED BY <1>2, <1>3, <1>4

LEMMA ScratchKeeps ==
  ASSUME Assumption, Types, Types', RequestInv, NEW r \in Requests,
         RefusesScratch(r) \/ LooksForScratch(r) \/ LacksHardware(r) \/ InsertsScratch(r)
  PROVE  RequestInv'
  <1> DEFINE q == req[r]
  <1>1. RequestTypes /\ TableTypes /\ RequestOK(q) BY DEF Types, RequestTypes
  <1>2. CASE RefusesScratch(r) \/ LooksForScratch(r) \/ LacksHardware(r)
    <2>1. q.op = "scratch" /\ q.pc \in {"begin", "both"} /\ TableKept /\ (Refused(r) \/ GoesOn(r, "both"))
      BY <1>1, <1>2, ScratchDoes
    <2> QED BY <2>1, AnswerKeeps, EarlyKeeps DEF Busy, TableKept
  <1>3. CASE InsertsScratch(r)
    <2> DEFINE d == q.id
    <2>1. q.pc = "both" /\ q.op = "scratch" /\ Moves(r, "answered", d, <<>>, NoGoal)
          /\ (domains' = domains \/ DOMAIN domains' = DOMAIN domains \cup {d})
      BY <1>1, <1>3, InsertsScratchDoes DEF Granted, Insert
    <2>2. d \in PersistentIds /\ ~ NoScratch BY <1>1, <2>1 DEF RequestOK, NoScratch
    <2>3. ~ IsVolatile(d) BY <2>2 DEF PersistentIds, IsVolatile
    <2>4. OwnGoes(r)' BY <2>1 DEF OwnGoes, Replaces, Moves
    <2>5. \A q2 \in Requests \ {r} : req'[q2] = req[q2] BY <2>1 DEF Moves
    <2>6. Busy(r) BY <2>1 DEF Busy
    <2> HIDE DEF d
    <2>7. \A e \in DOMAIN domains' \ DOMAIN domains : ~ IsVolatile(e) BY <2>1, <2>3
    <2> QED BY <2>2, <2>4, <2>5, <2>6, <2>7, NothingMade
  <1> QED BY <1>2, <1>3

\* What the engine does makes no desktop, and tells a request of the one it waits for.
LEMMA EngineKeeps ==
  ASSUME Assumption, Types, Types', RequestInv, NEW d \in Ids,
         DOMAIN domains' = DOMAIN domains \/ DOMAIN domains' = DOMAIN domains \ {d},
         NEW s \in Statuses \cup {"gone"}, req' = req \/ req' = Told(req, d, s),
         DOMAIN domains' # DOMAIN domains => s = "gone",
         s = "gone" => d \notin DOMAIN domains'
  PROVE  RequestInv'
  <1>1. RequestTypes /\ RequestTypes' /\ TableTypes /\ TableTypes' BY DEF Types
  <1>2. \A q \in Requests :
          \/ req'[q] = req[q]
          \/ /\ req[q].pc = "wait" /\ req[q].id = d /\ req[q].goal.final = s
             /\ req'[q].op = req[q].op /\ req'[q].user = req[q].user /\ req'[q].template = req[q].template
             /\ \/ req'[q].pc = "answered"
                \/ /\ req[q].goal.then # "ok" /\ req'[q].pc = "next"
                   /\ req'[q].todo = IF req[q].goal.then = "delete" THEN <<<<d, "Stopped">>>> \o req[q].todo
                                     ELSE req[q].todo
    BY <1>1, ToldDoes
  <1>3. \A q \in Requests : Busy(q)' => Busy(q) BY <1>2 DEF Busy
  <1>4. OneBusy' BY <1>3 DEF OneBusy, RequestInv
  <1>5. DOMAIN domains' \subseteq DOMAIN domains OBVIOUS
  <1>6. OneOwn' BY <1>5, FewerOwn DEF RequestInv
  <1>7. ASSUME NEW q \in Requests PROVE OwnGoes(q)'
    <2>1. OwnGoes(q) BY DEF RequestInv
    <2> PICK u, t : u = req[q].user /\ t = req[q].template OBVIOUS
    <2>2. req'[q].user = u /\ req'[q].template = t /\ req'[q].op = req[q].op BY <1>2
    <2>3. VolatileOf(u, t)' \subseteq VolatileOf(u, t) BY <1>5 DEF VolatileOf
    <2>7. OwnGoes(q)' <=> (Replaces(req'[q]) => VolatileOf(u, t)' \subseteq ToGo(req'[q]))
      BY <2>2 DEF OwnGoes, VolatileOf
    <2>4. CASE req'[q] = req[q]
      <3>1. Replaces(req'[q]) => Replaces(req[q]) /\ ToGo(req'[q]) = ToGo(req[q]) BY <2>4
      <3> QED BY <2>1, <2>3, <2>7, <3>1 DEF OwnGoes
    <2>5. CASE req'[q].pc = "answered" BY <2>5 DEF OwnGoes, Replaces
    <2>6. CASE /\ req[q].pc = "wait" /\ req[q].id = d /\ req[q].goal.final = s /\ req[q].goal.then # "ok"
               /\ req'[q].pc = "next"
               /\ req'[q].todo = IF req[q].goal.then = "delete" THEN <<<<d, "Stopped">>>> \o req[q].todo
                                 ELSE req[q].todo
      <3>1. Replaces(req'[q]) => Replaces(req[q]) BY <2>2, <2>6 DEF Replaces
      <3>2. ToGo(req[q]) = Listed(req[q].todo) \cup {d} /\ ToGo(req'[q]) = Listed(req'[q].todo) BY <2>6 DEF ToGo
      <3>3. RequestOK(req[q]) BY <1>1 DEF RequestTypes
      <3>4. CASE req[q].goal.then = "delete"
        <4>1. req'[q].todo = <<<<d, "Stopped">>>> \o req[q].todo BY <2>6, <3>4
        <4>2. req[q].todo \in Seq(Ids \X Statuses) /\ <<d, "Stopped">> \in Ids \X Statuses
          BY <3>3 DEF RequestOK, Statuses
        <4>3. Listed(req[q].todo) \cup {d} \subseteq Listed(req'[q].todo)
          <5> DEFINE x == <<d, "Stopped">>  todo == req[q].todo
          <5>1. x[1] = d OBVIOUS
          <5> HIDE DEF x, todo
          <5>2. Listed(todo) \cup {x[1]} \subseteq Listed(<<x>> \o todo) BY <4>2, ListedFirst DEF x, todo
          <5> QED BY <4>1, <5>1, <5>2 DEF x, todo
        <4> QED BY <2>1, <2>3, <2>7, <3>1, <3>2, <4>3 DEF OwnGoes
      <3>5. CASE req[q].goal.then # "delete"
        <4>1. req[q].goal = Goal("Deleting", "gone", "next") BY <2>6, <3>3, <3>5 DEF RequestOK, Goals, Goal
        <4>2. s = "gone" BY <2>6, <4>1 DEF Goal
        <4>3. d \notin VolatileOf(u, t)' BY <4>2 DEF VolatileOf
        <4>4. Listed(req'[q].todo) = Listed(req[q].todo) BY <2>6, <3>5
        <4> QED BY <2>1, <2>3, <2>7, <3>1, <3>2, <4>3, <4>4 DEF OwnGoes
      <3> QED BY <3>4, <3>5
    <2> QED BY <1>2, <2>4, <2>5, <2>6
  <1>8. ASSUME NoScratch PROVE QuotaKept' /\ \A q \in Requests : HasRoom(q)'
    <2>1. ASSUME NEW u, NEW t
          PROVE     /\ Cardinality(Mine(u)') \in Nat /\ Cardinality(Mine(u)') <= Cardinality(Mine(u))
                    /\ Cardinality((Mine(u) \ VolatileOf(u, t))') \in Nat
                    /\ Cardinality((Mine(u) \ VolatileOf(u, t))') <= Cardinality(Mine(u) \ VolatileOf(u, t))
                    /\ Cardinality(Mine(u)) \in Nat /\ Cardinality(Mine(u) \ VolatileOf(u, t)) \in Nat
      BY <1>1, <1>5, FewerRoom
    <2>2. QuotaKept'
      <3>1. \A u \in Users : Limited(u) => UserQuota[u].d \in Nat /\ Cardinality(Mine(u)) <= UserQuota[u].d
        BY <1>8, QuotaIs DEF RequestInv, QuotaKept
      <3>2. ASSUME NEW u \in Users, Limited(u) PROVE Cardinality(Mine(u)') <= UserQuota[u].d
        <4>1. Cardinality(Mine(u)') \in Nat /\ Cardinality(Mine(u)') <= Cardinality(Mine(u)) /\ Cardinality(Mine(u)) \in Nat
          BY <2>1
        <4> QED BY <3>1, <3>2, <4>1
      <3> QED BY <3>2 DEF QuotaKept, Limited
    <2>3. ASSUME NEW q \in Requests PROVE HasRoom(q)'
      <3> PICK u, t : u = req[q].user /\ t = req[q].template OBVIOUS
      <3>1. HasRoom(q) BY <1>8 DEF RequestInv
      <3>2. CASE req'[q].pc \in {"idle", "answered"} BY <3>2 DEF HasRoom, Replaces
      <3>3. CASE req'[q].pc \notin {"idle", "answered"} /\ Limited(u)
        <4>1. Busy(q) BY <1>3, <3>3 DEF Busy
        <4>2. u \in Users BY <1>1, <4>1 DEF RequestTypes, RequestOK, Busy
        <4>3. UserQuota[u].d \in Nat BY <3>3, <4>2, QuotaIs
        <4>4. req'[q].user = u /\ req'[q].template = t /\ req'[q].op = req[q].op BY <1>2
        <4>5. req'[q] = req[q] \/ (req'[q].pc = "next" /\ req[q].pc = "wait" /\ req[q].goal.then # "ok")
          BY <1>2, <3>3
        <4>6. Replaces(req'[q]) => Replaces(req[q]) BY <4>4, <4>5 DEF Replaces
        <4>7. /\ Cardinality(Mine(u)') \in Nat /\ Cardinality(Mine(u)') <= Cardinality(Mine(u))
              /\ Cardinality((Mine(u) \ VolatileOf(u, t))') \in Nat
              /\ Cardinality((Mine(u) \ VolatileOf(u, t))') <= Cardinality(Mine(u) \ VolatileOf(u, t))
              /\ Cardinality(Mine(u)) \in Nat /\ Cardinality(Mine(u) \ VolatileOf(u, t)) \in Nat
          BY <2>1
        <4>8. HasRoom(q)'
          <5>1. ASSUME req'[q].op = "persistent" /\ req'[q].pc \in {"look", "both"}
                PROVE  Cardinality(Mine(u)') < UserQuota[u].d
            <6>1. req'[q] = req[q] BY <4>5, <5>1
            <6>2. Cardinality(Mine(u)) < UserQuota[u].d BY <3>1, <3>3, <5>1, <6>1 DEF HasRoom
            <6> QED BY <4>3, <4>7, <6>2
          <5>2. ASSUME (req'[q].op = "volatile" /\ req'[q].pc \in {"quota", "look"}) \/ Replaces(req'[q])
                PROVE  Cardinality((Mine(u) \ VolatileOf(u, t))') < UserQuota[u].d
            <6>1. (req[q].op = "volatile" /\ req[q].pc \in {"quota", "look"}) \/ Replaces(req[q])
              BY <4>5, <4>6, <5>2
            <6>2. Cardinality(Mine(u) \ VolatileOf(u, t)) < UserQuota[u].d BY <3>1, <3>3, <6>1 DEF HasRoom
            <6> QED BY <4>3, <4>7, <6>2
          <5>3. Mine(req[q].user)' = Mine(u)' /\ VolatileOf(req[q].user, req[q].template)' = VolatileOf(u, t)'
            BY <4>4 DEF Mine, VolatileOf
          <5> QED BY <4>4, <5>1, <5>2, <5>3 DEF HasRoom
        <4> QED BY <4>8
      <3>4. CASE ~ Limited(u)
        <4>1. req'[q].user = u BY <1>2
        <4> QED BY <3>4, <4>1 DEF HasRoom, Limited
      <3> QED BY <3>2, <3>3, <3>4
    <2> QED BY <2>2, <2>3
  <1> QED BY <1>4, <1>6, <1>7, <1>8 DEF RequestInv, NoScratch

LEMMA SameKeeps ==
  ASSUME RequestInv, UNCHANGED <<domains, req>>
  PROVE  RequestInv'
  <1>1. OneBusy' BY DEF RequestInv, OneBusy, Busy
  <1>2. OneOwn' BY DEF RequestInv, OneOwn, VolatileOf
  <1>3. ASSUME NEW r \in Requests PROVE OwnGoes(r)' BY DEF RequestInv, OwnGoes, VolatileOf
  <1>4. NoScratch => QuotaKept' BY DEF RequestInv, QuotaKept, Mine, Limited
  <1>5. ASSUME NEW r \in Requests, NoScratch PROVE HasRoom(r)' BY <1>5 DEF RequestInv, HasRoom, Mine, Limited, VolatileOf
  <1> QED BY <1>1, <1>2, <1>3, <1>4, <1>5 DEF RequestInv, NoScratch

\* The steps of the engine.
LEMMA WorkKeeps ==
  ASSUME Assumption, Types, Types', RequestInv, Engine
  PROVE  RequestInv'
  <1> PICK d \in Ids : EngineReads(d) \/ EngineCreated(d) \/ EngineStartsCreated(d) \/ EngineStarted(d)
                        \/ EngineStopped(d) \/ EngineFailed(d) \/ EngineDeleted(d) \/ GuestEnds(d)
    BY DEF Engine
  <1>1. CASE EngineReads(d)
    <2>1. UNCHANGED <<domains, req>> BY <1>1 DEF EngineReads
    <2> QED BY <2>1, SameKeeps
  <1>2. CASE \/ EngineCreated(d) \/ EngineStartsCreated(d) \/ EngineStarted(d) \/ EngineStopped(d) \/ EngineFailed(d)
             \/ GuestEnds(d)
    <2>1. PICK s \in {"Stopped", "Starting", "Started", "Failed"} :
            domains' = WithStatus(d, s) /\ (req' = req \/ req' = Told(req, d, s))
      BY <1>2 DEF EngineCreated, EngineStartsCreated, EngineStarted, EngineStopped, EngineFailed, GuestEnds, Ends
    <2>2. DOMAIN domains' = DOMAIN domains BY <2>1 DEF WithStatus
    <2>3. s \in Statuses /\ s # "gone" BY <2>1 DEF Statuses
    <2> QED BY <2>1, <2>2, <2>3, EngineKeeps
  <1>3. CASE EngineDeleted(d)
    <2>1. DOMAIN domains' = DOMAIN domains \ {d} /\ req' = Told(req, d, "gone") BY <1>3 DEF EngineDeleted
    <2> QED BY <2>1, EngineKeeps
  <1> QED BY <1>1, <1>2, <1>3

LEMMA InvStep == Assumption /\ OneAtATime /\ Types /\ Types' /\ RequestInv /\ [Next]_vars => RequestInv'
  <1> SUFFICES ASSUME Assumption, OneAtATime, Types, Types', RequestInv, [Next]_vars PROVE RequestInv' OBVIOUS
  <1>1. CASE Api
    <2> PICK r \in Requests :
        \/ AsksVolatile(r) \/ AsksNamed(r) \/ AsksScratch(r) \/ AsksAction(r)
        \/ LooksForOthers(r) \/ ChecksBoth(r) \/ LooksAtOwn(r) \/ Creates(r) \/ Opens(r)
        \/ Writes(r) \/ TimesOut(r) \/ LooksToDelete(r) \/ DeletesNext(r) \/ AllDeleted(r)
        \/ LooksUpToStart(r) \/ LooksUpToStop(r) \/ ChecksStartOfOwn(r) \/ ChecksStart(r) \/ LooksToStart(r) \/ LooksToStop(r)
        \/ ChecksNamed(r) \/ LooksForName(r) \/ InsertsNamed(r)
        \/ RefusesScratch(r) \/ LooksForScratch(r) \/ LacksHardware(r) \/ InsertsScratch(r)
      BY <1>1 DEF Api
    <2>1. CASE AsksVolatile(r) \/ AsksNamed(r) \/ AsksScratch(r) \/ AsksAction(r)
      BY <2>1, AsksBegins, BeginsKeeps DEF Types
    <2>2. CASE LooksForOthers(r) \/ ChecksBoth(r) \/ LooksAtOwn(r) \/ Opens(r) BY <2>2, VolatileKeeps
    <2>3. CASE Creates(r) BY <2>3, CreatesKeeps
    <2>4. CASE Writes(r) \/ TimesOut(r) BY <2>4, WaitingKeeps
    <2>5. CASE LooksToDelete(r) \/ DeletesNext(r) \/ AllDeleted(r) BY <2>5, DeletionKeeps
    <2>6. CASE LooksUpToStart(r) \/ LooksUpToStop(r) \/ ChecksStartOfOwn(r) \/ ChecksStart(r) \/ LooksToStart(r) \/ LooksToStop(r)
      BY <2>6, ActionKeeps
    <2>7. CASE ChecksNamed(r) \/ LooksForName(r) \/ InsertsNamed(r) BY <2>7, NamedKeeps
    <2>8. CASE RefusesScratch(r) \/ LooksForScratch(r) \/ LacksHardware(r) \/ InsertsScratch(r) BY <2>8, ScratchKeeps
    <2> QED BY <2>1, <2>2, <2>3, <2>4, <2>5, <2>6, <2>7, <2>8
  <1>2. CASE Engine BY <1>2, WorkKeeps
  <1>3. CASE UNCHANGED <<domains, req>> BY <1>3, SameKeeps
  <1> QED BY <1>1, <1>2, <1>3 DEF Next, ClockTicks, vars

LEMMA OneAtATimeKeeps == Assumption /\ OneAtATime => (Spec => [](Types /\ RequestInv))
  <1> SUFFICES ASSUME Assumption, OneAtATime PROVE Spec => [](Types /\ RequestInv) OBVIOUS
  <1> QED BY TypesInit, TypesStep, InvInit, InvStep, PTL DEF Spec

(***************************************************************************)
(* While requests are served one at a time, a user has at most one         *)
(* volatile desktop of a template, whatever the engine does, whenever a    *)
(* wait ends, and however often the same desktop is asked for: a desktop   *)
(* is made only once all that were found of the template are gone.         *)
(***************************************************************************)
THEOREM OneVolatileDesktop == Assumption /\ OneAtATime => (Spec => []OneVolatile)
  <1> SUFFICES ASSUME Assumption, OneAtATime PROVE Spec => []OneVolatile OBVIOUS
  <1>1. RequestInv => OneVolatile
    <2> SUFFICES ASSUME RequestInv, NEW u \in Users, NEW t \in Templates PROVE Cardinality(VolatileOf(u, t)) <= 1
      BY DEF OneVolatile
    <2>1. \A d, e \in VolatileOf(u, t) : d = e BY DEF RequestInv, OneOwn
    <2>2. CASE VolatileOf(u, t) = {} BY <2>2, FS_EmptySet
    <2>3. CASE VolatileOf(u, t) # {}
      <3>1. PICK d : VolatileOf(u, t) = {d} BY <2>1, <2>3
      <3>2. Cardinality(VolatileOf(u, t)) = 1 BY <3>1, FS_Singleton
      <3> QED BY <3>2
    <2> QED BY <2>2, <2>3
  <1> QED BY <1>1, OneAtATimeKeeps, PTL

(***************************************************************************)
(* While requests are served one at a time and none is for a desktop from  *)
(* scratch, no user has more desktops than its quota allows, for any quota *)
(* and any number of users, templates and requests.  A quota of three that *)
(* is full is found full, and one that is not leaves a place that nobody   *)
(* else takes before the insertion.                                        *)
(***************************************************************************)
THEOREM DesktopsKeepToQuota == Assumption /\ OneAtATime /\ NoScratch => (Spec => []DesktopsWithinQuota)
  <1> SUFFICES ASSUME Assumption, OneAtATime, NoScratch PROVE Spec => []DesktopsWithinQuota OBVIOUS
  <1>1. Types /\ RequestInv => DesktopsWithinQuota
    <2> SUFFICES ASSUME Types, RequestInv, NEW u \in Users, UserQuota[u] # NoLimit
                 PROVE  Cardinality(Desktops(domains, {u})) <= UserQuota[u].d
      BY DEF DesktopsWithinQuota
    <2>1. Desktops(domains, {u}) = Mine(u) BY MineIs DEF Types
    <2>2. Cardinality(Mine(u)) <= UserQuota[u].d BY DEF RequestInv, QuotaKept, Limited
    <2> QED BY <2>1, <2>2
  <1> QED BY <1>1, OneAtATimeKeeps, PTL
=============================================================================
