-------------------------- MODULE KvsClient_proofs --------------------------
(***************************************************************************)
(* The client, the routing node and the servers (KvsClient): the invariant *)
(* that ties the answers a call returns to the call and to what the        *)
(* servers store, for any number of nodes, keys and calls.  The first half *)
(* is about the operators on the client (KvsTrials): the ids it gives out  *)
(* are new, what has one of them belongs to the call, and the answers it   *)
(* holds are answers to it.                                                *)
(***************************************************************************)
EXTENDS KvsClient, WellFoundedInduction, TLAPS

(* The provers tried on a leaf that names none, with the seconds they get. *)
USE ZenonT(60), SMTT(60)

------------------------------------------------------------------------------
(* The requests, the responses and the client, by their types.             *)
Asked == [kind : {"address_request"}, rid : Nat, key : Key]
Size == {Cardinality(ws) : ws \in SUBSET Thread} \cup {0}
Request ==
  [kind : {"request"}, rid : Nat, call : Call, size : Size, to : Thread]
Response ==
  [kind : {"response"}, rid : Nat, call : Call, from : Thread, error : 0 .. 2,
   val : SUBSET Call, invalidate : BOOLEAN, addresses : SUBSET Thread]
Store == [Thread -> [Key -> SUBSET Call]]
Client ==
  [at : {"idle", "routing", "servers", "return"}, call : Call \cup {NoCall},
   left : 0 .. trial_limit, size : Size, query : Nat, rid : Nat,
   ids : SUBSET (Nat \X Thread), sent : SUBSET Thread,
   got : Seq(Response), first : Seq(Response), next : Nat,
   key_address_cache : [Key -> SUBSET Thread]]

------------------------------------------------------------------------------
(* The client and the messages.                                            *)
Data(M) == {m \in M : m.kind \in {"request", "response"}}
Peer(m) == IF m.kind = "request" THEN m.to ELSE m.from
Answers(c) == {c.got[i] : i \in DOMAIN c.got} \cup {c.first[i] : i \in DOMAIN c.first}

(* No message has an id that is still to be given out.                     *)
Numbers(c, M) ==
  /\ c \in Client
  /\ c.next % 2 = 0
  /\ \A m \in Data(M) : m.rid \in 0 .. c.next - 1

(* A client in a call: what holds before and after a trial.                *)
InCall(c, M) ==
  /\ Numbers(c, M)
  /\ c.call \in Call
  /\ Many[c.call] => c.first = <<>>
  /\ \A m \in Answers(c) : m.call = c.call

(* The ids of this trial: those of the requests that are not answered, and *)
(* the one that try_request takes before it knows the server.              *)
Mine(c) == {i[1] : i \in c.ids} \cup (IF Many[c.call] THEN {} ELSE {c.rid})

(* What has such an id is of this call, and to or from the thread that was *)
(* asked under it, and no two threads are asked under one id.              *)
Trial(c, M) ==
  /\ \A r \in Mine(c) : r < c.next
  /\ \A m \in Data(M) : m.rid \in Mine(c) => m.call = c.call
  /\ Many[c.call] => \A m \in Data(M), i \in c.ids : i[1] = m.rid => i[2] = Peer(m)
  /\ ~ Many[c.call] => \A i \in c.ids : i[1] = c.rid
  /\ \A i, j \in c.ids : i[1] = j[1] => i = j
  /\ c.at = "servers" /\ Many[c.call] =>
       {c.got[i].from : i \in DOMAIN c.got} \cup {i[2] : i \in c.ids} = c.sent

(* A trial is under way, or the call is over: then try_multi_request has   *)
(* all answers, or none.                                                   *)
Active(c, M) ==
  /\ InCall(c, M)
  /\ \/ c.at \in {"routing", "servers"} /\ c.left > 0 /\ Trial(c, M)
     \/ /\ c.at = "return"
        /\ Many[c.call] /\ c.got # <<>> =>
             {c.got[i].from : i \in DOMAIN c.got} = c.sent

Idle(c, M) ==
  /\ Numbers(c, M)
  /\ c.at = "idle" /\ c.ids = {} /\ c.got = <<>> /\ c.first = <<>>

------------------------------------------------------------------------------
(* Numbers.                                                                *)

LEMMA Division ==
  ASSUME NEW a \in Nat, NEW b \in Nat \ {0}, a % b = 0
  PROVE  \E q \in Int : a = b * q
<1> DEFINE q == a \div b
<1>1. q \in Int
  BY SMTT(60)
<1>2. a = b * q
  BY SMTT(60)
<1> QED
  BY <1>1, <1>2

(* rid_ is even before and after, so it never wraps.                       *)
LEMMA NextId ==
  ASSUME NEW n \in Nat, n % 2 = 0
  PROVE  /\ (n + 1) % RidWrap # 0
         /\ \A c : c.next = n =>
              get_request_id(c) = [id |-> n + 1, next |-> n + 2]
<1>1. (n + 1) % RidWrap # 0
  <2> SUFFICES ASSUME (n + 1) % RidWrap = 0 PROVE FALSE
    OBVIOUS
  <2>1. PICK w \in Nat : RidWrap = 2 * w
    BY CallAssumption, SMTT(60)
  <2>2. PICK h \in Nat : n = 2 * h
    BY SMTT(60)
  <2>3. PICK q \in Int : n + 1 = RidWrap * q
    <3>1. n + 1 \in Nat /\ RidWrap \in Nat \ {0}
      BY CallAssumption, SMTT(60)
    <3> QED
      BY <3>1, Division
  <2>4. PICK x \in Int : x = w * q
    BY SMTT(60)
  <2>5. n + 1 = 2 * x
    BY <2>1, <2>3, <2>4, SMTT(60)
  <2> QED
    BY <2>2, <2>4, <2>5, SMTT(60)
<1> QED
  BY <1>1, SMTT(60) DEF get_request_id

LEMMA LeastNumber ==
  ASSUME NEW T \in SUBSET Nat, T # {}
  PROVE  \E x \in T : \A y \in T : x <= y
<1> DEFINE R == {ss \in Nat \X Nat : ss[1] < ss[2]}
<1>1. IsWellFoundedOn(R, Nat)
  BY NatLessThanWellFounded DEF OpToRel
<1>2. \A x, y \in Nat : <<y, x>> \notin R => x <= y
  BY SMTT(60)
<1> HIDE DEF R
<1>3. PICK x \in T : \A y \in T : ~ (<<y, x>> \in R)
  BY <1>1, WFMin
<1>4. ASSUME NEW y \in T PROVE x <= y
  BY <1>2, <1>3
<1> QED
  BY <1>4

LEMMA Induction ==
  ASSUME NEW G, 0 \in G, \A n \in Nat : n \in G => n + 1 \in G
  PROVE  Nat \subseteq G
<1> SUFFICES ASSUME Nat \ G # {} PROVE FALSE
  OBVIOUS
<1>1. PICK x \in Nat \ G : \A y \in Nat \ G : x <= y
  BY LeastNumber
<1>2. x # 0 /\ x - 1 \in Nat
  BY SMTT(60)
<1>3. x - 1 \in G
  BY <1>1, <1>2, SMTT(60)
<1> QED
  BY <1>2, <1>3, SMTT(60)

LEMMA Extremes ==
  ASSUME NEW n \in Nat, NEW S \in SUBSET (1 .. n), S # {}
  PROVE  Min(S) \in S /\ Max(S) \in S
<1>1. PICK x \in S : \A y \in S : x <= y
  <2>1. S \in SUBSET Nat
    BY SMTT(60)
  <2> QED
    BY <2>1, LeastNumber
<1>2. Min(S) \in S
  BY <1>1 DEF Min
<1> DEFINE T == {n - y : y \in S}
<1>3. T \in SUBSET Nat /\ T # {}
  BY SMTT(60)
<1>4. PICK z \in T : \A y \in T : z <= y
  BY <1>3, LeastNumber
<1>5. PICK w \in S : z = n - w
  OBVIOUS
<1>6. ASSUME NEW y \in S PROVE w >= y
  <2>1. n - w <= n - y
    BY <1>4, <1>5
  <2> QED
    BY <2>1, SMTT(60)
<1>7. Max(S) \in S
  BY <1>6 DEF Max
<1> QED
  BY <1>2, <1>7

(* try_multi_request numbers its requests c.next + 1, c.next + 3, ...      *)
LEMMA Ids ==
  ASSUME NEW c \in Client, c.next % 2 = 0, NEW n \in Nat, NEW f,
         f = CHOOSE g : g = [i \in 0 .. n |->
               IF i = 0 THEN c.next
               ELSE get_request_id([c EXCEPT !.next = g[i - 1]]).next]
  PROVE  \A i \in 0 .. n : f[i] = c.next + 2 * i
<1> DEFINE Eq(g) == g = [i \in 0 .. n |->
              IF i = 0 THEN c.next
              ELSE get_request_id([c EXCEPT !.next = g[i - 1]]).next]
<1>1. PICK b \in Nat : b = c.next /\ b % 2 = 0
  BY DEF Client
<1> DEFINE h == [i \in 0 .. n |-> b + 2 * i]
<1>2. \A x \in Nat : x % 2 = 0 => get_request_id([c EXCEPT !.next = x]).next = x + 2
  <2> SUFFICES ASSUME NEW x \in Nat, x % 2 = 0
               PROVE  get_request_id([c EXCEPT !.next = x]).next = x + 2
    OBVIOUS
  <2>1. [c EXCEPT !.next = x].next = x
    BY DEF Client
  <2>2. get_request_id([c EXCEPT !.next = x]) = [id |-> x + 1, next |-> x + 2]
    BY <2>1, NextId
  <2> QED
    BY <2>2, SMTT(60)
<1>3. Eq(h)
  <2> DEFINE g == [i \in 0 .. n |-> IF i = 0 THEN c.next
                    ELSE get_request_id([c EXCEPT !.next = h[i - 1]]).next]
  <2>1. ASSUME NEW i \in 0 .. n PROVE h[i] = g[i]
    <3>1. CASE i = 0
      BY <1>1, <3>1, SMTT(60)
    <3>2. CASE i # 0
      <4>1. i - 1 \in 0 .. n /\ h[i - 1] = b + 2 * (i - 1) /\ h[i] = b + 2 * i
        BY <3>2, SMTT(60)
      <4>2. b + 2 * (i - 1) \in Nat /\ (b + 2 * (i - 1)) % 2 = 0
        BY <1>1, <3>2, SMTT(60)
      <4>3. get_request_id([c EXCEPT !.next = h[i - 1]]).next = b + 2 * (i - 1) + 2
        BY <1>2, <4>1, <4>2
      <4>4. g[i] = get_request_id([c EXCEPT !.next = h[i - 1]]).next
        BY <3>2
      <4> HIDE DEF g, h
      <4> QED
        BY <4>1, <4>3, <4>4, SMTT(60)
    <3> QED
      BY <3>1, <3>2
  <2>2. h = [i \in 0 .. n |-> h[i]] /\ g = [i \in 0 .. n |-> g[i]]
    BY SMTT(60)
  <2>3. h = g
    <3> HIDE DEF g, h
    <3> QED
      BY <2>1, <2>2
  <2> QED
    BY <2>3
<1>4. Eq(f)
  <2> HIDE DEF Eq
  <2>1. f = CHOOSE g : Eq(g)
    BY DEF Eq
  <2> QED
    BY <1>3, <2>1
<1> DEFINE G == {i \in Nat : i \in 0 .. n => f[i] = b + 2 * i}
<1>5. 0 \in G
  <2>1. 0 \in 0 .. n
    BY SMTT(60)
  <2>2. f[0] = b
    BY <1>1, <1>4, <2>1
  <2> QED
    BY <2>2, SMTT(60)
<1>6. ASSUME NEW i \in Nat, i \in G PROVE i + 1 \in G
  <2> SUFFICES ASSUME i + 1 \in 0 .. n PROVE f[i + 1] = b + 2 * (i + 1)
    BY SMTT(60)
  <2>1. i \in 0 .. n /\ f[i] = b + 2 * i
    BY <1>6, SMTT(60)
  <2>2. b + 2 * i \in Nat /\ (b + 2 * i) % 2 = 0
    BY <1>1, SMTT(60)
  <2>3. f[i + 1] = get_request_id([c EXCEPT !.next = f[i]]).next
    <3>1. (i + 1) - 1 = i /\ i + 1 # 0
      BY SMTT(60)
    <3> QED
      BY <1>4, <3>1
  <2>4. f[i + 1] = b + 2 * i + 2
    BY <1>2, <2>1, <2>2, <2>3
  <2> QED
    BY <2>4, SMTT(60)
<1> HIDE DEF G
<1>7. Nat \subseteq G
  BY <1>5, <1>6, Induction
<1>8. ASSUME NEW i \in 0 .. n PROVE f[i] = b + 2 * i
  <2>1. i \in Nat
    BY SMTT(60)
  <2> QED
    BY <1>7, <2>1 DEF G
<1> QED
  BY <1>1, <1>8

LEMMA NumbersGiven ==
  ASSUME NEW c \in Client, c.next % 2 = 0, NEW ws \in SUBSET Thread,
         NEW n, n = Numbered(c, ws)
  PROVE  /\ n.next \in Nat /\ n.next % 2 = 0 /\ n.next >= c.next
         /\ n.ids \in SUBSET (Nat \X Thread)
         /\ \A i \in n.ids : i[1] >= c.next /\ i[1] < n.next
         /\ \A i, j \in n.ids : i[1] = j[1] => i = j
         /\ {i[2] : i \in n.ids} = ws
<1> DEFINE order == Sorted[ws]
           z == Len(order)
           f == CHOOSE g : g = [i \in 0 .. z |->
                  IF i = 0 THEN c.next
                  ELSE get_request_id([c EXCEPT !.next = g[i - 1]]).next]
<1>1. n.next = f[z] /\ n.ids = {<<f[i] - 1, order[i]>> : i \in 1 .. z}
  BY DEF Numbered
<1>2. z \in Nat
  BY CallAssumption, SMTT(60)
<1>3. \A i \in 0 .. z : f[i] = c.next + 2 * i
  BY <1>2, Ids
<1>4. /\ order \in [1 .. z -> ws]
      /\ \A i, j \in 1 .. z : order[i] = order[j] => i = j
      /\ \A w \in ws : \E i \in 1 .. z : order[i] = w
  <2>1. order \in Seq(Thread) /\ DOMAIN order = 1 .. z
    BY CallAssumption, SMTT(60)
  <2>2. /\ {order[i] : i \in DOMAIN order} = ws
        /\ \A i, j \in DOMAIN order : order[i] = order[j] => i = j
    BY CallAssumption
  <2> HIDE DEF order, z
  <2> QED
    BY <2>1, <2>2, SMTT(60)
<1> HIDE DEF z, order, f
<1>5. PICK b \in Nat : b = c.next /\ b % 2 = 0
  BY DEF Client
<1>6. n.ids = {<<b + 2 * i - 1, order[i]>> : i \in 1 .. z}
  <2>1. \A i \in 1 .. z : f[i] = b + 2 * i
    BY <1>2, <1>3, <1>5, SMTT(60)
  <2> QED
    BY <1>1, <2>1, SMTT(60)
<1>7. n.next = b + 2 * z
  BY <1>1, <1>2, <1>3, <1>5, SMTT(60)
<1>8. n.next \in Nat /\ n.next % 2 = 0 /\ n.next >= c.next
  BY <1>2, <1>5, <1>7, SMTT(60)
<1>9. ASSUME NEW j \in n.ids
      PROVE  j \in Nat \X Thread /\ j[1] >= c.next /\ j[1] < n.next /\ j[2] \in ws
  <2>1. PICK i \in 1 .. z : j = <<b + 2 * i - 1, order[i]>>
    BY <1>6
  <2> QED
    BY <1>2, <1>4, <1>5, <1>7, <2>1, SMTT(60)
<1>10. ASSUME NEW i \in n.ids, NEW j \in n.ids, i[1] = j[1] PROVE i = j
  <2>1. PICK x \in 1 .. z : i = <<b + 2 * x - 1, order[x]>>
    BY <1>6
  <2>2. PICK y \in 1 .. z : j = <<b + 2 * y - 1, order[y]>>
    BY <1>6
  <2>3. b + 2 * x - 1 = b + 2 * y - 1
    BY <1>10, <2>1, <2>2
  <2>4. x = y
    BY <1>2, <1>5, <2>3, SMTT(60)
  <2> QED
    BY <2>1, <2>2, <2>4
<1>11. ASSUME NEW w \in ws PROVE \E i \in n.ids : i[2] = w
  <2>1. PICK x \in 1 .. z : order[x] = w
    BY <1>4
  <2>2. <<b + 2 * x - 1, order[x]>> \in n.ids
    BY <1>6
  <2> QED
    BY <2>1, <2>2
<1> QED
  BY <1>8, <1>9, <1>10, <1>11, SMTT(60)
------------------------------------------------------------------------------
(* The client's operators.  What one gives for a client c that is in a     *)
(* call, with messages M.                                                  *)
After(o, c, M) ==
  /\ Active(o.c, M \cup o.out)
  /\ o.c.call = c.call
  /\ o.c.at = "return" => o.c.sent = c.sent
  /\ \A m \in o.out : m \in Asked \/ (m \in Request /\ m.call = c.call)
  /\ Answers(o.c) \subseteq Answers(c)

LEMMA SendsToAll ==
  ASSUME NEW c, NEW M, InCall(c, M), c.left > 0, NEW ws \in SUBSET Thread, Many[c.call]
  PROVE  After(SendTo(c, ws), c, M)
<1> DEFINE n == Numbered(c, ws)
           d == [c EXCEPT !.at = "servers", !.ids = n.ids, !.sent = ws, !.got = <<>>,
                          !.next = n.next]
           out == {DataRequest(i[1], c.call, c.size, i[2]) : i \in n.ids}
<1>1. SendTo(c, ws) = [c |-> d, out |-> out]
  BY DEF SendTo
<1>2. c \in Client /\ c.next % 2 = 0 /\ c.next \in Nat /\ c.size \in Size /\ c.call \in Call
  BY DEF InCall, Numbers, Client
<1>3. /\ n.next \in Nat /\ n.next % 2 = 0 /\ n.next >= c.next
      /\ n.ids \in SUBSET (Nat \X Thread)
      /\ \A i \in n.ids : i[1] >= c.next /\ i[1] < n.next
      /\ \A i, j \in n.ids : i[1] = j[1] => i = j
      /\ {i[2] : i \in n.ids} = ws
  BY <1>2, NumbersGiven
<1> HIDE DEF n
<1>4. /\ d \in Client
      /\ d.at = "servers" /\ d.call = c.call /\ d.left = c.left /\ d.rid = c.rid
      /\ d.ids = n.ids /\ d.sent = ws /\ d.got = <<>> /\ d.first = c.first
      /\ d.next = n.next
  <2>1. <<>> \in Seq(Response)
    BY SMTT(60)
  <2>2. d \in Client
    BY <1>2, <1>3, <2>1 DEF Client
  <2> QED
    BY <1>2, <2>2 DEF Client
<1> HIDE DEF d
<1>5. \A m \in out : /\ m \in Request /\ m.kind = "request" /\ m.call = c.call
                     /\ \E i \in n.ids : m.rid = i[1] /\ m.to = i[2]
  BY <1>2, <1>3, SMTT(60) DEF DataRequest, Request
<1> HIDE DEF out
<1>6. Data(M \cup out) = Data(M) \cup out
  BY <1>5 DEF Data
<1>7. Answers(d) \subseteq Answers(c)
  BY <1>4, SMTT(60) DEF Answers
<1>8. Numbers(d, M \cup out)
  <2>1. \A m \in Data(M) : m.rid \in 0 .. n.next - 1
    BY <1>2, <1>3, SMTT(60) DEF InCall, Numbers
  <2>2. \A m \in out : m.rid \in 0 .. n.next - 1
    BY <1>2, <1>3, <1>5, SMTT(60)
  <2> QED
    BY <1>3, <1>4, <1>6, <2>1, <2>2 DEF Numbers
<1>9. InCall(d, M \cup out)
  BY <1>4, <1>5, <1>7, <1>8 DEF InCall
<1>10. Trial(d, M \cup out)
  <2>1. Mine(d) = {i[1] : i \in n.ids}
    BY <1>4 DEF Mine
  <2>2. \A r \in Mine(d) : r < d.next
    BY <1>3, <1>4, <2>1, SMTT(60)
  <2>3. \A m \in Data(M) : \A i \in n.ids : m.rid # i[1]
    BY <1>2, <1>3, SMTT(60) DEF InCall, Numbers
  <2>4. \A m \in Data(M \cup out) : m.rid \in Mine(d) => m.call = d.call
    BY <1>4, <1>5, <1>6, <2>1, <2>3
  <2>5. \A m \in Data(M \cup out), i \in d.ids : i[1] = m.rid => i[2] = Peer(m)
    BY <1>3, <1>4, <1>5, <1>6, <2>3, SMTT(60) DEF Peer
  <2>6. {d.got[i].from : i \in DOMAIN d.got} \cup {i[2] : i \in d.ids} = d.sent
    BY <1>3, <1>4, SMTT(60)
  <2> QED
    BY <1>3, <1>4, <2>2, <2>4, <2>5, <2>6 DEF Trial
<1> QED
  BY <1>1, <1>4, <1>5, <1>7, <1>9, <1>10, SMTT(60) DEF After, Active

LEMMA SendsToOne ==
  ASSUME NEW c, NEW M, InCall(c, M), c.left > 0, NEW ws \in SUBSET Thread, ~ Many[c.call],
         \A v, w \in ws : v = w, c.rid < c.next,
         \A m \in Data(M) : m.rid = c.rid => m.call = c.call
  PROVE  After(SendTo(c, ws), c, M)
<1> DEFINE ids == {<<c.rid, w>> : w \in ws}
           d == [c EXCEPT !.at = "servers", !.ids = ids, !.sent = ws, !.got = <<>>,
                          !.next = @]
           out == {DataRequest(i[1], c.call, c.size, i[2]) : i \in ids}
<1>1. SendTo(c, ws) = [c |-> d, out |-> out]
  BY DEF SendTo
<1>2. /\ c \in Client /\ c.next % 2 = 0 /\ c.next \in Nat /\ c.size \in Size /\ c.call \in Call
      /\ c.rid \in Nat
  BY DEF InCall, Numbers, Client
<1>3. /\ ids \in SUBSET (Nat \X Thread) /\ \A i \in ids : i[1] = c.rid
      /\ \A i, j \in ids : i = j
  BY <1>2, SMTT(60)
<1> HIDE DEF ids
<1>4. /\ d \in Client
      /\ d.at = "servers" /\ d.call = c.call /\ d.left = c.left /\ d.rid = c.rid
      /\ d.ids = ids /\ d.got = <<>> /\ d.first = c.first
      /\ d.next = c.next
  <2>1. <<>> \in Seq(Response)
    BY SMTT(60)
  <2>2. d \in Client
    BY <1>2, <1>3, <2>1 DEF Client
  <2> QED
    BY <1>2, <2>2 DEF Client
<1> HIDE DEF d
<1>5. \A m \in out : m \in Request /\ m.kind = "request" /\ m.call = c.call /\ m.rid = c.rid
  BY <1>2, <1>3, SMTT(60) DEF DataRequest, Request
<1> HIDE DEF out
<1>6. Data(M \cup out) = Data(M) \cup out
  BY <1>5 DEF Data
<1>7. Answers(d) \subseteq Answers(c)
  BY <1>4, SMTT(60) DEF Answers
<1>8. Numbers(d, M \cup out)
  <2>1. \A m \in Data(M) : m.rid \in 0 .. c.next - 1
    BY DEF InCall, Numbers
  <2>2. c.rid \in 0 .. c.next - 1
    BY <1>2, SMTT(60)
  <2> QED
    BY <1>2, <1>4, <1>5, <1>6, <2>1, <2>2 DEF Numbers
<1>9. InCall(d, M \cup out)
  BY <1>4, <1>5, <1>7, <1>8 DEF InCall
<1>10. Trial(d, M \cup out)
  <2>1. Mine(d) = {i[1] : i \in ids} \cup {c.rid}
    BY <1>4 DEF Mine
  <2>2. Mine(d) = {c.rid}
    BY <1>3, <2>1
  <2>3. \A m \in Data(M \cup out) : m.rid = c.rid => m.call = d.call
    BY <1>4, <1>5, <1>6
  <2> QED
    BY <1>3, <1>4, <2>2, <2>3 DEF Trial
<1> QED
  BY <1>1, <1>4, <1>5, <1>7, <1>9, <1>10, SMTT(60) DEF After, Active

LEMMA Same ==
  ASSUME NEW o, NEW c, NEW d, NEW M, After(o, d, M),
         d.call = c.call, d.sent = c.sent, Answers(d) \subseteq Answers(c)
  PROVE  After(o, c, M)
  BY DEF After

LEMMA Returns ==
  ASSUME NEW c, NEW M, InCall(c, M),
         Many[c.call] /\ c.got # <<>> =>
           {c.got[i].from : i \in DOMAIN c.got} = c.sent
  PROVE  After([c |-> [c EXCEPT !.at = "return"], out |-> {}], c, M)
<1> DEFINE d == [c EXCEPT !.at = "return"]
<1>1. c \in Client
  BY DEF InCall, Numbers
<1>2. /\ d \in Client
      /\ d.at = "return" /\ d.call = c.call /\ d.got = c.got /\ d.first = c.first
      /\ d.next = c.next /\ d.sent = c.sent
  BY <1>1 DEF Client
<1> HIDE DEF d
<1>3. Answers(d) = Answers(c)
  BY <1>2 DEF Answers
<1>4. InCall(d, M \cup {})
  <2>1. M \cup {} = M
    OBVIOUS
  <2> QED
    BY <1>2, <1>3, <2>1 DEF InCall, Numbers
<1>5. Active(d, M \cup {})
  BY <1>2, <1>4 DEF Active
<1> QED
  BY <1>2, <1>3, <1>5 DEF After, d

LEMMA Asks ==
  ASSUME NEW c, NEW M, InCall(c, M), c.left > 0, c.ids = {},
         ~ Many[c.call] => /\ c.rid < c.next
                           /\ \A m \in Data(M) : m.rid = c.rid => m.call = c.call
  PROVE  After(query_routing(c), c, M)
<1> DEFINE d == [c EXCEPT !.at = "routing", !.query = c.next + 1, !.next = c.next + 2]
           out == {AddressRequest(c.next + 1, KeyOf[c.call])}
<1>1. c \in Client /\ c.next % 2 = 0 /\ c.next \in Nat /\ c.call \in Call /\ c.rid \in Nat
  BY DEF InCall, Numbers, Client
<1>2. query_routing(c) = [c |-> d, out |-> out]
  <2>1. get_request_id(c) = [id |-> c.next + 1, next |-> c.next + 2]
    BY <1>1, NextId
  <2> QED
    BY <2>1, SMTT(60) DEF query_routing
<1>3. d \in Client
  <2>1. c.next + 1 \in Nat /\ c.next + 2 \in Nat
    BY <1>1, SMTT(60)
  <2> QED
    BY <1>1, <2>1 DEF Client
<1>4. /\ d.at = "routing" /\ d.call = c.call /\ d.left = c.left /\ d.rid = c.rid
      /\ d.ids = {} /\ d.got = c.got /\ d.first = c.first
      /\ d.next = c.next + 2
  BY <1>1 DEF Client
<1> HIDE DEF d
<1>5. \A m \in out : m \in Asked /\ m.kind = "address_request"
  <2>1. KeyOf[c.call] \in Key
    BY <1>1, CallAssumption
  <2> QED
    BY <1>1, <2>1, SMTT(60) DEF AddressRequest, Asked
<1> HIDE DEF out
<1>6. Data(M \cup out) = Data(M)
  BY <1>5 DEF Data
<1>7. Answers(d) = Answers(c)
  BY <1>4 DEF Answers
<1>8. Numbers(d, M \cup out)
  <2>1. \A m \in Data(M) : m.rid \in 0 .. (c.next + 2) - 1
    BY <1>1, SMTT(60) DEF InCall, Numbers
  <2>2. (c.next + 2) % 2 = 0
    BY <1>1, SMTT(60)
  <2> QED
    BY <1>3, <1>4, <1>6, <2>1, <2>2 DEF Numbers
<1>9. InCall(d, M \cup out)
  BY <1>4, <1>5, <1>7, <1>8 DEF InCall
<1>10. Trial(d, M \cup out)
  <2>1. Mine(d) = IF Many[c.call] THEN {} ELSE {c.rid}
    BY <1>4 DEF Mine
  <2>2. ~ Many[c.call] => c.rid < c.next + 2
    BY <1>1, SMTT(60)
  <2> QED
    BY <1>4, <1>6, <2>1, <2>2 DEF Trial
<1> QED
  BY <1>2, <1>4, <1>5, <1>7, <1>9, <1>10, SMTT(60) DEF After, Active

LEMMA Tries ==
  ASSUME NEW c, NEW M, InCall(c, M), c.ids = {}, c.got = <<>>
  PROVE  \A o \in Try(c) : After(o, c, M)
<1> DEFINE d == IF Many[c.call] THEN c
                ELSE [c EXCEPT !.rid = c.next + 1, !.next = c.next + 2]
           all == c.key_address_cache[KeyOf[c.call]]
<1>1. /\ c \in Client /\ c.next % 2 = 0 /\ c.next \in Nat /\ c.call \in Call
      /\ c.left \in Nat
  BY CallAssumption, SMTT(60) DEF InCall, Numbers, Client
<1>2. all \in SUBSET Thread
  <2>1. KeyOf[c.call] \in Key
    BY <1>1, CallAssumption
  <2> QED
    BY <1>1, <2>1 DEF Client
<1>3. CASE c.left = 0
  <2>1. Try(c) = {[c |-> [c EXCEPT !.at = "return"], out |-> {}]}
    BY <1>3 DEF Try
  <2> QED
    BY <2>1, Returns
<1>4. CASE c.left # 0
  <2>1. d \in Client
    <3>1. c.next + 1 \in Nat /\ c.next + 2 \in Nat
      BY <1>1, SMTT(60)
    <3> QED
      BY <1>1, <3>1 DEF Client
  <2>2. /\ d.call = c.call /\ d.left = c.left /\ d.ids = {} /\ d.got = c.got
        /\ d.first = c.first /\ d.sent = c.sent
        /\ d.key_address_cache = c.key_address_cache
        /\ d.next \in Nat /\ d.next % 2 = 0 /\ d.next >= c.next
        /\ ~ Many[c.call] => d.rid = c.next + 1 /\ d.next = c.next + 2
    BY <1>1, SMTT(60) DEF Client
  <2>3. \A o \in Try(c) : \/ o = query_routing(d)
                          \/ \E ws \in Workers(d) : o = SendTo(d, ws)
    <3>1. get_request_id(c) = [id |-> c.next + 1, next |-> c.next + 2]
      BY <1>1, NextId
    <3>2. d = IF Many[c.call] THEN c ELSE
                [c EXCEPT !.rid = get_request_id(c).id, !.next = get_request_id(c).next]
      BY <3>1, SMTT(60)
    <3> HIDE DEF d
    <3> QED
      BY <1>4, <3>2 DEF Try
  <2> HIDE DEF d
  <2>4. Answers(d) = Answers(c)
    BY <2>2 DEF Answers
  <2>5. InCall(d, M)
    <3>1. \A m \in Data(M) : m.rid \in 0 .. d.next - 1
      BY <1>1, <2>2, SMTT(60) DEF InCall, Numbers
    <3> QED
      BY <2>1, <2>2, <2>4, <3>1 DEF InCall, Numbers
  <2>6. d.left > 0
    BY <1>1, <1>4, <2>2, SMTT(60)
  <2>7. ~ Many[c.call] => /\ d.rid < d.next
                          /\ \A m \in Data(M) : m.rid # d.rid
    BY <1>1, <2>2, SMTT(60) DEF InCall, Numbers
  <2>8. \A ws \in Workers(d) : ws \in SUBSET Thread
    BY <1>2, <2>2 DEF Workers
  <2>9. ASSUME NEW o \in Try(c) PROVE After(o, d, M)
    <3>1. CASE o = query_routing(d)
      BY <2>2, <2>5, <2>6, <2>7, <3>1, Asks
    <3>2. CASE \E ws \in Workers(d) : o = SendTo(d, ws)
      <4>1. PICK ws \in Workers(d) : o = SendTo(d, ws)
        BY <3>2
      <4>2. ws \in SUBSET Thread
        BY <2>8
      <4>3. CASE Many[c.call]
        BY <2>2, <2>5, <2>6, <4>1, <4>2, <4>3, SendsToAll
      <4>4. CASE ~ Many[c.call]
        <5>1. \A v, w \in ws : v = w
          BY <2>2, <4>4 DEF Workers
        <5> QED
          BY <2>2, <2>5, <2>6, <2>7, <4>1, <4>2, <4>4, <5>1, SendsToOne
      <4> QED
        BY <4>3, <4>4
    <3> QED
      BY <2>3, <3>1, <3>2
  <2> QED
    BY <2>2, <2>4, <2>9, Same
<1> QED
  BY <1>3, <1>4

LEMMA Retries ==
  ASSUME NEW c, NEW M, InCall(c, M), c.left > 0
  PROVE  \A o \in Retry(c) : After(o, c, M)
<1> DEFINE d == [c EXCEPT !.left = @ - 1, !.ids = {}, !.got = <<>>]
<1>1. c \in Client /\ c.left \in 0 .. trial_limit
  BY DEF InCall, Numbers, Client
<1>2. c.left - 1 \in 0 .. trial_limit /\ <<>> \in Seq(Response)
  BY <1>1, CallAssumption, SMTT(60)
<1>3. d \in Client
  BY <1>1, <1>2 DEF Client
<1>4. /\ d.call = c.call /\ d.ids = {} /\ d.got = <<>> /\ d.first = c.first
      /\ d.next = c.next /\ d.sent = c.sent
  BY <1>1 DEF Client
<1>5. Retry(c) = Try(d)
  BY DEF Retry
<1> HIDE DEF d
<1>6. Answers(d) \subseteq Answers(c)
  BY <1>4, SMTT(60) DEF Answers
<1>7. InCall(d, M)
  BY <1>3, <1>4, <1>6 DEF InCall, Numbers
<1>8. \A o \in Try(d) : After(o, d, M)
  BY <1>4, <1>7, Tries
<1> QED
  BY <1>4, <1>5, <1>6, <1>8, Same

LEMMA Checks ==
  ASSUME NEW c, NEW M, Active(c, M), c.at = "servers", c.ids = {}
  PROVE  \A o \in CheckAll(c) : After(o, c, M)
<1> DEFINE bad  == {i \in DOMAIN c.got : c.got[i].error # 0}
           last == IF bad = {} THEN Len(c.got) ELSE Min(bad)
           sets == {i \in 1 .. last : c.got[i].error = 2 \/ c.got[i].invalidate}
           d    == IF sets = {} THEN c ELSE check_tuple(c, c.got[Max(sets)])
           e    == IF Many[c.call] \/ c.first # <<>> THEN d
                   ELSE [d EXCEPT !.first = <<c.got[last]>>]
<1>1. /\ InCall(c, M) /\ c \in Client /\ c.call \in Call /\ c.left > 0
      /\ Many[c.call] => {c.got[i].from : i \in DOMAIN c.got} = c.sent
  BY DEF Active, Trial, InCall, Numbers
<1>2. CheckAll(c) = IF bad = {} THEN {[c |-> [d EXCEPT !.at = "return"], out |-> {}]}
                    ELSE Retry(e)
  BY DEF CheckAll
<1>3. PICK n \in Nat : n = Len(c.got) /\ DOMAIN c.got = 1 .. n
                       /\ \A i \in 1 .. n : c.got[i] \in Response
  BY <1>1, SMTT(60) DEF Client
<1>4. bad # {} => last \in bad
  <2>1. bad \in SUBSET (1 .. n)
    BY <1>3
  <2> HIDE DEF bad
  <2> QED
    BY <2>1, Extremes
<1>5. last \in Nat /\ last <= n
  <2>1. bad \in SUBSET (1 .. n)
    BY <1>3
  <2> QED
    BY <1>3, <1>4, <2>1, SMTT(60)
<1>6. sets # {} => Max(sets) \in 1 .. n
  <2> HIDE DEF bad, last
  <2>1. sets \in SUBSET (1 .. n)
    <3>1. 1 .. last \subseteq 1 .. n
      BY <1>5, SMTT(60)
    <3> QED
      BY <3>1
  <2> HIDE DEF sets
  <2> QED
    BY <2>1, Extremes
<1>7. bad # {} => last \in DOMAIN c.got
  BY <1>4
<1> HIDE DEF bad, last, sets
<1>8. d \in Client
  <2>1. CASE sets = {}
    BY <1>1, <2>1
  <2>2. CASE sets # {}
    <3>1. c.got[Max(sets)] \in Response
      BY <1>3, <1>6, <2>2
    <3>2. c.got[Max(sets)].addresses \in SUBSET Thread
      BY <3>1 DEF Response
    <3>3. KeyOf[c.call] \in Key
      BY <1>1, CallAssumption
    <3> QED
      BY <1>1, <2>2, <3>2, <3>3 DEF check_tuple, Client
  <2> QED
    BY <2>1, <2>2
<1>9. /\ d.call = c.call /\ d.left = c.left /\ d.got = c.got /\ d.first = c.first
      /\ d.next = c.next /\ d.sent = c.sent
  BY <1>1 DEF check_tuple, Client
<1> HIDE DEF d
<1>10. Answers(d) = Answers(c)
  BY <1>9 DEF Answers
<1>11. InCall(d, M)
  BY <1>1, <1>8, <1>9, <1>10 DEF InCall, Numbers
<1>12. CASE bad = {}
  <2>1. After([c |-> [d EXCEPT !.at = "return"], out |-> {}], d, M)
    <3>1. Many[d.call] /\ d.got # <<>> =>
            {d.got[i].from : i \in DOMAIN d.got} = d.sent
      BY <1>1, <1>9, SMTT(60)
    <3> QED
      BY <1>11, <3>1, Returns
  <2> QED
    BY <1>2, <1>9, <1>10, <1>12, <2>1, Same
<1>13. CASE bad # {}
  <2>1. <<c.got[last]>> \in Seq(Response) /\ c.got[last] \in Answers(c)
    BY <1>3, <1>7, <1>13, SMTT(60) DEF Answers
  <2>2. e \in Client
    BY <1>8, <2>1 DEF Client
  <2>3. /\ e.call = c.call /\ e.left = c.left /\ e.got = c.got
        /\ e.next = c.next /\ e.sent = c.sent
        /\ Many[c.call] => e.first = c.first
        /\ e.first = c.first \/ e.first = <<c.got[last]>>
    BY <1>8, <1>9 DEF Client
  <2> HIDE DEF e
  <2>4. Answers(e) \subseteq Answers(c)
    <3>1. \A i \in DOMAIN e.first : e.first[i] \in Answers(c)
      BY <2>1, <2>3, SMTT(60) DEF Answers
    <3> QED
      BY <2>3, <3>1 DEF Answers
  <2>5. InCall(e, M)
    BY <1>1, <2>2, <2>3, <2>4 DEF InCall, Numbers
  <2>6. \A o \in Retry(e) : After(o, e, M)
    BY <1>1, <2>3, <2>5, Retries
  <2> QED
    BY <1>2, <1>13, <2>3, <2>4, <2>6, Same
<1> QED
  BY <1>12, <1>13

LEMMA AnswersTyped ==
  ASSUME NEW c \in Client
  PROVE  Answers(c) \subseteq Response
  BY SMTT(60) DEF Answers, Client

(* What a call returns are answers that it has, and put_all and get_all    *)
(* return all of them.                                                     *)
LEMMA Outcomes ==
  ASSUME NEW c, NEW M, InCall(c, M)
  PROVE  /\ Outcome(c).status \in {"ok", "missing", "bad"}
         /\ Outcome(c).answers \subseteq Answers(c)
         /\ Outcome(c).answers \subseteq Response
         /\ Many[c.call] /\ Outcome(c).status = "ok" =>
              /\ c.got # <<>>
              /\ Outcome(c).answers = {c.got[i] : i \in DOMAIN c.got}
<1>1. c \in Client
  BY DEF InCall, Numbers
<1>2. DOMAIN c.got = 1 .. Len(c.got) /\ DOMAIN c.first = 1 .. Len(c.first)
  BY <1>1, SMTT(60) DEF Client
<1>3. c.first # <<>> => 1 \in DOMAIN c.first
  BY <1>1, <1>2, SMTT(60) DEF Client
<1>4. Answers(c) \subseteq Response
  BY <1>1, AnswersTyped
<1> DEFINE answers == IF Many[c.call] \/ c.first = <<>>
                      THEN {c.got[i] : i \in 1 .. Len(c.got)} ELSE {c.first[1]}
<1>5. answers \subseteq Answers(c)
  BY <1>2, <1>3 DEF Answers
<1>6. Outcome(c) = IF answers = {} THEN Bad
                   ELSE IF Type[c.call] = "put" THEN PutReturns(answers) ELSE GetReturns(answers)
  BY DEF Outcome
<1>7. Many[c.call] => answers = {c.got[i] : i \in DOMAIN c.got}
  BY <1>2
<1>8. Many[c.call] /\ c.got = <<>> => answers = {}
  BY <1>7, SMTT(60)
<1> HIDE DEF answers
<1>9. \/ Outcome(c).status = "ok" /\ Outcome(c).answers = answers /\ answers # {}
      \/ Outcome(c).status \in {"missing", "bad"} /\ Outcome(c).answers = {}
  BY <1>6, SMTT(60) DEF Bad, PutReturns, GetReturns
<1> QED
  BY <1>4, <1>5, <1>7, <1>8, <1>9


LEMMA GivesUp ==
  ASSUME NEW c, NEW M, InCall(c, M)
  PROVE  After([c |-> [c EXCEPT !.at = "return", !.got = <<>>], out |-> {}], c, M)
<1> DEFINE d == [c EXCEPT !.at = "return", !.got = <<>>]
<1>1. c \in Client /\ <<>> \in Seq(Response)
  BY SMTT(60) DEF InCall, Numbers
<1>2. d \in Client
  BY <1>1 DEF Client
<1>3. /\ d.at = "return" /\ d.call = c.call /\ d.got = <<>> /\ d.first = c.first
      /\ d.next = c.next /\ d.sent = c.sent
  BY <1>1 DEF Client
<1> HIDE DEF d
<1>4. Answers(d) \subseteq Answers(c)
  BY <1>3, SMTT(60) DEF Answers
<1>5. InCall(d, M \cup {})
  <2>1. M \cup {} = M
    OBVIOUS
  <2> QED
    BY <1>2, <1>3, <1>4, <2>1 DEF InCall, Numbers
<1>6. Active(d, M \cup {})
  BY <1>3, <1>5 DEF Active
<1> QED
  BY <1>3, <1>4, <1>6 DEF After, d

LEMMA Fewer ==
  ASSUME NEW c, NEW M, NEW N, Data(N) \subseteq Data(M)
  PROVE  /\ Idle(c, M) => Idle(c, N)
         /\ InCall(c, M) => InCall(c, N)
         /\ Active(c, M) => Active(c, N)
<1>1. \A m \in N : m.kind = "response" => m \in M
  BY DEF Data
<1>2. Numbers(c, M) => Numbers(c, N)
  BY DEF Numbers
<1>3. InCall(c, M) => InCall(c, N)
  BY <1>1, <1>2 DEF InCall
<1>4. Trial(c, M) => Trial(c, N)
  BY DEF Trial
<1> QED
  BY <1>2, <1>3, <1>4 DEF Idle, Active

------------------------------------------------------------------------------
(* The steps of the client, on the client alone: it begins a call, is told *)
(* addresses, forgets those of servers that do not answer, has an answer,  *)
(* and is between calls.                                                   *)
Begun(c, x, size) ==
  [c EXCEPT !.call = x, !.left = trial_limit, !.next = get_request_id(c).next,
            !.size = size]
Told(c, m) == [c EXCEPT !.key_address_cache[KeyOf[c.call]] = m.ips]
Forgot(c) == [c EXCEPT !.key_address_cache = invalidate_cache_for_worker(@, c.sent)]
Heard(c, m) == [c EXCEPT !.ids = {i \in @ : i[1] # m.rid}, !.got = Append(@, m)]
Over(n, cache) == [NewClient EXCEPT !.next = n, !.key_address_cache = cache]

LEMMA Begins ==
  ASSUME NEW c, NEW M, Idle(c, M), NEW x \in Call, NEW size \in Size,
         NEW d, d = Begun(c, x, size)
  PROVE  /\ \A o \in Try(d) : After(o, d, M)
         /\ d.call = x /\ d.sent = c.sent /\ Answers(d) = {}
<1>1. /\ c \in Client /\ c.ids = {} /\ c.got = <<>> /\ c.first = <<>>
      /\ c.next \in Nat /\ c.next % 2 = 0
      /\ \A m \in Data(M) : m.rid \in 0 .. c.next - 1
  BY DEF Idle, Numbers, Client
<1>2. get_request_id(c).next = c.next + 2
  BY <1>1, NextId, SMTT(60)
<1>3. c.next + 2 \in Nat /\ trial_limit \in 0 .. trial_limit /\ (c.next + 2) % 2 = 0
  BY <1>1, CallAssumption, SMTT(60)
<1>4. d \in Client
  BY <1>1, <1>2, <1>3 DEF Client, Begun
<1>5. /\ d.call = x /\ d.ids = {} /\ d.got = <<>> /\ d.first = <<>>
      /\ d.next = c.next + 2 /\ d.sent = c.sent
  BY <1>1, <1>2 DEF Client, Begun
<1>6. Answers(d) = {}
  BY <1>5, SMTT(60) DEF Answers
<1>7. \A m \in Data(M) : m.rid \in 0 .. (c.next + 2) - 1
  BY <1>1, SMTT(60)
<1>8. InCall(d, M)
  BY <1>3, <1>4, <1>5, <1>6, <1>7 DEF InCall, Numbers
<1> QED
  BY <1>5, <1>6, <1>8, Tries

LEMMA Addressed ==
  ASSUME NEW c, NEW M, Active(c, M), c.at = "routing",
         NEW m, m.rid \in Nat, m.ips \in SUBSET Thread,
         NEW d, d = Told(c, m)
  PROVE  /\ After([c |-> c, out |-> {AddressRequest(m.rid, KeyOf[c.call])}], c, M)
         /\ \A ws \in Workers(d) : After(SendTo(d, ws), c, M)
<1>1. InCall(c, M) /\ Trial(c, M) /\ c \in Client /\ c.call \in Call /\ c.left > 0
  BY DEF Active, InCall, Numbers
<1>2. KeyOf[c.call] \in Key
  BY <1>1, CallAssumption
<1>3. After([c |-> c, out |-> {AddressRequest(m.rid, KeyOf[c.call])}], c, M)
  <2> DEFINE r == AddressRequest(m.rid, KeyOf[c.call])
  <2>1. r \in Asked /\ r.kind = "address_request"
    BY <1>2 DEF AddressRequest, Asked
  <2> HIDE DEF r
  <2>2. Data(M \cup {r}) = Data(M)
    BY <2>1 DEF Data
  <2>3. InCall(c, M \cup {r})
    BY <1>1, <2>1, <2>2 DEF InCall, Numbers
  <2>4. Trial(c, M \cup {r})
    BY <1>1, <2>2 DEF Trial
  <2>5. Active(c, M \cup {r})
    BY <1>1, <2>3, <2>4 DEF Active
  <2> DEFINE o == [c |-> c, out |-> {r}]
  <2>6. o.c = c /\ o.out = {r}
    OBVIOUS
  <2>7. o = [c |-> c, out |-> {AddressRequest(m.rid, KeyOf[c.call])}]
    BY DEF r
  <2> HIDE DEF o
  <2>8. After(o, c, M)
    BY <2>1, <2>5, <2>6 DEF After
  <2> QED
    BY <2>7, <2>8
<1>4. d \in Client
  BY <1>1, <1>2 DEF Client, Told
<1>5. /\ d.call = c.call /\ d.left = c.left /\ d.rid = c.rid
      /\ d.got = c.got /\ d.first = c.first
      /\ d.next = c.next /\ d.sent = c.sent
  BY <1>1 DEF Client, Told
<1>6. Answers(d) = Answers(c)
  BY <1>5, SMTT(60) DEF Answers
<1>7. InCall(d, M)
  BY <1>1, <1>4, <1>5, <1>6 DEF InCall, Numbers
<1>8. d.key_address_cache[KeyOf[c.call]] \in SUBSET Thread
  BY <1>2, <1>4 DEF Client
<1>9. ASSUME NEW ws \in Workers(d) PROVE After(SendTo(d, ws), c, M)
  <2>1. ws \in SUBSET Thread /\ d.left > 0
    BY <1>1, <1>5, <1>8 DEF Workers
  <2>2. CASE Many[d.call]
    BY <1>5, <1>6, <1>7, <2>1, <2>2, SendsToAll, Same
  <2>3. CASE ~ Many[d.call]
    <3>1. d.rid < d.next /\ \A q \in Data(M) : q.rid = d.rid => q.call = d.call
      BY <1>1, <1>5, <2>3 DEF Trial, Mine
    <3>2. \A v, w \in ws : v = w
      BY <2>3 DEF Workers
    <3> QED
      BY <1>5, <1>6, <1>7, <2>1, <2>3, <3>1, <3>2, SendsToOne, Same
  <2> QED
    BY <2>2, <2>3
<1> QED
  BY <1>3, <1>9

LEMMA GivesUpWorkers ==
  ASSUME NEW c, NEW M, InCall(c, M), c.left > 0, NEW d, d = Forgot(c)
  PROVE  \A o \in Retry(d) : After(o, c, M)
<1> DEFINE cache == invalidate_cache_for_worker(c.key_address_cache, c.sent)
<1>1. c \in Client
  BY DEF InCall, Numbers
<1>2. cache \in [Key -> SUBSET Thread]
  BY <1>1 DEF Client, invalidate_cache_for_worker
<1> HIDE DEF cache
<1>3. d = [c EXCEPT !.key_address_cache = cache]
  BY DEF cache, Forgot
<1>4. d \in Client
  BY <1>1, <1>2, <1>3 DEF Client
<1>5. /\ d.call = c.call /\ d.left = c.left /\ d.got = c.got
      /\ d.first = c.first /\ d.next = c.next
      /\ d.sent = c.sent
  BY <1>1, <1>3 DEF Client
<1>6. Answers(d) = Answers(c)
  BY <1>5, SMTT(60) DEF Answers
<1>7. InCall(d, M)
  BY <1>4, <1>5, <1>6 DEF InCall, Numbers
<1>8. \A o \in Retry(d) : After(o, d, M)
  BY <1>5, <1>7, Retries
<1> QED
  BY <1>5, <1>6, <1>8, Same

(* The client c has taken answer m off the messages, and is d now.         *)
AnswerTaken(c, d, m, M) ==
  /\ d.ids = {} => \A o \in CheckAll(d) : After(o, d, M \ {m})
  /\ d.ids # {} => After([c |-> d, out |-> {}], d, M \ {m})
  /\ d.call = c.call /\ d.sent = c.sent
  /\ Answers(d) \subseteq Answers(c) \cup {m}

LEMMA Answered ==
  ASSUME NEW c, NEW M, Active(c, M), c.at = "servers", NEW m \in M, m \in Response,
         \E i \in c.ids : i[1] = m.rid,
         NEW d, d = Heard(c, m)
  PROVE  AnswerTaken(c, d, m, M)
<1> DEFINE ids == {i \in c.ids : i[1] # m.rid}
           got == Append(c.got, m)
           N == M \ {m}
<1>1. /\ InCall(c, M) /\ Trial(c, M) /\ c \in Client /\ c.call \in Call /\ c.left > 0
  BY DEF Active, InCall, Numbers
<1>2. m \in Data(M) /\ m.kind = "response"
  BY DEF Data, Response
<1>3. m.call = c.call
  <2>1. m.rid \in Mine(c)
    BY DEF Mine
  <2> QED
    BY <1>1, <1>2, <2>1 DEF Trial
<1>4. PICK n \in Nat : /\ DOMAIN c.got = 1 .. n /\ DOMAIN got = 1 .. n + 1
                       /\ \A i \in 1 .. n : got[i] = c.got[i]
                       /\ got[n + 1] = m
                       /\ got \in Seq(Response)
  <2>1. c.got \in Seq(Response)
    BY <1>1 DEF Client
  <2>2. got \in Seq(Response)
    BY <2>1, SMTT(60)
  <2>3. PICK n \in Nat : n = Len(c.got)
    BY <2>1, SMTT(60)
  <2>4. DOMAIN c.got = 1 .. n /\ DOMAIN got = 1 .. n + 1
    BY <2>1, <2>3, SMTT(60)
  <2>5. got[n + 1] = m /\ \A i \in 1 .. n : got[i] = c.got[i]
    BY <2>1, <2>3, SMTT(60)
  <2> QED
    BY <2>2, <2>4, <2>5
<1>5. ids \in SUBSET (Nat \X Thread) /\ ids \subseteq c.ids
  BY <1>1 DEF Client
<1>6. d = [c EXCEPT !.ids = ids, !.got = got]
  BY DEF Heard
<1> HIDE DEF got, ids
<1>7. d \in Client
  BY <1>1, <1>4, <1>5, <1>6 DEF Client
<1>8. /\ d.at = c.at /\ d.call = c.call /\ d.left = c.left /\ d.rid = c.rid
      /\ d.ids = ids /\ d.got = got /\ d.first = c.first
      /\ d.next = c.next /\ d.sent = c.sent
  BY <1>1, <1>6 DEF Client
<1>9. \A i \in 1 .. n + 1 : i \in 1 .. n \/ i = n + 1
  BY SMTT(60)
<1>10. Answers(d) \subseteq Answers(c) \cup {m}
  BY <1>4, <1>8, <1>9, SMTT(60) DEF Answers
<1>11. Data(N) \subseteq Data(M)
  BY DEF Data
<1>12. InCall(d, N)
  BY <1>1, <1>3, <1>7, <1>8, <1>10, <1>11 DEF InCall, Numbers
<1>13. Trial(d, N)
  <2>1. Mine(d) \subseteq Mine(c)
    BY <1>5, <1>8 DEF Mine
  <2>2. Many[d.call] => {d.got[i].from : i \in DOMAIN d.got} \cup {i[2] : i \in d.ids} = d.sent
    <3> SUFFICES ASSUME Many[c.call]
                 PROVE  {got[i].from : i \in DOMAIN got} \cup {i[2] : i \in ids} = c.sent
      BY <1>8, SMTT(60)
    <3>1. {c.got[i].from : i \in DOMAIN c.got} \cup {i[2] : i \in c.ids} = c.sent
      BY <1>1 DEF Trial
    <3>2. \A i \in c.ids : i[1] = m.rid => i[2] = m.from
      BY <1>1, <1>2 DEF Trial, Peer
    <3>3. n + 1 \in 1 .. n + 1 /\ \A i \in 1 .. n : i \in 1 .. n + 1
      BY SMTT(60)
    <3>4. {got[i].from : i \in DOMAIN got} = {c.got[i].from : i \in DOMAIN c.got} \cup {m.from}
      BY <1>4, <1>9, <3>3, SMTT(60)
    <3>5. {i[2] : i \in c.ids} = {i[2] : i \in ids} \cup {m.from}
      BY <3>2 DEF ids
    <3> QED
      BY <3>1, <3>4, <3>5
  <2>3. \A r \in Mine(d) : r < d.next
    BY <1>1, <1>8, <2>1 DEF Trial
  <2>4. \A q \in Data(N) : q.rid \in Mine(d) => q.call = d.call
    BY <1>1, <1>8, <1>11, <2>1 DEF Trial
  <2>5. /\ Many[d.call] => \A q \in Data(N), i \in d.ids : i[1] = q.rid => i[2] = Peer(q)
        /\ ~ Many[d.call] => \A i \in d.ids : i[1] = d.rid
        /\ \A i, j \in d.ids : i[1] = j[1] => i = j
    BY <1>1, <1>5, <1>8, <1>11 DEF Trial
  <2> QED
    BY <2>2, <2>3, <2>4, <2>5 DEF Trial
<1>14. Active(d, N)
  BY <1>1, <1>8, <1>12, <1>13 DEF Active
<1>15. d.ids = {} => \A o \in CheckAll(d) : After(o, d, N)
  BY <1>8, <1>14, Checks
<1>16. d.ids # {} => After([c |-> d, out |-> {}], d, N)
  <2>1. N \cup {} = N
    OBVIOUS
  <2> QED
    BY <1>8, <1>14, <2>1 DEF After
<1> QED
  BY <1>8, <1>10, <1>15, <1>16 DEF AnswerTaken

(* The client between calls.                                               *)
LEMMA Ended ==
  ASSUME NEW n \in Nat, n % 2 = 0, NEW cache \in [Key -> SUBSET Thread],
         NEW M, \A m \in Data(M) : m.rid \in 0 .. n - 1,
         NEW d, d = Over(n, cache)
  PROVE  Idle(d, M) /\ Answers(d) = {}
<1>1. <<>> \in Seq(Response) /\ 0 \in 0 .. trial_limit /\ 0 \in Nat /\ 0 \in Size
  BY CallAssumption, SMTT(60) DEF Size
<1>2. d \in Client
  BY <1>1 DEF NewClient, Client, Over
<1>3. d.at = "idle" /\ d.ids = {} /\ d.got = <<>> /\ d.first = <<>> /\ d.next = n
  BY DEF NewClient, Over
<1> QED
  BY <1>2, <1>3, SMTT(60) DEF Idle, Numbers, Answers

LEMMA Unused ==
  ASSUME NEW M, Data(M) = {}
  PROVE  Idle(NewClient, M) /\ Answers(NewClient) = {}
<1>1. <<>> \in Seq(Response) /\ 0 \in 0 .. trial_limit /\ 0 \in Nat /\ 0 \in Size /\ 0 % 2 = 0
  BY CallAssumption, SMTT(60) DEF Size
<1>2. NewClient \in Client
  BY <1>1 DEF NewClient, Client
<1>3. /\ NewClient.at = "idle" /\ NewClient.ids = {} /\ NewClient.got = <<>>
      /\ NewClient.first = <<>> /\ NewClient.next = 0
  BY DEF NewClient
<1> QED
  BY <1>1, <1>2, <1>3, SMTT(60) DEF Idle, Numbers, Answers

LEMMA Cleared ==
  ASSUME NEW c, NEW M, Idle(c, M), NEW cache \in [Key -> SUBSET Thread],
         NEW d, d = [c EXCEPT !.key_address_cache = cache]
  PROVE  Idle(d, M) /\ Answers(d) = {}
<1>1. c \in Client
  BY DEF Idle, Numbers
<1>2. d \in Client
  BY <1>1 DEF Client
<1>3. d.at = c.at /\ d.ids = c.ids /\ d.got = c.got /\ d.first = c.first /\ d.next = c.next
  BY <1>1 DEF Client
<1> QED
  BY <1>2, <1>3, SMTT(60) DEF Idle, Numbers, Answers

(* A server answers a request.                                             *)
LEMMA Replied ==
  ASSUME NEW c, NEW M, NEW m \in M, m \in Request, NEW r \in Response,
         r.rid = m.rid, r.call = m.call, r.from = m.to, NEW N, N = (M \ {m}) \cup {r}
  PROVE  /\ Idle(c, M) => Idle(c, N)
         /\ Active(c, M) => Active(c, N)
<1>1. m \in Data(M) /\ Peer(r) = Peer(m)
  BY DEF Data, Peer, Request, Response
<1>2. \A q \in Data(N) : q \in Data(M) \/ q = r
  BY DEF Data
<1>3. Numbers(c, M) => Numbers(c, N)
  BY <1>1, <1>2 DEF Numbers
<1>4. InCall(c, M) => InCall(c, N)
  BY <1>3 DEF InCall
<1>5. Trial(c, M) => Trial(c, N)
  BY <1>1, <1>2 DEF Trial
<1> QED
  BY <1>3, <1>4, <1>5 DEF Idle, Active

------------------------------------------------------------------------------
(* The messages and the routing node, by their types.                      *)
Message ==
  [kind : {"address"}, rid : Nat, key : Key, error : {0, 1}, ips : SUBSET Thread]
    \cup [kind : {"factor_request"}, key : Key, to : Thread]
    \cup [kind : {"factor"}, key : Key, error : 0 .. 2, version : Version]
    \cup [kind : {"change"}, key : Key, version : Version]
    \cup [kind : {"join", "depart"}, node : Node]
    \cup Asked \cup Request \cup Response

Routing ==
  [up : BOOLEAN, ring : SUBSET Node, key_replication_map : [Key -> Version \cup {Unknown}],
   pending_requests : SUBSET (Key \X Nat)]

Results == [Call -> [status : {"none", "ok", "missing", "bad"}, answers : SUBSET Response]]

------------------------------------------------------------------------------
(* The client, against the messages.                                       *)
ClientSide ==
  IF client.at = "idle" THEN Idle(client, msgs)
  ELSE client.at # "return" /\ Active(client, msgs)

------------------------------------------------------------------------------
(* The servers.  What has been answered to a PUT is stored by some thread, *)
(* or PUTs of another lattice type have been made.                         *)
Held(c) == \E p \in Thread : c \in store[p][KeyOf[c]]
Stored(m) ==
  Type[m.call] = "put" /\ m.error = 0 => Mixed(m.call) \/ Held(m.call)

Types ==
  /\ routing \in Routing
  /\ members \subseteq Node
  /\ factor \in [Key -> Version]
  /\ store \in Store
  /\ msgs \subseteq Message
  /\ results \in Results
  /\ faults \in 0 .. MaxFaults

(* What is stored for a key are PUTs of the key that have been made.       *)
Servers ==
  \A p \in Thread, k \in Key : \A c \in store[p][k] :
    c \in Call \ todo /\ Type[c] = "put" /\ KeyOf[c] = k

Calls ==
  /\ client.at # "idle" => client.call \notin todo
  /\ \A m \in Data(msgs) : m.call \notin todo
  /\ \A m \in msgs : m.kind = "response" => Stored(m)
  /\ \A m \in Answers(client) : Stored(m)
  /\ \A c \in Call : \A m \in results[c].answers : m.call = c /\ Stored(m)

ClientInv == ClientSide /\ Types /\ Servers /\ Calls

LEMMA Kinds ==
  ASSUME NEW m \in Message
  PROVE  /\ m.kind \in {"address_request", "address"} => m.rid \in Nat /\ m.key \in Key
         /\ m.kind = "address" => m.ips \in SUBSET Thread
         /\ m.kind = "factor_request" => m.key \in Key /\ m.to \in Thread
         /\ m.kind = "factor" => m.key \in Key /\ m.version \in Version
         /\ m.kind = "change" => m.key \in Key /\ m.version \in Version
         /\ m.kind \in {"join", "depart"} => m.node \in Node
         /\ m.kind = "request" => m \in Request
         /\ m.kind = "response" => m \in Response
  BY DEF Message, Asked, Request, Response

LEMMA AllAnswers ==
  ASSUME ClientInv
  PROVE  /\ client \in Client /\ Answers(client) \subseteq Response
         /\ \A m \in msgs : m.kind = "response" => m \in Response
         /\ \A c \in Call : results[c].answers \subseteq Response
<1>1. client \in Client
  BY DEF ClientInv, ClientSide, Idle, Active, InCall, Numbers
<1>2. \A m \in msgs : m.kind = "response" => m \in Response
  BY Kinds DEF ClientInv, Types
<1>3. \A c \in Call : results[c].answers \subseteq Response
  BY DEF ClientInv, Types, Results
<1> QED
  BY <1>1, <1>2, <1>3, AnswersTyped

------------------------------------------------------------------------------
(* The servers keep what they store, or have mixed the lattice types.      *)
Kept ==
  /\ todo' \subseteq todo
  /\ \A c \in Call : Type[c] = "put" /\ Held(c) => Held(c)' \/ Mixed(c)'

LEMMA StoredKept ==
  ASSUME Kept, NEW m \in Response, Stored(m)
  PROVE  Stored(m)'
<1>1. m.call \in Call
  BY DEF Response
<1>2. Mixed(m.call) => Mixed(m.call)'
  BY DEF Mixed, Kept
<1> QED
  BY <1>1, <1>2 DEF Stored, Kept

LEMMA AllStored ==
  ASSUME ClientInv, Kept
  PROVE  /\ \A m \in msgs : m.kind = "response" => Stored(m)'
         /\ \A m \in Answers(client) : Stored(m)'
         /\ \A c \in Call : \A m \in results[c].answers : m.call = c /\ Stored(m)'
<1>1. Calls
  BY DEF ClientInv
<1>2. \A m \in Response : Stored(m) => Stored(m)'
  BY StoredKept
<1> QED
  BY <1>1, <1>2, AllAnswers DEF Calls

------------------------------------------------------------------------------
(* The steps of the client.                                                *)
(* What a call returns, for the client c that was in it.                   *)
Returned(c) ==
  \A x \in Call : results'[x] # results[x] =>
    /\ x = c.call
    /\ \A m \in results'[x].answers : m \in Answers(c) /\ m.call = x
    /\ Many[x] /\ results'[x].status = "ok" =>
         {m.from : m \in results'[x].answers} = c.sent

LEMMA Becomes ==
  ASSUME ClientInv, NEW c, NEW outs, NEW ms, Become(outs, ms),
         UNCHANGED <<routing, members, factor, store>>, faults' \in 0 .. MaxFaults,
         todo' \subseteq todo, c.call \in Call, c.call \notin todo',
         \A m \in Answers(c) : m \in Response /\ Stored(m),
         \A o \in outs : After(o, c, msgs \ ms)
  PROVE  ClientInv' /\ Returned(c)
<1>1. PICK o \in outs :
        /\ msgs' = (msgs \ ms) \cup o.out
        /\ IF o.c.at # "return" THEN client' = o.c /\ UNCHANGED results
           ELSE /\ results' = [results EXCEPT ![o.c.call] = Outcome(o.c)]
                /\ client' = [NewClient EXCEPT !.next = o.c.next,
                                !.key_address_cache = o.c.key_address_cache]
  BY DEF Become
<1>2. /\ Active(o.c, msgs') /\ InCall(o.c, msgs') /\ o.c \in Client
      /\ o.c.call = c.call
      /\ o.c.at = "return" => o.c.sent = c.sent
      /\ \A m \in o.out : m \in Asked \/ (m \in Request /\ m.call = c.call)
      /\ Answers(o.c) \subseteq Answers(c)
  BY <1>1 DEF After, Active, InCall, Numbers
<1>3. Kept
  BY DEF Kept, Held
<1>4. /\ Types /\ Servers /\ Calls
  BY DEF ClientInv
<1>5. \A m \in Answers(c) : Stored(m)'
  BY <1>3, StoredKept
<1>6. /\ \A m \in o.out : m \in Message /\ m.kind # "response"
      /\ \A m \in o.out : m.kind = "request" => m.call = c.call
  BY <1>2 DEF Message, Asked, Request
<1>7. \A m \in Data(msgs') : m.call \notin todo'
  BY <1>1, <1>4, <1>6 DEF Calls, Data
<1>8. \A m \in msgs' : m.kind = "response" => Stored(m)'
  BY <1>1, <1>3, <1>6, AllStored
<1>9. /\ msgs' \subseteq Message
      /\ \A x \in Call : \A m \in results[x].answers : m.call = x /\ Stored(m)'
  BY <1>1, <1>3, <1>4, <1>6, AllStored DEF Types
<1>10. Servers'
  BY <1>4 DEF Servers
<1>11. CASE o.c.at # "return"
  <2>1. client' = o.c /\ results' = results
    BY <1>1, <1>11
  <2>2. o.c.at \in {"routing", "servers"}
    BY <1>2, <1>11 DEF Active
  <2>3. ClientSide'
    BY <1>2, <2>1, <2>2 DEF ClientSide
  <2>4. Types'
    BY <1>4, <1>9, <2>1 DEF Types
  <2>5. Calls'
    BY <1>2, <1>5, <1>7, <1>8, <1>9, <2>1 DEF Calls
  <2>6. Returned(c)
    BY <2>1 DEF Returned
  <2> QED
    BY <1>10, <2>3, <2>4, <2>5, <2>6 DEF ClientInv
<1>12. CASE o.c.at = "return"
  <2>1. /\ results' = [results EXCEPT ![c.call] = Outcome(o.c)]
        /\ client' = Over(o.c.next, o.c.key_address_cache)
    BY <1>1, <1>2, <1>12 DEF Over
  <2>2. Idle(client', msgs') /\ Answers(client') = {}
    <3>1. o.c.next \in Nat /\ o.c.key_address_cache \in [Key -> SUBSET Thread]
      BY <1>2 DEF Client
    <3> QED
      BY <1>2, <2>1, <3>1, Ended DEF InCall, Numbers
  <2>3. client'.at = "idle"
    BY <2>2 DEF Idle
  <2>4. ClientSide'
    BY <2>2, <2>3 DEF ClientSide
  <2>5. /\ Outcome(o.c).status \in {"ok", "missing", "bad"}
        /\ Outcome(o.c).answers \subseteq Answers(o.c)
        /\ Outcome(o.c).answers \subseteq Response
        /\ Many[c.call] /\ Outcome(o.c).status = "ok" =>
             /\ o.c.got # <<>>
             /\ Outcome(o.c).answers = {o.c.got[i] : i \in DOMAIN o.c.got}
    BY <1>2, Outcomes
  <2>6. results \in Results
    BY <1>4 DEF Types, Results
  <2>7. Outcome(o.c) \in [status : {"none", "ok", "missing", "bad"}, answers : SUBSET Response]
    BY <2>5 DEF Outcome, Bad, PutReturns, GetReturns
  <2>8. results' \in Results /\ results'[c.call] = Outcome(o.c)
        /\ \A x \in Call : x # c.call => results'[x] = results[x]
    BY <2>1, <2>6, <2>7 DEF Results
  <2>9. Types'
    BY <1>4, <1>9, <2>8 DEF Types
  <2>10. \A m \in Outcome(o.c).answers : m \in Answers(c) /\ m.call = c.call
    BY <1>2, <2>5 DEF InCall
  <2>11. Calls'
    <3>1. \A x \in Call : \A m \in results'[x].answers : m.call = x /\ Stored(m)'
      BY <1>5, <1>9, <2>8, <2>10
    <3> QED
      BY <1>7, <1>8, <2>2, <2>3, <3>1 DEF Calls
  <2>12. Many[c.call] /\ Outcome(o.c).status = "ok" =>
           {m.from : m \in Outcome(o.c).answers} = c.sent
    <3> SUFFICES ASSUME Many[c.call], Outcome(o.c).status = "ok"
                 PROVE  {m.from : m \in Outcome(o.c).answers} = c.sent
      OBVIOUS
    <3>1. {o.c.got[i].from : i \in DOMAIN o.c.got} = c.sent
      BY <1>2, <1>12, <2>5 DEF Active
    <3> QED
      BY <2>5, <3>1, SMTT(60)
  <2>13. Returned(c)
    BY <2>8, <2>10, <2>12 DEF Returned
  <2> QED
    BY <1>10, <2>4, <2>9, <2>11, <2>13 DEF ClientInv
<1> QED
  BY <1>11, <1>12

(* A client in a call, as the invariant has it.                            *)
LEMMA Calling ==
  ASSUME ClientInv, client.at # "idle"
  PROVE  /\ Active(client, msgs) /\ InCall(client, msgs) /\ client.left > 0
         /\ client.call \in Call /\ client.call \notin todo
         /\ \A m \in Answers(client) : m \in Response /\ Stored(m)
<1>1. Active(client, msgs) /\ InCall(client, msgs) /\ client.left > 0 /\ client.call \in Call
  BY DEF ClientInv, ClientSide, Active, InCall
<1> QED
  BY <1>1, AllAnswers DEF ClientInv, Calls, Servers

LEMMA IssueStep ==
  ASSUME ClientInv, NEW x \in Call, Issue(x)
  PROVE  ClientInv' /\ \E c : Returned(c) /\ c.sent = client.sent /\ Answers(c) = {}
<1>1. PICK size : size = Cardinality(client.key_address_cache[KeyOf[x]])
  OBVIOUS
<1>2. PICK d : d = Begun(client, x, size)
  OBVIOUS
<1>3. Become(Try(d), {}) /\ todo' = todo \ {x} /\ x \in todo /\ client.at = "idle"
      /\ UNCHANGED <<routing, members, factor, store, faults>>
  BY <1>1, <1>2 DEF Issue, Begun
<1>4. Types /\ Servers /\ Calls /\ Idle(client, msgs) /\ store \in Store
  BY <1>3 DEF ClientInv, ClientSide, Types
<1>5. size \in Size
  <2>1. client.key_address_cache[KeyOf[x]] \in SUBSET Thread
    BY AllAnswers, CallAssumption DEF Client
  <2> QED
    BY <1>1, <2>1 DEF Size
<1>7. /\ \A o \in Try(d) : After(o, d, msgs)
      /\ d.call = x /\ d.sent = client.sent /\ Answers(d) = {}
  BY <1>2, <1>4, <1>5, Begins, SMTT(60)
<1>8. \A o \in Try(d) : After(o, d, msgs \ {})
  <2>1. msgs \ {} = msgs
    OBVIOUS
  <2> QED
    BY <1>7, <2>1
<1>10. faults' \in 0 .. MaxFaults /\ todo' \subseteq todo /\ d.call \notin todo'
  BY <1>3, <1>4, <1>7 DEF Types
<1>11. ClientInv' /\ Returned(d)
  BY <1>3, <1>7, <1>8, <1>10, Becomes
<1> QED
  BY <1>7, <1>11

LEMMA Continues ==
  ASSUME ClientInv, client.at # "idle", NEW outs, NEW ms, Become(outs, ms),
         UNCHANGED <<routing, members, factor, store, todo>>, faults' \in 0 .. MaxFaults,
         \A o \in outs : After(o, client, msgs \ ms)
  PROVE  ClientInv' /\ Returned(client)
  BY Calling, Becomes

LEMMA TimeoutSteps ==
  ASSUME ClientInv, TimeoutRouting \/ TimeoutServers
  PROVE  ClientInv' /\ Returned(client)
<1>1. /\ client.at # "idle" /\ faults' \in 0 .. MaxFaults
      /\ UNCHANGED <<routing, members, factor, store, todo>>
  BY SMTT(60) DEF TimeoutRouting, TimeoutServers, Pay, Early, ClientInv, Types
<1>2. InCall(client, msgs \ {}) /\ client.left > 0
  <2>1. msgs \ {} = msgs
    OBVIOUS
  <2> QED
    BY <1>1, <2>1, Calling
<1>3. CASE TimeoutRouting
  <2>1. PICK outs : outs = {[c |-> [client EXCEPT !.at = "return", !.got = <<>>], out |-> {}]}
    OBVIOUS
  <2>2. Become(outs, {})
    BY <1>3, <2>1 DEF TimeoutRouting
  <2>3. \A o \in outs : After(o, client, msgs \ {})
    BY <1>2, <2>1, GivesUp
  <2> QED
    BY <1>1, <2>2, <2>3, Continues
<1>4. CASE TimeoutServers
  <2>1. PICK d : d = Forgot(client)
    OBVIOUS
  <2>2. Become(Retry(d), {})
    BY <1>4, <2>1 DEF TimeoutServers, Forgot
  <2>3. \A o \in Retry(d) : After(o, client, msgs \ {})
    BY <1>2, <2>1, GivesUpWorkers
  <2> QED
    BY <1>1, <2>2, <2>3, Continues
<1> QED
  BY <1>3, <1>4

LEMMA ReceiveAddressStep ==
  ASSUME ClientInv, NEW m \in msgs, ReceiveAddress(m)
  PROVE  ClientInv' /\ Returned(client)
<1>1. PICK d : d = Told(client, m)
  OBVIOUS
<1>2. PICK outs : outs =
        IF m.error = 1
        THEN {[c |-> client, out |-> {AddressRequest(m.rid, KeyOf[client.call])}]}
        ELSE IF m.ips = {}
        THEN {[c |-> [client EXCEPT !.at = "return", !.got = <<>>], out |-> {}]}
        ELSE {SendTo(d, ws) : ws \in Workers(d)}
  OBVIOUS
<1>3. /\ client.at = "routing" /\ m.kind = "address" /\ Become(outs, {m})
      /\ UNCHANGED <<routing, members, factor, store, todo, faults>>
  BY <1>1, <1>2 DEF ReceiveAddress, Told
<1>4. Active(client, msgs \ {m}) /\ InCall(client, msgs \ {m})
  <2>1. Data(msgs \ {m}) \subseteq Data(msgs)
    BY DEF Data
  <2> QED
    BY <1>3, <2>1, Calling, Fewer
<1>5. m.rid \in Nat /\ m.ips \in SUBSET Thread /\ faults' \in 0 .. MaxFaults
  BY <1>3, Kinds DEF ClientInv, Types
<1>6. After([c |-> [client EXCEPT !.at = "return", !.got = <<>>], out |-> {}],
            client, msgs \ {m})
  BY <1>4, GivesUp
<1>7. /\ After([c |-> client, out |-> {AddressRequest(m.rid, KeyOf[client.call])}],
               client, msgs \ {m})
      /\ \A ws \in Workers(d) : After(SendTo(d, ws), client, msgs \ {m})
  BY <1>1, <1>3, <1>4, <1>5, Addressed
<1>8. \A o \in outs : After(o, client, msgs \ {m})
  BY <1>2, <1>6, <1>7
<1> QED
  BY <1>3, <1>5, <1>8, Continues

LEMMA ReceiveResponseStep ==
  ASSUME ClientInv, NEW m \in msgs, ReceiveResponse(m)
  PROVE  ClientInv' /\ \E c : Returned(c) /\ c.sent = client.sent
<1>1. PICK d : d = Heard(client, m)
  OBVIOUS
<1>2. PICK outs : outs = IF d.ids = {} THEN CheckAll(d) ELSE {[c |-> d, out |-> {}]}
  OBVIOUS
<1>3. /\ client.at = "servers" /\ m.kind = "response" /\ Become(outs, {m})
      /\ UNCHANGED <<routing, members, factor, store, todo, faults>>
      /\ \E i \in client.ids : i[1] = m.rid
  BY <1>1, <1>2 DEF ReceiveResponse, Heard
<1>4. /\ Active(client, msgs) /\ client.call \in Call /\ client.call \notin todo'
      /\ \A a \in Answers(client) : a \in Response /\ Stored(a)
  BY <1>3, Calling
<1>5. m \in Response /\ Stored(m) /\ faults' \in 0 .. MaxFaults /\ todo' \subseteq todo
  BY <1>3, AllAnswers DEF ClientInv, Types, Calls
<1>6. /\ d.ids = {} => \A o \in CheckAll(d) : After(o, d, msgs \ {m})
      /\ d.ids # {} => After([c |-> d, out |-> {}], d, msgs \ {m})
      /\ d.call = client.call /\ d.sent = client.sent
      /\ Answers(d) \subseteq Answers(client) \cup {m}
  <2>1. /\ Active(client, msgs) /\ client.at = "servers" /\ m \in Response
        /\ \E i \in client.ids : i[1] = m.rid
    BY <1>3, <1>4, <1>5
  <2>2. AnswerTaken(client, d, m, msgs)
    BY <1>1, <2>1, Answered
  <2> QED
    BY <2>2 DEF AnswerTaken
<1>7. \A o \in outs : After(o, d, msgs \ {m})
  BY <1>2, <1>6
<1>8. \A a \in Answers(d) : a \in Response /\ Stored(a)
  BY <1>4, <1>5, <1>6
<1>9. ClientInv' /\ Returned(d)
  BY <1>3, <1>4, <1>5, <1>6, <1>7, <1>8, Becomes
<1> QED
  BY <1>6, <1>9

------------------------------------------------------------------------------
(* The steps of the routing node and of the servers.                       *)
LEMMA Quiet ==
  ASSUME ClientInv, UNCHANGED <<client, results>>, Kept, Data(msgs') \subseteq Data(msgs)
  PROVE  ClientSide' /\ Calls'
<1>1. ClientSide /\ Servers /\ Calls
  BY DEF ClientInv
<1>2. ClientSide'
  BY <1>1, Fewer DEF ClientSide
<1>4. \A m \in msgs' : m.kind = "response" => m \in msgs
  BY DEF Data
<1>5. Calls'
  BY <1>1, <1>4, AllStored DEF Calls, Kept
<1> QED
  BY <1>2, <1>5

LEMMA ThreadsTyped ==
  ASSUME NEW ns \in SUBSET Node, NEW k, NEW v, NEW tiers
  PROVE  /\ get_responsible_threads(ns, k, v, tiers) \in SUBSET Thread
         /\ get_responsible_threads_metadata(ns, k) \in SUBSET Thread
<1>1. \A S, rank, n : FirstOnWalk(S, rank, n) \subseteq S
  BY DEF FirstOnWalk
<1>2. \A t : InTier(ns, t) \subseteq Node
  BY DEF InTier
<1>3. \A t : /\ responsible_global(ns, k, t, RepOf[v]) \subseteq Node
             /\ responsible_local(k, t, RepOf[v]) \subseteq Tid
  BY <1>1, <1>2 DEF responsible_global, responsible_local
<1>4. \A t : responsible_global(ns, k, t, RepOf[v]) \X responsible_local(k, t, RepOf[v])
             \subseteq Thread
  BY <1>3 DEF Thread
<1>5. get_responsible_threads(ns, k, v, tiers) \in SUBSET Thread
  BY <1>4 DEF get_responsible_threads
<1>6. /\ FirstOnWalk(InTier(ns, MemTier), MetaRank[k], 1) \subseteq Node
      /\ FirstOnWalk(Tid, MetaTidRank[k], MetaLocalRep) \subseteq Tid
  BY <1>1, <1>2
<1>7. get_responsible_threads_metadata(ns, k) \in SUBSET Thread
  BY <1>6 DEF get_responsible_threads_metadata, Thread
<1> QED
  BY <1>5, <1>7

LEMMA StillKept ==
  ASSUME Servers, UNCHANGED <<store, todo>>
  PROVE  Kept /\ Servers'
  BY SMTT(60) DEF Kept, Held, Servers

LEMMA Looked ==
  ASSUME NEW r \in Routing, NEW k \in Key, NEW rest \in SUBSET Message, Lookup(r, k, rest)
  PROVE  /\ routing' \in Routing /\ msgs' \in SUBSET Message
         /\ Data(msgs') \subseteq Data(rest)
<1> DEFINE threads == get_responsible_threads_metadata(r.ring, k)
<1>1. threads \in SUBSET Thread
  BY ThreadsTyped DEF Routing
<1> HIDE DEF threads
<1>2. /\ routing' = [r EXCEPT !.up = threads # {}]
      /\ msgs' = rest \/ \E p \in threads : msgs' = rest \cup {FactorRequest(k, p)}
  BY DEF Lookup, threads
<1>3. routing' \in Routing
  BY <1>2 DEF Routing
<1>4. \A p \in threads : FactorRequest(k, p) \in Message
                         /\ FactorRequest(k, p).kind = "factor_request"
  BY <1>1 DEF FactorRequest, Message
<1> QED
  BY <1>2, <1>3, <1>4 DEF Data

LEMMA RoutingSteps ==
  ASSUME ClientInv, NEW m \in msgs,
         \/ address_handler(m) \/ replication_response_handler(m)
         \/ replication_change_handler(m) \/ membership_handler(m)
  PROVE  ClientInv'
<1>1. Types /\ Servers /\ routing \in Routing /\ msgs \subseteq Message /\ m \in Message
  BY DEF ClientInv, Types
<1>2. UNCHANGED <<client, members, factor, store, results, todo, faults>>
  BY DEF address_handler, replication_response_handler, replication_change_handler,
         membership_handler
<1>3. ASSUME NEW k \in Key, NEW r \in Nat, NEW e \in {0, 1}, NEW ips \in SUBSET Thread
      PROVE  AddressResponse(r, k, e, ips) \in Message
             /\ AddressResponse(r, k, e, ips).kind = "address"
  BY DEF AddressResponse, Message
<1>4. routing' \in Routing /\ msgs' \in SUBSET Message /\ Data(msgs') \subseteq Data(msgs)
  <2>1. CASE address_handler(m)
    <3>1. m.key \in Key /\ m.rid \in Nat
      BY <1>1, <2>1, Kinds DEF address_handler
    <3>2. CASE msgs' = (msgs \ {m}) \cup {AddressResponse(m.rid, m.key, 1, {})}
               /\ UNCHANGED routing
      BY <1>1, <1>3, <3>1, <3>2 DEF Data
    <3>3. CASE Lookup([routing EXCEPT !.pending_requests = @ \cup {<<m.key, m.rid>>}],
                      m.key, msgs \ {m})
      <4>1. [routing EXCEPT !.pending_requests = @ \cup {<<m.key, m.rid>>}] \in Routing
        BY <1>1, <3>1, SMTT(60) DEF Routing
      <4>2. Data(msgs \ {m}) \subseteq Data(msgs) /\ msgs \ {m} \in SUBSET Message
        BY <1>1 DEF Data
      <4> QED
        BY <3>1, <3>3, <4>1, <4>2, Looked
    <3>4. CASE msgs' = (msgs \ {m}) \cup {AddressResponse(m.rid, m.key, 0, Threads(m.key))}
               /\ UNCHANGED routing
      <4>1. Threads(m.key) \in SUBSET Thread
        <5>1. routing.ring \in SUBSET Node
          BY <1>1 DEF Routing
        <5>2. \A tiers : get_responsible_threads(routing.ring, m.key,
                routing.key_replication_map[m.key], tiers) \in SUBSET Thread
          BY <5>1, ThreadsTyped
        <5> QED
          BY <5>2 DEF Threads
      <4> QED
        BY <1>1, <1>3, <3>1, <3>4, <4>1 DEF Data
    <3> QED
      BY <2>1, <3>2, <3>3, <3>4 DEF address_handler
  <2>2. CASE replication_response_handler(m)
    <3>1. m.key \in Key /\ m.version \in Version
      BY <1>1, <2>2, Kinds DEF replication_response_handler
    <3>2. CASE m.error = 2
      <4>1. Data(msgs \ {m}) \subseteq Data(msgs) /\ msgs \ {m} \in SUBSET Message
        BY <1>1 DEF Data
      <4>2. Lookup(routing, m.key, msgs \ {m})
        BY <2>2, <3>2 DEF replication_response_handler
      <4> QED
        BY <1>1, <3>1, <4>1, <4>2, Looked
    <3>3. CASE m.error # 2
      <4> DEFINE waiting == {q \in routing.pending_requests : q[1] = m.key}
                 known == [routing EXCEPT !.key_replication_map[m.key] = m.version]
                 ips == IF get_responsible_threads(routing.ring, m.key, m.version, {MemTier}) # {}
                        THEN get_responsible_threads(routing.ring, m.key, m.version, {MemTier})
                        ELSE get_responsible_threads(routing.ring, m.key, m.version,
                                                     Tier \ {MemTier})
      <4>1. /\ routing' = [known EXCEPT !.pending_requests = @ \ waiting]
            /\ msgs' = (msgs \ {m}) \cup {AddressResponse(q[2], m.key, 0, ips) : q \in waiting}
        BY <2>2, <3>3 DEF replication_response_handler
      <4>2. known \in Routing
        BY <1>1, <3>1 DEF Routing
      <4>3. routing' \in Routing
        <5> HIDE DEF known, waiting
        <5> QED
          BY <4>1, <4>2 DEF Routing
      <4>4. ips \in SUBSET Thread
        <5>1. routing.ring \in SUBSET Node
          BY <1>1 DEF Routing
        <5> QED
          BY <5>1, ThreadsTyped
      <4>5. \A q \in waiting : q[2] \in Nat
        BY <1>1 DEF Routing
      <4> HIDE DEF ips, waiting, known
      <4>6. \A q \in waiting : /\ AddressResponse(q[2], m.key, 0, ips) \in Message
                               /\ AddressResponse(q[2], m.key, 0, ips).kind = "address"
        BY <1>3, <3>1, <4>4, <4>5
      <4> QED
        BY <1>1, <4>1, <4>3, <4>6 DEF Data
    <3> QED
      BY <3>2, <3>3
  <2>3. CASE replication_change_handler(m)
    <3>1. m.key \in Key /\ m.version \in Version
      BY <1>1, <2>3, Kinds DEF replication_change_handler
    <3> QED
      BY <1>1, <2>3, <3>1 DEF replication_change_handler, Routing, Data
  <2>4. CASE membership_handler(m)
    <3>1. m.node \in Node
      BY <1>1, <2>4, Kinds DEF membership_handler
    <3> QED
      BY <1>1, <2>4, <3>1 DEF membership_handler, Routing, Data
  <2> QED
    BY <2>1, <2>2, <2>3, <2>4
<1>5. ClientSide' /\ Servers' /\ Calls'
  BY <1>1, <1>2, <1>4, StillKept, Quiet
<1>6. Types'
  BY <1>1, <1>2, <1>4 DEF Types
<1> QED
  BY <1>5, <1>6 DEF ClientInv


Answer(r, rid, c, p, error, val) ==
  /\ r \in Response /\ r.kind = "response" /\ r.rid = rid /\ r.call = c
  /\ r.from = p /\ r.error = error /\ r.val = val

LEMMA ResponseFields ==
  ASSUME NEW rid \in Nat, NEW c \in Call, NEW p \in Thread, NEW error \in 0 .. 2,
         NEW val \in SUBSET Call, NEW invalidate \in BOOLEAN, NEW addresses \in SUBSET Thread,
         NEW r, r = DataResponse(rid, c, p, error, val, invalidate, addresses)
  PROVE  Answer(r, rid, c, p, error, val)
  BY DEF DataResponse, Response, Answer

LEMMA FactorServed ==
  ASSUME NEW m, ServeFactor(m)
  PROVE  /\ UNCHANGED <<routing, lost>>
         /\ \E e \in 0 .. 2 :
              msgs' = (msgs \ {m}) \cup {FactorResponse(m.key, e, factor[m.key])}
<1> DEFINE mine == m.to \in get_responsible_threads_metadata(members, m.key)
           error == IF ~ mine THEN 2 ELSE IF factor[m.key] = 0 THEN 1 ELSE 0
<1>1. /\ UNCHANGED <<routing, lost>>
      /\ msgs' = (msgs \ {m}) \cup {FactorResponse(m.key, error, factor[m.key])}
  BY DEF ServeFactor
<1> HIDE DEF mine
<1>2. error \in 0 .. 2
  BY SMTT(60)
<1> HIDE DEF error
<1> QED
  BY <1>1, <1>2

(* What is merged with a value is in it, or of another type.               *)
LEMMA Merging ==
  ASSUME NEW val, NEW new
  PROVE  /\ val \subseteq Merged(val, new)
         /\ Merged(val, new) \subseteq val \cup new
         /\ \/ new \subseteq Merged(val, new)
            \/ \E c \in val, d \in new : LatticeOf[c] # LatticeOf[d]
  BY DEF Merged, SameType

LEMMA Grows ==
  ASSUME UNCHANGED todo, \A p \in Thread, k \in Key : store[p][k] \subseteq store'[p][k]
  PROVE  Kept
<1>1. \A c \in Call : KeyOf[c] \in Key
  BY CallAssumption
<1> QED
  BY <1>1 DEF Kept, Held

LEMMA ServeDataStep ==
  ASSUME ClientInv, NEW m \in msgs, ServeData(m)
  PROVE  ClientInv'
<1> DEFINE p == m.to
           k == KeyOf[m.call]
           mine == {q \in Replicas(k) : SelfTier(q) = SelfTier(p)}
           stale == m.size > 0 /\ m.size # Cardinality(mine)
           new == IF Type[m.call] = "put" THEN {m.call} ELSE {}
           val == Merged(store[p][k], new)
           error == IF val = {} THEN 1 ELSE 0
<1>1. /\ m.kind = "request" /\ NodeOf(p) \in members
      /\ \/ /\ p \notin mine
            /\ msgs' = (msgs \ {m}) \cup {DataResponse(m.rid, m.call, p, 2, {}, FALSE, mine)}
            /\ UNCHANGED store
         \/ /\ p \in mine
            /\ \E invalidate \in {stale, FALSE} :
                 msgs' = (msgs \ {m}) \cup
                           {DataResponse(m.rid, m.call, p, error, val, invalidate, {})}
            /\ store' = [store EXCEPT ![p][k] = val]
      /\ UNCHANGED <<client, routing, members, factor, results, todo, faults>>
  BY DEF ServeData
<1>2. Types /\ Servers /\ Calls /\ ClientSide
  BY DEF ClientInv
<1>3. m \in Request /\ m \in Data(msgs)
  BY <1>1, <1>2, Kinds DEF Types, Data
<1>4. m.rid \in Nat /\ m.call \in Call /\ m.call \notin todo /\ p \in Thread /\ k \in Key
  BY <1>2, <1>3, CallAssumption DEF Request, Calls
<1>5. mine \in SUBSET Thread
  <2>1. members \in SUBSET Node
    BY <1>2 DEF Types
  <2> QED
    BY <2>1, ThreadsTyped DEF Replicas
<1>6. /\ store[p][k] \subseteq val /\ val \subseteq store[p][k] \cup new
      /\ new \subseteq val \/ \E c \in store[p][k], d \in new : LatticeOf[c] # LatticeOf[d]
  BY Merging
<1>7. /\ new \subseteq {m.call} /\ (new # {} => Type[m.call] = "put")
      /\ (Type[m.call] = "put" => m.call \in new)
  OBVIOUS
<1>8. stale \in BOOLEAN /\ error \in 0 .. 2 /\ 2 \in 0 .. 2 /\ 2 # 0
  BY SMTT(60)
<1> HIDE DEF mine, val, stale, new, error, p, k
<1>9. val \in SUBSET Call
  BY <1>2, <1>4, <1>6, <1>7 DEF Types, Store
<1>10. PICK reply \in Response :
      /\ msgs' = (msgs \ {m}) \cup {reply}
      /\ reply.kind = "response" /\ reply.rid = m.rid /\ reply.call = m.call /\ reply.from = p
      /\ reply.error = 0 => p \in mine
  <2>1. CASE p \notin mine
    <3>1. PICK r : r = DataResponse(m.rid, m.call, p, 2, {}, FALSE, mine)
      OBVIOUS
    <3>2. Answer(r, m.rid, m.call, p, 2, {})
      BY <1>4, <1>5, <1>8, <3>1, ResponseFields
    <3> QED
      BY <1>1, <1>8, <2>1, <3>1, <3>2 DEF Answer
  <2>2. CASE p \in mine
    <3>1. PICK invalidate \in {stale, FALSE} :
            msgs' = (msgs \ {m}) \cup {DataResponse(m.rid, m.call, p, error, val, invalidate, {})}
      BY <1>1, <2>2
    <3>2. PICK r : r = DataResponse(m.rid, m.call, p, error, val, invalidate, {})
      OBVIOUS
    <3>3. invalidate \in BOOLEAN /\ {} \in SUBSET Thread
      BY <1>8
    <3>4. Answer(r, m.rid, m.call, p, error, val)
      BY <1>4, <1>8, <1>9, <3>2, <3>3, ResponseFields
    <3> QED
      BY <2>2, <3>1, <3>2, <3>4 DEF Answer
  <2> QED
    BY <2>1, <2>2
<1>11. /\ store' \in Store
       /\ p \in mine => store'[p][k] = val
       /\ \A q \in Thread, l \in Key : \/ store'[q][l] = store[q][l]
                                       \/ q = p /\ l = k /\ store'[q][l] = val
  <2>1. store \in [Thread -> [Key -> SUBSET Call]]
    BY <1>2 DEF Types, Store
  <2>2. CASE p \notin mine /\ UNCHANGED store
    BY <2>1, <2>2 DEF Store
  <2>3. CASE p \in mine /\ store' = [store EXCEPT ![p][k] = val]
    <3>1. store' \in [Thread -> [Key -> SUBSET Call]]
      BY <1>4, <1>9, <2>1, <2>3, SMTT(60)
    <3>2. \A q \in Thread, l \in Key :
             store'[q][l] = IF q = p /\ l = k THEN val ELSE store[q][l]
      BY <1>4, <2>1, <2>3, SMTT(60)
    <3> QED
      BY <1>4, <3>1, <3>2 DEF Store
  <2> QED
    BY <1>1, <2>2, <2>3
<1>12. Kept
  BY <1>1, <1>6, <1>11, Grows
<1>13. Types'
  <2>1. reply \in Message
    BY <1>10 DEF Message
  <2> QED
    BY <1>1, <1>2, <1>10, <1>11, <2>1 DEF Types
<1>14. Servers'
  <2> SUFFICES ASSUME NEW q \in Thread, NEW l \in Key, NEW c \in store'[q][l]
               PROVE  c \in Call \ todo' /\ Type[c] = "put" /\ KeyOf[c] = l
    BY DEF Servers
  <2>1. c \in store[q][l] \/ (l = k /\ c = m.call /\ Type[m.call] = "put")
    BY <1>6, <1>7, <1>11
  <2>2. CASE c \in store[q][l]
    BY <1>1, <1>2, <2>2, SMTT(60) DEF Servers
  <2>3. CASE l = k /\ c = m.call /\ Type[m.call] = "put"
    BY <1>1, <1>4, <2>3 DEF k
  <2> QED
    BY <2>1, <2>2, <2>3
<1>15. Stored(reply)'
  <2> SUFFICES ASSUME Type[m.call] = "put", p \in mine
               PROVE  Mixed(m.call)' \/ Held(m.call)'
    BY <1>10 DEF Stored
  <2>1. CASE m.call \in val
    BY <1>4, <1>11, <2>1 DEF Held, k
  <2>2. CASE m.call \notin val
    <3>1. PICK c \in store[p][k] : LatticeOf[c] # LatticeOf[m.call]
      BY <1>6, <1>7, <2>2
    <3>2. c \in Call \ todo /\ Type[c] = "put" /\ KeyOf[c] = k
      BY <1>2, <1>4, <3>1 DEF Servers
    <3> QED
      BY <1>1, <3>1, <3>2 DEF Mixed, k
  <2> QED
    BY <2>1, <2>2
<1>16. Calls'
  <2>1. \A q \in msgs' : q.kind = "response" => Stored(q)'
    BY <1>10, <1>12, <1>15, AllStored
  <2>2. \A q \in Data(msgs') : q.call \notin todo'
    BY <1>1, <1>2, <1>3, <1>10 DEF Calls, Data
  <2> QED
    BY <1>1, <1>2, <1>12, <2>1, <2>2, AllStored DEF Calls
<1>17. ClientSide'
  BY <1>1, <1>2, <1>3, <1>10, Replied, SMTT(60) DEF ClientSide, p
<1> QED
  BY <1>13, <1>14, <1>16, <1>17 DEF ClientInv

(* Gossip, and a thread that gives a key up.                               *)
LEMMA GossipStep ==
  ASSUME ClientInv, NEW p \in Thread, NEW q \in Thread, NEW k \in Key, Gossip(p, q, k)
  PROVE  Kept /\ Servers' /\ store' \in Store
<1> DEFINE val == Merged(store[q][k], store[p][k])
<1>1. store' = [store EXCEPT ![q][k] = val] /\ UNCHANGED todo
  BY DEF Gossip
<1>2. store \in Store /\ Servers
  BY DEF ClientInv, Types
<1>3. store[q][k] \subseteq val /\ val \subseteq store[q][k] \cup store[p][k]
  BY Merging
<1> HIDE DEF val
<1>4. val \in SUBSET Call
  BY <1>2, <1>3 DEF Store
<1>5. /\ store' \in Store
      /\ \A r \in Thread, l \in Key : \/ store'[r][l] = store[r][l]
                                      \/ r = q /\ l = k /\ store'[r][l] = val
  BY <1>1, <1>2, <1>4 DEF Store
<1>6. Kept
  BY <1>1, <1>3, <1>5, Grows
<1>7. Servers'
  <2> SUFFICES ASSUME NEW r \in Thread, NEW l \in Key, NEW c \in store'[r][l]
               PROVE  c \in Call \ todo' /\ Type[c] = "put" /\ KeyOf[c] = l
    BY DEF Servers
  <2>1. c \in store[r][l] \/ (l = k /\ c \in store[p][k])
    BY <1>3, <1>5
  <2> QED
    BY <1>1, <1>2, <2>1, SMTT(60) DEF Servers
<1> QED
  BY <1>5, <1>6, <1>7

LEMMA GiveUpStep ==
  ASSUME ClientInv, NEW p \in Thread, NEW k \in Key, GiveUp(p, k)
  PROVE  Kept /\ Servers' /\ store' \in Store
<1>1. /\ store' = [store EXCEPT ![p][k] = {}] /\ UNCHANGED todo
      /\ Replicas(k) # {} /\ p \notin Replicas(k)
      /\ \A q \in Replicas(k) : Merged(store[q][k], store[p][k]) = store[q][k]
  BY DEF GiveUp
<1>2. store \in Store /\ Servers /\ Replicas(k) \in SUBSET Thread
  BY ThreadsTyped DEF ClientInv, Types, Replicas
<1>3. PICK q \in Replicas(k) : q \in Thread /\ q # p
  BY <1>1, <1>2
<1>4. /\ store' \in Store
      /\ \A r \in Thread, l \in Key : \/ store'[r][l] = store[r][l]
                                      \/ r = p /\ l = k /\ store'[r][l] = {}
  BY <1>1, <1>2 DEF Store
<1>5. Servers'
  BY <1>1, <1>2, <1>4, SMTT(60) DEF Servers
<1>6. ASSUME NEW c \in Call, Type[c] = "put", Held(c) PROVE Held(c)' \/ Mixed(c)'
  <2>1. PICK r \in Thread : c \in store[r][KeyOf[c]]
    BY <1>6 DEF Held
  <2>2. KeyOf[c] \in Key
    BY CallAssumption
  <2>3. CASE ~ (r = p /\ KeyOf[c] = k)
    BY <1>4, <2>1, <2>2, <2>3 DEF Held
  <2>4. CASE r = p /\ KeyOf[c] = k
    <3>1. \/ store[p][k] \subseteq store[q][k]
          \/ \E d \in store[q][k], e \in store[p][k] : LatticeOf[d] # LatticeOf[e]
      BY <1>1, Merging
    <3>2. CASE store[p][k] \subseteq store[q][k]
      <4>1. c \in store'[q][k]
        BY <1>3, <1>4, <2>1, <2>4, <3>2
      <4> QED
        BY <1>3, <2>4, <4>1 DEF Held
    <3>3. CASE \E d \in store[q][k], e \in store[p][k] : LatticeOf[d] # LatticeOf[e]
      <4>1. PICK d \in store[q][k] \cup store[p][k] : LatticeOf[d] # LatticeOf[c]
        BY <3>3
      <4>2. d \in Call \ todo /\ Type[d] = "put" /\ KeyOf[d] = k
        BY <1>2, <1>3, <4>1 DEF Servers
      <4> QED
        BY <1>1, <2>4, <4>1, <4>2 DEF Mixed
    <3> QED
      BY <3>1, <3>2, <3>3
  <2> QED
    BY <2>3, <2>4
<1>7. Kept
  BY <1>1, <1>6 DEF Kept
<1> QED
  BY <1>4, <1>5, <1>7

LEMMA StoreSteps ==
  ASSUME ClientInv,
         \E p \in Thread, k \in Key : GiveUp(p, k) \/ \E q \in Thread : Gossip(p, q, k)
  PROVE  ClientInv' /\ UNCHANGED <<routing, results, lost, msgs>>
<1>1. UNCHANGED <<client, routing, members, factor, msgs, results, faults, lost>>
  BY DEF GiveUp, Gossip
<1>2. Kept /\ Servers' /\ store' \in Store
  BY GiveUpStep, GossipStep
<1>3. ClientSide' /\ Calls'
  BY <1>1, <1>2, Quiet
<1>4. Types'
  BY <1>1, <1>2 DEF ClientInv, Types
<1> QED
  BY <1>1, <1>2, <1>3, <1>4 DEF ClientInv

LEMMA MembershipSteps ==
  ASSUME ClientInv,
         \/ \E n \in Node : Join(n) \/ Depart(n)
         \/ \E k \in Key, v \in Version \ {0} : Rescale(k, v)
  PROVE  ClientInv'
<1>1. Types /\ Servers /\ members \subseteq Node /\ msgs \subseteq Message
      /\ factor \in [Key -> Version] /\ store \in Store
  BY DEF ClientInv, Types
<1> DEFINE Reshaped == /\ members' \subseteq Node /\ factor' \in [Key -> Version]
                       /\ msgs' \subseteq Message /\ Data(msgs') \subseteq Data(msgs)
                       /\ todo' \subseteq todo
                       /\ UNCHANGED <<client, routing, store, results, faults>>
<1>2. Reshaped
  <2>1. ASSUME NEW n \in Node, Join(n) PROVE Reshaped
    <3>1. Reshape(members \cup {n}, factor) /\ todo' = todo \ {n}
          /\ msgs' = msgs \cup {Notice("join", n)}
      BY <2>1 DEF Join
    <3>2. Notice("join", n) \in Message /\ Notice("join", n).kind = "join"
      BY DEF Notice, Message
    <3> QED
      BY <1>1, <3>1, <3>2 DEF Reshape, Data
  <2>2. ASSUME NEW n \in Node, Depart(n) PROVE Reshaped
    <3>1. Reshape(members \ {n}, factor) /\ todo' = todo \ {n}
          /\ msgs' = msgs \cup {Notice("depart", n)}
      BY <2>2 DEF Depart
    <3>2. Notice("depart", n) \in Message /\ Notice("depart", n).kind = "depart"
      BY DEF Notice, Message
    <3> QED
      BY <1>1, <3>1, <3>2 DEF Reshape, Data
  <2>3. ASSUME NEW k \in Key, NEW v \in Version, Rescale(k, v) PROVE Reshaped
    <3> DEFINE f == [factor EXCEPT ![k] = v]
    <3>1. Reshape(members, f) /\ todo' = todo \ {k}
          /\ msgs' = msgs \cup {FactorChange(k, v)}
      BY <2>3 DEF Rescale
    <3>2. f \in [Key -> Version]
      BY <1>1
    <3> HIDE DEF f
    <3>3. FactorChange(k, v) \in Message /\ FactorChange(k, v).kind = "change"
      BY DEF FactorChange, Message
    <3> QED
      BY <1>1, <3>1, <3>2, <3>3 DEF Reshape, Data
  <2> QED
    BY <2>1, <2>2, <2>3
<1>3. Kept /\ Servers'
  BY <1>1, <1>2 DEF Kept, Held, Servers
<1>4. ClientSide' /\ Calls'
  BY <1>2, <1>3, Quiet
<1>5. Types'
  BY <1>1, <1>2 DEF Types
<1> QED
  BY <1>3, <1>4, <1>5 DEF ClientInv

LEMMA OtherSteps ==
  ASSUME ClientInv,
         \/ \E m \in msgs : Discard(m) \/ ServeFactor(m) \/ Lose(m)
         \/ clear_cache
         \/ UNCHANGED vars
  PROVE  ClientInv'
<1>1. Types /\ Servers /\ Calls /\ ClientSide /\ msgs \subseteq Message
  BY DEF ClientInv, Types
<1>2. CASE clear_cache
  <2> DEFINE cache == NewClient.key_address_cache
  <2>1. client.at = "idle" /\ client' = [client EXCEPT !.key_address_cache = cache]
        /\ UNCHANGED <<routing, members, factor, store, msgs, results, todo, faults>>
    BY <1>2 DEF clear_cache
  <2>2. cache \in [Key -> SUBSET Thread]
    BY DEF NewClient
  <2> HIDE DEF cache
  <2>3. Idle(client', msgs) /\ Answers(client') = {}
    BY <1>1, <2>1, <2>2, Cleared DEF ClientSide
  <2>4. client'.at = "idle"
    BY <2>3 DEF Idle
  <2>5. ClientSide'
    BY <2>1, <2>3, <2>4 DEF ClientSide
  <2>7. Calls'
    BY <1>1, <2>1, <2>3, <2>4 DEF Calls, Stored, Held, Mixed
  <2>8. Types' /\ Servers'
    BY <1>1, <2>1, <2>4, SMTT(60) DEF Types, Servers
  <2> QED
    BY <2>5, <2>7, <2>8 DEF ClientInv
<1>3. CASE ~ clear_cache
  <2>1. UNCHANGED <<client, routing, members, factor, store, results, todo>>
        /\ faults' \in 0 .. MaxFaults
    BY <1>1, <1>3, SMTT(60) DEF Discard, ServeFactor, Lose, Pay, vars, Types
  <2>2. msgs' \subseteq Message /\ Data(msgs') \subseteq Data(msgs)
    <3>1. CASE \E m \in msgs : Discard(m) \/ Lose(m)
      BY <1>1, <3>1 DEF Discard, Lose, Data
    <3>2. CASE \E m \in msgs : ServeFactor(m)
      <4>1. PICK m \in msgs : ServeFactor(m)
        BY <3>2
      <4>2. m.key \in Key
        BY <1>1, <4>1, Kinds DEF ServeFactor
      <4>3. PICK e \in 0 .. 2 :
              msgs' = (msgs \ {m}) \cup {FactorResponse(m.key, e, factor[m.key])}
        BY <4>1, FactorServed
      <4>4. /\ FactorResponse(m.key, e, factor[m.key]) \in Message
            /\ FactorResponse(m.key, e, factor[m.key]).kind = "factor"
        BY <1>1, <4>2 DEF FactorResponse, Message, Types
      <4> QED
        BY <1>1, <4>3, <4>4 DEF Data
    <3> QED
      BY <1>1, <1>3, <3>1, <3>2 DEF vars
  <2>3. ClientSide' /\ Servers' /\ Calls'
    BY <1>1, <2>1, <2>2, StillKept, Quiet
  <2>4. Types'
    BY <1>1, <2>1, <2>2 DEF Types
  <2> QED
    BY <2>3, <2>4 DEF ClientInv
<1> QED
  BY <1>2, <1>3

------------------------------------------------------------------------------
(* The theorems.                                                           *)
LEMMA ClientInit ==
  ASSUME Init
  PROVE  ClientInv
<1>2. \A n \in InitNodes : Notice("join", n) \in Message /\ Notice("join", n).kind = "join"
  BY ClientAssumption DEF Notice, Message
<1>3. Data(msgs) = {}
  BY <1>2 DEF Init, Data
<1>4. Idle(client, msgs) /\ Answers(client) = {}
  BY <1>3, Unused DEF Init
<1>5. ClientSide
  BY <1>4 DEF ClientSide, Idle
<1>6. Types
  <2>1. routing \in Routing
    BY DEF Init, NewRouting, Routing
  <2>2. 0 \in Version /\ 0 \in 0 .. MaxFaults
    BY ReplicationAssumption, ClientAssumption, SMTT(60) DEF Version
  <2>3. msgs \subseteq Message
    BY <1>2 DEF Init
  <2>4. members \subseteq Node /\ store \in Store
    BY ClientAssumption DEF Init, Store
  <2>5. results \in Results
    BY DEF Init, Unreturned, Results
  <2> QED
    BY <2>1, <2>2, <2>3, <2>4, <2>5 DEF Init, Types
<1>7. Servers
  BY <1>4 DEF Init, Servers, Idle
<1>8. Calls
  <2>2. \A m \in msgs : m.kind # "response"
    BY <1>3 DEF Data
  <2>3. \A c \in Call : results[c].answers = {}
    BY DEF Init, Unreturned
  <2> QED
    BY <1>3, <1>4, <2>2, <2>3 DEF Calls, Idle
<1> QED
  BY <1>5, <1>6, <1>7, <1>8 DEF ClientInv

(* The answers of a step, which are those of the call that the client is   *)
(* in.                                                                     *)
AnswersOwn ==
  \A x \in Call : results'[x] # results[x] =>
    \A m \in results'[x].answers : m.call = x
AnswersAll ==
  \A x \in Call : Many[x] /\ results'[x] # results[x] /\ results'[x].status = "ok" =>
    {m.from : m \in results'[x].answers} = client.sent

LEMMA ClientStep ==
  ASSUME ClientInv, [Next]_vars
  PROVE  ClientInv' /\ AnswersOwn /\ AnswersAll
<1>1. ASSUME NEW c, Returned(c), c.sent = client.sent
      PROVE  AnswersOwn /\ AnswersAll
  BY <1>1 DEF Returned, AnswersOwn, AnswersAll
<1>2. ASSUME UNCHANGED results PROVE AnswersOwn /\ AnswersAll
  BY <1>2 DEF AnswersOwn, AnswersAll
<1>3. CASE \E c \in Call : Issue(c)
  BY <1>1, <1>3, IssueStep
<1>4. CASE \E m \in msgs : ReceiveAddress(m)
  BY <1>1, <1>4, ReceiveAddressStep
<1>5. CASE \E m \in msgs : ReceiveResponse(m)
  BY <1>1, <1>5, ReceiveResponseStep
<1>6. CASE TimeoutRouting \/ TimeoutServers
  BY <1>1, <1>6, TimeoutSteps
<1>8. CASE \E m \in msgs : \/ address_handler(m) \/ replication_response_handler(m)
                           \/ replication_change_handler(m) \/ membership_handler(m)
  <2>1. UNCHANGED results
    BY <1>8 DEF address_handler, replication_response_handler, replication_change_handler,
                membership_handler
  <2> QED
    BY <1>2, <1>8, <2>1, RoutingSteps
<1>9. CASE \E m \in msgs : ServeData(m)
  <2>1. UNCHANGED results
    BY <1>9 DEF ServeData
  <2> QED
    BY <1>2, <1>9, <2>1, ServeDataStep
<1>10. CASE \/ \E n \in Node : Join(n) \/ Depart(n)
            \/ \E k \in Key, v \in Version \ {0} : Rescale(k, v)
  <2>1. UNCHANGED results
    BY <1>10 DEF Join, Depart, Rescale, Reshape
  <2> QED
    BY <1>2, <1>10, <2>1, MembershipSteps
<1>12. CASE \E p \in Thread, k \in Key : GiveUp(p, k) \/ \E q \in Thread : Gossip(p, q, k)
  BY <1>2, <1>12, StoreSteps
<1>11. CASE \/ \E m \in msgs : Discard(m) \/ ServeFactor(m) \/ Lose(m)
            \/ clear_cache
            \/ UNCHANGED vars
  <2>1. UNCHANGED results
    BY <1>11 DEF Discard, ServeFactor, Lose, clear_cache, vars
  <2> QED
    BY <1>2, <1>11, <2>1, OtherSteps
<1> QED
  BY <1>3, <1>4, <1>5, <1>6, <1>8, <1>9, <1>10, <1>11, <1>12 DEF Next, Progress

(* The ids of receive keep the calls of one client apart, whatever is      *)
(* lost, late or answered by a server that has been replaced: what has an  *)
(* id of the trial under way is of this call and of the thread that was    *)
(* asked, no message has an id that is still to be given out, and what has *)
(* been answered to a PUT is stored.                                       *)
THEOREM ClientInvariant == Spec => []ClientInv
<1>1. Init => ClientInv
  BY ClientInit
<1>2. ClientInv /\ [Next]_vars => ClientInv'
  BY ClientStep
<1> QED
  BY <1>1, <1>2, PTL DEF Spec

(* The request ids in use are distinct and odd, however many requests have *)
(* been numbered (get_request_id), and the cache and the routing node know *)
(* server threads only.                                                    *)
THEOREM ClientTypes == Spec => []ClientTypeOK
<1>1. ClientInv => ClientTypeOK
  <2> SUFFICES ASSUME ClientInv PROVE ClientTypeOK
    OBVIOUS
  <2>1. Types /\ ClientSide
    BY DEF ClientInv
  <2>2. Numbers(client, msgs) /\ client \in Client
    BY <2>1 DEF ClientSide, Idle, Active, InCall, Numbers
  <2>3. /\ client.at \in {"idle", "routing", "servers"}
        /\ \A i, j \in client.ids : i[1] = j[1] => i = j
    BY <2>1 DEF ClientSide, Idle, Active, Trial
  <2>4. client.next % 2 = 0
    BY <2>2 DEF Numbers
  <2>5. client.key_address_cache \in [Key -> SUBSET Thread] /\ client.left \in 0 .. trial_limit
    BY <2>2 DEF Client
  <2> QED
    BY <2>1, <2>3, <2>4, <2>5 DEF ClientTypeOK, Types, Routing, Store
<1> QED
  BY <1>1, ClientInvariant, PTL

(* A PUT that is answered without error is never lost, in any sequence of  *)
(* joins, departures and new replication factors, unless PUTs of two       *)
(* lattice types were made for the key (user_request_handler,              *)
(* gossip_handler, replication_change_handler).                            *)
THEOREM PutsStored == Spec => []AnswersAreStored
<1>1. ClientInv => AnswersAreStored
  <2> SUFFICES ASSUME ClientInv, NEW c \in Call, Type[c] = "put", NEW m \in results[c].answers,
                      m.error = 0
               PROVE  Mixed(c) \/ \E p \in Thread : c \in store[p][KeyOf[c]]
    BY DEF AnswersAreStored
  <2>1. m.call = c /\ Stored(m)
    BY DEF ClientInv, Calls
  <2> QED
    BY <2>1 DEF Stored, Held
<1> QED
  BY <1>1, ClientInvariant, PTL

(* A call returns answers to its own requests only: the ids that receive   *)
(* compares are never used twice.                                          *)
THEOREM StragglersDiscarded == Spec => NoStragglers
<1>1. ClientInv /\ [Next]_vars =>
        [\A c \in Call : results'[c] # results[c] =>
           \A m \in results'[c].answers : m.call = c]_vars
  BY ClientStep DEF AnswersOwn
<1> QED
  BY <1>1, ClientInvariant, PTL DEF Spec, NoStragglers

(* put_all and get_all are successful only with the answers of all threads *)
(* that try_multi_request has asked.                                       *)
THEOREM EveryoneAnswers == Spec => AllAnswer
<1>1. ClientInv /\ [Next]_vars =>
        [\A c \in Call : Many[c] /\ results'[c] # results[c] /\ results'[c].status = "ok" =>
           {m.from : m \in results'[c].answers} = client.sent]_vars
  BY ClientStep DEF AnswersAll
<1> QED
  BY <1>1, ClientInvariant, PTL DEF Spec, AllAnswer

(* A replication factor is being looked up.                                *)
LookingUp(m) == m.kind \in {"factor_request", "factor"}
Sought(k, M) == \E m \in M : LookingUp(m) /\ m.key = k

LEMMA LookupSought ==
  ASSUME NEW r \in Routing, NEW k, NEW rest, Lookup(r, k, rest), lost' = lost,
         \A q \in r.pending_requests : q[1] = k \/ q[1] \in lost \/ Sought(q[1], rest)
  PROVE  PendingLookedUp'
<1>1. routing'.pending_requests = r.pending_requests
  BY DEF Lookup, Routing
<1>2. ASSUME routing'.up PROVE \E p : msgs' = rest \cup {FactorRequest(k, p)}
  BY <1>2 DEF Lookup, Routing
<1>3. ASSUME routing'.up PROVE Sought(k, msgs') /\ rest \subseteq msgs'
  <2>1. PICK p : msgs' = rest \cup {FactorRequest(k, p)}
    BY <1>2, <1>3
  <2>2. FactorRequest(k, p).kind = "factor_request" /\ FactorRequest(k, p).key = k
    BY DEF FactorRequest
  <2> QED
    BY <2>1, <2>2 DEF Sought, LookingUp
<1> QED
  BY <1>1, <1>3 DEF PendingLookedUp, Sought, LookingUp

LEMMA LookedUpStep ==
  ASSUME ClientInv, PendingLookedUp, [Next]_vars
  PROVE  PendingLookedUp'
<1>1. routing \in Routing /\ msgs \subseteq Message
  BY DEF ClientInv, Types
<1>2. \A q \in routing.pending_requests : ~ routing.up \/ q[1] \in lost \/ Sought(q[1], msgs)
  BY DEF PendingLookedUp, Sought, LookingUp
<1>3. ASSUME routing'.up = routing.up, routing'.pending_requests = routing.pending_requests,
             lost' = lost, \A m \in msgs : LookingUp(m) => m \in msgs'
      PROVE  PendingLookedUp'
  BY <1>2, <1>3 DEF PendingLookedUp, Sought, LookingUp
<1>4. CASE \/ \E c \in Call : Issue(c)
           \/ TimeoutRouting \/ TimeoutServers
           \/ \E m \in msgs : ReceiveAddress(m) \/ ReceiveResponse(m)
  <2>1. UNCHANGED <<routing, lost>>
    BY <1>4 DEF Issue, TimeoutRouting, TimeoutServers, ReceiveAddress, ReceiveResponse
  <2>2. \A m \in msgs : LookingUp(m) => m \in msgs'
    BY <1>4 DEF Issue, TimeoutRouting, TimeoutServers, ReceiveAddress, ReceiveResponse,
                       Become, LookingUp
  <2> QED
    BY <1>3, <2>1, <2>2
<1>5. CASE \E m \in msgs : Discard(m) \/ ServeData(m)
  <2>1. UNCHANGED <<routing, lost>> /\ \A m \in msgs : LookingUp(m) => m \in msgs'
    BY <1>5 DEF Discard, ServeData, LookingUp
  <2> QED
    BY <1>3, <2>1
<1>6. CASE \/ \E n \in Node : Join(n) \/ Depart(n)
           \/ \E k \in Key, v \in Version \ {0} : Rescale(k, v)
           \/ clear_cache
           \/ UNCHANGED vars
  <2>1. UNCHANGED <<routing, lost>> /\ msgs \subseteq msgs'
    BY <1>6 DEF Join, Depart, Rescale, Reshape, clear_cache, vars
  <2> QED
    BY <1>3, <2>1
<1>12. CASE \E p \in Thread, k \in Key : GiveUp(p, k) \/ \E q \in Thread : Gossip(p, q, k)
  BY <1>3, <1>12, StoreSteps
<1>7. ASSUME NEW m \in msgs, replication_change_handler(m) \/ membership_handler(m)
      PROVE  PendingLookedUp'
  <2>1. lost' = lost /\ \A q \in msgs : LookingUp(q) => q \in msgs'
    BY <1>7 DEF replication_change_handler, membership_handler, LookingUp
  <2>2. routing'.up = routing.up /\ routing'.pending_requests = routing.pending_requests
    BY <1>1, <1>7 DEF replication_change_handler, membership_handler, Routing
  <2> QED
    BY <1>3, <2>1, <2>2
<1>8. ASSUME NEW m \in msgs, address_handler(m) PROVE PendingLookedUp'
  <2>1. m.kind = "address_request" /\ routing.up /\ lost' = lost
    BY <1>8 DEF address_handler
  <2>2. CASE UNCHANGED routing /\ msgs \ {m} \subseteq msgs'
    BY <1>3, <2>1, <2>2 DEF LookingUp
  <2>3. CASE Lookup([routing EXCEPT !.pending_requests = @ \cup {<<m.key, m.rid>>}],
                    m.key, msgs \ {m})
    <3>1. PICK r : r = [routing EXCEPT !.pending_requests = @ \cup {<<m.key, m.rid>>}]
      OBVIOUS
    <3>2. m.key \in Key /\ m.rid \in Nat
      BY <1>1, <2>1, Kinds
    <3>3. r \in Routing /\ r.pending_requests = routing.pending_requests \cup {<<m.key, m.rid>>}
      BY <1>1, <3>1, <3>2, SMTT(60) DEF Routing
    <3>4. \A k : Sought(k, msgs) => Sought(k, msgs \ {m})
      BY <2>1 DEF Sought, LookingUp
    <3>5. \A q \in r.pending_requests :
            q[1] = m.key \/ q[1] \in lost \/ Sought(q[1], msgs \ {m})
      BY <1>2, <2>1, <3>3, <3>4, SMTT(60)
    <3> QED
      BY <2>1, <2>3, <3>1, <3>3, <3>5, LookupSought
  <2> QED
    BY <1>8, <2>2, <2>3 DEF address_handler
<1>9. ASSUME NEW m \in msgs, replication_response_handler(m) PROVE PendingLookedUp'
  <2>1. m.kind = "factor" /\ routing.up /\ lost' = lost
    BY <1>9 DEF replication_response_handler
  <2>2. \A q \in routing.pending_requests :
          q[1] = m.key \/ q[1] \in lost \/ Sought(q[1], msgs \ {m})
    BY <1>2, <2>1 DEF Sought
  <2>3. CASE Lookup(routing, m.key, msgs \ {m})
    BY <1>1, <2>1, <2>2, <2>3, LookupSought
  <2>4. CASE m.error # 2
    <3>1. /\ routing' = [[routing EXCEPT !.key_replication_map[m.key] = m.version] EXCEPT
                !.pending_requests = @ \ {q \in routing.pending_requests : q[1] = m.key}]
          /\ msgs \ {m} \subseteq msgs'
      BY <1>9, <2>4 DEF replication_response_handler
    <3>2. \A q \in routing'.pending_requests : q \in routing.pending_requests /\ q[1] # m.key
      BY <1>1, <3>1 DEF Routing
    <3> QED
      BY <2>1, <2>2, <3>1, <3>2 DEF PendingLookedUp, Sought, LookingUp
  <2> QED
    BY <1>9, <2>3, <2>4 DEF replication_response_handler
<1>10. ASSUME NEW m \in msgs, ServeFactor(m) PROVE PendingLookedUp'
  <2>1. PICK e \in 0 .. 2 :
          msgs' = (msgs \ {m}) \cup {FactorResponse(m.key, e, factor[m.key])}
    BY <1>10, FactorServed
  <2>2. \A k : Sought(k, msgs) => Sought(k, msgs')
    BY <2>1 DEF Sought, LookingUp, FactorResponse
  <2>3. UNCHANGED <<routing, lost>>
    BY <1>10, FactorServed
  <2> QED
    BY <1>2, <2>2, <2>3 DEF PendingLookedUp, Sought, LookingUp
<1>11. ASSUME NEW m \in msgs, Lose(m) PROVE PendingLookedUp'
  BY <1>2, <1>11 DEF Lose, PendingLookedUp, Sought, LookingUp
<1> QED
  BY <1>4, <1>5, <1>6, <1>7, <1>8, <1>9, <1>10, <1>11, <1>12 DEF Next, Progress

(* While an address request waits at the routing node, the replication     *)
(* factor it waits for is being looked up, unless the lookup was lost or   *)
(* the node has failed (address_handler, replication_response_handler).    *)
THEOREM LookupsUnderWay == Spec => []PendingLookedUp
<1>1. Init => PendingLookedUp
  BY SMTT(60) DEF Init, NewRouting, PendingLookedUp
<1>2. ClientInv /\ PendingLookedUp /\ [Next]_vars => PendingLookedUp'
  BY LookedUpStep
<1> QED
  BY <1>1, <1>2, ClientInvariant, PTL DEF Spec
=============================================================================
