---------------------------- MODULE FanoutProofs ----------------------------
(***************************************************************************)
(* Proofs about Fanout, for any number of users and connections and any    *)
(* capacities: what a peer is sent has no gap, a burst is backed by what   *)
(* is queued, and only a full channel makes the process panic.             *)
(***************************************************************************)
EXTENDS Fanout, SequenceTheorems, TLAPS

\* The entries of s are the ones of t after the first k.
Follows(s, t, k) ==
    /\ Len(s) + k <= Len(t)
    /\ \A i \in 1..Len(s) : s[i] = t[k + i]

\* What the peer of c was sent, and then what is queued for it.
Stream(c) == client[c].got \o client[c].send

\* x is an entry of s.
In(x, s) == \E i \in DOMAIN s : s[i] = x

\* No two entries of s are the same.
Distinct(s) == \A i, j \in DOMAIN s : s[i] = s[j] => i = j

\* A list has clients of its user whose readPump runs, each once.
ListInv ==
    \A u \in User :
        /\ Distinct(connections[u])
        /\ \A c \in Client : In(c, connections[u]) =>
              Username[c] = u /\ client[c].reader \in {"reading", "leaving"}

\* Until the hub has registered it, a client is as HandleWebSocket made it.
FreshInv ==
    \A c \in Client :
        /\ client[c].conn = "none" => client[c].reader = "none"
        /\ client[c].reader \in {"none", "registering"} <=> client[c].writer = "none"
        /\ client[c].writer = "none" =>
              /\ client[c].send = <<>> /\ client[c].got = <<>>
              /\ client[c].burst = 0 /\ ~client[c].closed

\* A client stays in the list until its channel is closed, and a closed channel
\* is in the list only after it was full.
ClosedInv ==
    \A c \in Client :
        /\ client[c].writer # "none" /\ ~client[c].closed => Registered(c)
        /\ client[c].closed /\ Registered(c) => client[c].overflowed

\* The stream of a client has no gap, as long as the process runs; it ends with
\* the last event, as long as the channel is open.
StreamInv ==
    \A c \in Client : client[c].writer # "none" =>
        /\ Follows(client[c].got, sent[Username[c]], from[c])
        /\ client[c].writer = "running" /\ ~panicked =>
              Follows(Stream(c), sent[Username[c]], from[c])
        /\ client[c].writer = "running" /\ ~client[c].closed =>
              /\ Follows(Stream(c), sent[Username[c]], from[c])
              /\ Len(Stream(c)) + from[c] = Len(sent[Username[c]])

IInv ==
    /\ TypeOK /\ ListInv /\ FreshInv /\ ClosedInv /\ StreamInv
    /\ BurstBacked /\ PanicsAfterOverflow

-----------------------------------------------------------------------------
(* Sequences that follow one another. *)

\* An earlier index is an index.
LEMMA Earlier ==
    ASSUME NEW a \in Nat, NEW b \in Nat, NEW c \in Nat, a + c <= b
    PROVE  \A i \in 1..a : i \in 1..b /\ c + i \in 1..b /\ i \in 1..(a + 1)
OBVIOUS

\* The front of what follows follows.
LEMMA FollowsFront ==
    ASSUME NEW g \in Seq(Nat), NEW q \in Seq(Nat), NEW t \in Seq(Nat), NEW k \in Nat,
           Follows(g \o q, t, k)
    PROVE  Follows(g, t, k)
<1>1. /\ Len(g) \in Nat /\ Len(q) \in Nat /\ Len(t) \in Nat /\ Len(g \o q) = Len(g) + Len(q)
      /\ \A i \in 1..Len(g) : (g \o q)[i] = g[i]
  BY LenProperties, ConcatProperties
<1>2. Len(g \o q) + k <= Len(t) /\ \A i \in 1..Len(g \o q) : (g \o q)[i] = t[k + i]
  BY Zenon DEF Follows
<1>3. Len(g) + k <= Len(t) /\ Len(g \o q) \in Nat /\ Len(g) + 0 <= Len(g \o q)
  BY <1>1, <1>2
<1>4. \A i \in 1..Len(g) : i \in 1..Len(g \o q)
  BY <1>1, <1>3, Earlier
<1>5. \A i \in 1..Len(g) : g[i] = t[k + i]
  BY <1>1, <1>2, <1>4, Zenon
<1> QED BY <1>3, <1>5, Zenon DEF Follows

\* Taking the first queued event and sending it leaves the stream as it is.
LEMMA StreamMoves ==
    ASSUME NEW g \in Seq(Nat), NEW q \in Seq(Nat), q # <<>>
    PROVE  /\ Append(g, Head(q)) \in Seq(Nat) /\ Tail(q) \in Seq(Nat)
           /\ Append(g, Head(q)) \o Tail(q) = g \o q
<1>1. PICK x, r : x = Head(q) /\ r = Tail(q)
  BY Zenon
<1>2. x \in Nat /\ r \in Seq(Nat) /\ q = <<x>> \o r
  BY <1>1, HeadTailProperties
<1>3. <<x>> \in Seq(Nat) /\ Append(g, x) = g \o <<x>> /\ Append(g, x) \in Seq(Nat)
  BY <1>2, AppendIsConcat, AppendProperties
<1>4. (g \o <<x>>) \o r = g \o (<<x>> \o r)
  BY <1>2, <1>3, ConcatAssociative
<1> QED BY <1>1, <1>2, <1>3, <1>4, Zenon

\* What follows t follows a longer t.
LEMMA FollowsGrows ==
    ASSUME NEW s \in Seq(Nat), NEW t \in Seq(Nat), NEW k \in Nat, NEW x \in Nat, Follows(s, t, k)
    PROVE  Follows(s, Append(t, x), k)
<1>1. PICK v : v = Append(t, x)
  BY Zenon
<1>2. Len(s) \in Nat /\ Len(t) \in Nat /\ Len(v) = Len(t) + 1 /\ \A i \in 1..Len(t) : v[i] = t[i]
  BY <1>1, LenProperties, AppendProperties
<1>3. Len(s) + k <= Len(t) /\ \A i \in 1..Len(s) : s[i] = t[k + i]
  BY Zenon DEF Follows
<1>4. Len(s) + k <= Len(v) /\ \A i \in 1..Len(s) : k + i \in 1..Len(t)
  BY <1>2, <1>3, Earlier
<1>5. \A i \in 1..Len(s) : s[i] = v[k + i]
  BY <1>2, <1>3, <1>4, Zenon
<1> QED BY <1>1, <1>4, <1>5, Zenon DEF Follows

\* An event put behind the queue is put behind the stream.
LEMMA AppendLast ==
    ASSUME NEW g \in Seq(Nat), NEW q \in Seq(Nat), NEW x \in Nat
    PROVE  g \o q \in Seq(Nat) /\ g \o Append(q, x) = Append(g \o q, x)
<1>1. <<x>> \in Seq(Nat)
  OBVIOUS
<1>2. Append(q, x) = q \o <<x>>
  BY AppendIsConcat
<1>3. PICK s : s = g \o q
  BY Zenon
<1>4. s \in Seq(Nat)
  BY <1>3, ConcatProperties
<1>5. Append(s, x) = s \o <<x>>
  BY <1>4, AppendIsConcat
<1>6. (g \o q) \o <<x>> = g \o (q \o <<x>>)
  BY <1>1, ConcatAssociative
<1> QED BY <1>2, <1>3, <1>4, <1>5, <1>6, Zenon

\* A stream that reaches the end of t goes on with the next event.
LEMMA FollowsAppend ==
    ASSUME NEW g \in Seq(Nat), NEW q \in Seq(Nat), NEW t \in Seq(Nat), NEW k \in Nat, NEW x \in Nat,
           Follows(g \o q, t, k), Len(g \o q) + k = Len(t)
    PROVE  /\ Follows(g \o Append(q, x), Append(t, x), k)
           /\ Len(g \o Append(q, x)) + k = Len(Append(t, x))
<1>1. PICK s, v, w : s = g \o q /\ v = Append(t, x) /\ w = g \o Append(q, x)
  BY Zenon
<1>2. w = Append(s, x) /\ s \in Seq(Nat)
  BY <1>1, AppendLast, Zenon
<1>3. /\ Len(s) \in Nat /\ Len(t) \in Nat /\ Len(v) = Len(t) + 1 /\ Len(w) = Len(s) + 1
      /\ \A i \in 1..Len(t) : v[i] = t[i]
      /\ \A i \in 1..Len(s) : w[i] = s[i]
      /\ v[Len(t) + 1] = x /\ w[Len(s) + 1] = x
  BY <1>1, <1>2, LenProperties, AppendProperties
<1>4. Len(s) + k = Len(t) /\ \A i \in 1..Len(s) : s[i] = t[k + i]
  BY <1>1, Zenon DEF Follows
<1>5. PICK a, b, c, d : a = Len(s) /\ b = Len(t) /\ c = Len(w) /\ d = Len(v)
  BY Zenon
<1>6. a \in Nat /\ b \in Nat /\ d = b + 1 /\ c = a + 1 /\ a + k = b
  BY <1>3, <1>4, <1>5, Zenon
<1>7. /\ \A i \in 1..a : k + i \in 1..b
      /\ \A i \in 1..c : i \in 1..a \/ i = a + 1
      /\ k + (a + 1) = b + 1 /\ c + k = d /\ c + k <= d
  BY <1>6
<1>8. \A i \in 1..a : w[i] = v[k + i]
  BY <1>3, <1>4, <1>5, <1>7, Zenon
<1>9. w[a + 1] = v[k + (a + 1)]
  BY <1>3, <1>5, <1>7, Zenon
<1>10. \A i \in 1..c : w[i] = v[k + i]
  BY <1>7, <1>8, <1>9, Zenon
<1> QED BY <1>1, <1>5, <1>7, <1>10, Zenon DEF Follows

\* The part of t behind its first k entries.
LEMMA RestIs ==
    ASSUME NEW S, NEW t \in Seq(S), NEW k \in Nat, k <= Len(t), NEW r, r = SubSeq(t, k + 1, Len(t))
    PROVE  /\ r \in Seq(S) /\ Len(r) = Len(t) - k
           /\ \A i \in 1..(Len(t) - k) : r[i] = t[k + i]
<1>1. PICK n : n = Len(t)
  BY Zenon
<1>2. n \in Nat /\ k <= n /\ r = SubSeq(t, k + 1, n)
  BY <1>1, LenProperties, Zenon
<1>3. \A i \in (k + 1)..n : t[i] \in S
  <2>1. \A i \in (k + 1)..n : i \in 1..n
    BY <1>2
  <2> QED BY <1>1, <2>1, ElementOfSeq, Zenon
<1>4. k + 1 \in Int /\ n \in Int
  BY <1>2
<1>5. /\ r \in Seq(S) /\ Len(r) = IF k + 1 <= n THEN n - (k + 1) + 1 ELSE 0
      /\ \A i \in 1..(n - (k + 1) + 1) : r[i] = t[(k + 1) + i - 1]
  BY <1>2, <1>3, <1>4, SubSeqProperties
<1>6. /\ Len(r) = n - k
      /\ \A i \in 1..(n - k) : i \in 1..(n - (k + 1) + 1) /\ (k + 1) + i - 1 = k + i
  BY <1>2, <1>5
<1> QED BY <1>1, <1>5, <1>6, Zenon

\* The first n entries of t.
LEMMA FrontIs ==
    ASSUME NEW S, NEW t, NEW n \in Nat, \A i \in 1..n : t[i] \in S, NEW r, r = SubSeq(t, 1, n)
    PROVE  r \in Seq(S) /\ Len(r) = n /\ \A i \in 1..n : r[i] = t[i]
<1>1. 1 \in Int /\ n \in Int
  OBVIOUS
<1>2. /\ r \in Seq(S) /\ Len(r) = IF 1 <= n THEN n - 1 + 1 ELSE 0
      /\ \A i \in 1..(n - 1 + 1) : r[i] = t[1 + i - 1]
  BY <1>1, SubSeqProperties
<1>3. Len(r) = n /\ \A i \in 1..n : i \in 1..(n - 1 + 1) /\ 1 + i - 1 = i
  BY <1>2
<1> QED BY <1>2, <1>3, Zenon

\* What follows the first k events of t is the front of the rest of t.
LEMMA FollowsIsPrefix ==
    ASSUME NEW s \in Seq(Nat), NEW t \in Seq(Nat), NEW k \in Nat, Follows(s, t, k)
    PROVE  /\ IsPrefixOf(s, SubSeq(t, k + 1, Len(t)))
           /\ Len(s) + k = Len(t) => s = SubSeq(t, k + 1, Len(t))
<1>1. PICK r : r = SubSeq(t, k + 1, Len(t))
  BY Zenon
<1>2. /\ Len(s) \in Nat /\ Len(t) \in Nat /\ Len(s) + k <= Len(t)
      /\ \A i \in 1..Len(s) : s[i] = t[k + i]
  <2>1. Len(s) \in Nat /\ Len(t) \in Nat
    BY LenProperties
  <2> QED BY <2>1, Zenon DEF Follows
<1>3. k <= Len(t)
  BY <1>2
<1>4. /\ r \in Seq(Nat) /\ Len(r) = Len(t) - k
      /\ \A i \in 1..(Len(t) - k) : r[i] = t[k + i]
  BY <1>1, <1>3, RestIs
<1>5. \A i \in 1..Len(s) : i \in 1..(Len(t) - k)
  BY <1>2
<1>6. \A i \in 1..Len(s) : s[i] = r[i]
  BY <1>2, <1>4, <1>5, Zenon
<1>7. ASSUME Len(s) + k = Len(t) PROVE s = r
  <2>1. PICK a, b, c : a = Len(s) /\ b = Len(t) /\ c = Len(r)
    BY Zenon
  <2>2. a + k = b /\ c = b - k /\ a \in Nat /\ b \in Nat
    BY <1>2, <1>4, <1>7, <2>1, Zenon
  <2>3. a = c
    BY <2>2
  <2>4. Len(s) = Len(r)
    BY <2>1, <2>3, Zenon
  <2> QED BY <1>4, <1>6, <2>4, SeqEqual, Zenon
<1>8. Len(s) <= Len(r)
  BY <1>2, <1>4
<1>9. s = SubSeq(r, 1, Len(s))
  <2>1. PICK p : p = SubSeq(r, 1, Len(s))
    BY Zenon
  <2>2. \A i \in 1..Len(s) : r[i] \in Nat
    BY <1>6, ElementOfSeq, Zenon
  <2>3. p \in Seq(Nat) /\ Len(p) = Len(s) /\ \A i \in 1..Len(s) : p[i] = r[i]
    BY <1>2, <2>1, <2>2, FrontIs
  <2>4. \A i \in 1..Len(s) : s[i] = p[i]
    BY <1>6, <2>3, Zenon
  <2> QED BY <2>1, <2>3, <2>4, SeqEqual, Zenon
<1> QED BY <1>1, <1>7, <1>8, <1>9, Zenon DEF IsPrefixOf

-----------------------------------------------------------------------------
(* The lists of the hub. *)

\* A list without its only entry c has all the others.
LEMMA WithoutIs ==
    ASSUME NEW s \in Seq(Client), NEW c \in Client, Distinct(s)
    PROVE  /\ Without(s, c) \in Seq(Client)
           /\ Distinct(Without(s, c))
           /\ \A d : In(d, Without(s, c)) <=> d # c /\ In(d, s)
<1> DEFINE at == {i \in DOMAIN s : s[i] = c}
<1>1. CASE at = {}
  <2>1. Without(s, c) = s
    BY <1>1, Zenon DEF Without
  <2>2. ~In(c, s)
    BY <1>1, Zenon DEF In
  <2> QED BY <2>1, <2>2, Zenon
<1>2. CASE at # {}
  <2>1. PICK f \in DOMAIN s : s[f] = c
    BY <1>2, Zenon
  <2>2. at = {f}
    BY <2>1, Zenon DEF Distinct
  <2>3. Len(s) \in Nat /\ DOMAIN s = 1..Len(s) /\ f \in Nat /\ f >= 1 /\ f <= Len(s)
    BY <2>1, LenProperties
  <2>4. (CHOOSE i \in at : \A j \in at : i <= j) = f
    <3>1. \A j \in at : f <= j
      BY <2>2, <2>3
    <3> QED BY <2>2, <3>1, Zenon
  <2>5. PICK l, r : l = SubSeq(s, 1, f - 1) /\ r = SubSeq(s, f + 1, Len(s))
    BY Zenon
  <2>6. PICK w : w = l \o r
    BY Zenon
  <2>7. l \in Seq(Client) /\ Len(l) = f - 1 /\ \A i \in 1..(f - 1) : l[i] = s[i]
    <3>1. f - 1 \in Nat /\ \A i \in 1..(f - 1) : i \in 1..Len(s)
      BY <2>3
    <3>2. \A i \in 1..(f - 1) : s[i] \in Client
      BY <3>1, ElementOfSeq, Zenon
    <3> QED BY <2>5, <3>1, <3>2, FrontIs
  <2>8. /\ r \in Seq(Client) /\ Len(r) = Len(s) - f /\ \A i \in 1..(Len(s) - f) : r[i] = s[f + i]
    BY <2>3, <2>5, RestIs
  <2>9. /\ w \in Seq(Client) /\ Len(w) = Len(l) + Len(r)
        /\ \A i \in 1..(Len(l) + Len(r)) : w[i] = IF i <= Len(l) THEN l[i] ELSE r[i - Len(l)]
    <3>1. l \in Seq(Client) /\ r \in Seq(Client)
      BY <2>7, <2>8, Zenon
    <3> QED BY <2>6, <3>1, ConcatProperties
  <2>10. PICK n : n = Len(s)
    BY Zenon
  <2>11. DOMAIN w = 1..(n - 1)
    <3>1. DOMAIN w = 1..Len(w) /\ Len(w) = n - 1
      BY <2>3, <2>7, <2>8, <2>9, <2>10, LenProperties
    <3> QED BY <3>1
  <2>12. \A i \in 1..(n - 1) : w[i] = s[IF i < f THEN i ELSE i + 1]
    <3> SUFFICES ASSUME NEW i \in 1..(n - 1) PROVE w[i] = s[IF i < f THEN i ELSE i + 1]
      BY Zenon
    <3>1. i \in 1..(Len(l) + Len(r)) /\ (i < f <=> i <= Len(l))
      BY <2>3, <2>7, <2>8, <2>10
    <3>2. CASE i < f
      <4>1. i \in 1..(f - 1)
        BY <2>3, <3>2
      <4> QED BY <2>7, <2>9, <3>1, <3>2, <4>1, Zenon
    <3>3. CASE ~(i < f)
      <4>1. i - (f - 1) \in 1..(Len(s) - f) /\ f + (i - (f - 1)) = i + 1
        BY <2>3, <2>10, <3>3
      <4>2. w[i] = r[i - (f - 1)]
        BY <2>7, <2>9, <3>1, <3>3, Zenon
      <4> QED BY <2>8, <3>3, <4>1, <4>2, Zenon
    <3> QED BY <3>2, <3>3, Zenon
  <2> DEFINE up(i) == IF i < f THEN i ELSE i + 1
             down(i) == IF i < f THEN i ELSE i - 1
  <2>13. /\ \A i \in 1..(n - 1) : up(i) \in DOMAIN s /\ up(i) # f
         /\ \A i, j \in 1..(n - 1) : up(i) = up(j) => i = j
         /\ \A i \in DOMAIN s : i # f => down(i) \in 1..(n - 1) /\ up(down(i)) = i
    BY <2>3, <2>10
  <2>14. \A i \in 1..(n - 1) : w[i] = s[up(i)]
    BY <2>12, Zenon
  <2> HIDE DEF up, down
  <2>15. Distinct(w)
    BY <2>11, <2>13, <2>14, ZenonT(60) DEF Distinct
  <2>16. ASSUME NEW d, In(d, w) PROVE d # c /\ In(d, s)
    <3>1. PICK i \in 1..(n - 1) : w[i] = d
      BY <2>11, <2>16, Zenon DEF In
    <3> QED BY <2>1, <2>13, <2>14, <3>1, Zenon DEF In, Distinct
  <2>17. ASSUME NEW d, d # c, In(d, s) PROVE In(d, w)
    <3>1. PICK i \in DOMAIN s : s[i] = d
      BY <2>17, Zenon DEF In
    <3>2. i # f
      BY <2>1, <2>17, <3>1, Zenon
    <3> QED BY <2>11, <2>13, <2>14, <3>1, <3>2, Zenon DEF In
  <2>18. Without(s, c) = w
    BY <1>2, <2>4, <2>5, <2>6, Zenon DEF Without
  <2> QED BY <2>9, <2>15, <2>16, <2>17, <2>18, Zenon
<1> QED BY <1>1, <1>2, Zenon

\* A list with a new entry behind the others.
LEMMA AppendIs ==
    ASSUME NEW s \in Seq(Client), NEW c \in Client, Distinct(s), ~In(c, s)
    PROVE  /\ Append(s, c) \in Seq(Client)
           /\ Distinct(Append(s, c))
           /\ \A d : In(d, Append(s, c)) <=> d = c \/ In(d, s)
<1>1. PICK n, w : n = Len(s) /\ w = Append(s, c)
  BY Zenon
<1>2. /\ n \in Nat /\ DOMAIN s = 1..n /\ w \in Seq(Client) /\ DOMAIN w = 1..(n + 1)
      /\ \A i \in 1..n : w[i] = s[i]
      /\ w[n + 1] = c
  <2>1. n \in Nat /\ DOMAIN s = 1..n
    BY <1>1, LenProperties, Zenon
  <2>2. /\ w \in Seq(Client) /\ Len(w) = n + 1 /\ (\A i \in 1..n : w[i] = s[i]) /\ w[n + 1] = c
    BY <1>1, AppendProperties
  <2>3. DOMAIN w = 1..(n + 1)
    BY <2>2, LenProperties
  <2> QED BY <2>1, <2>2, <2>3, Zenon
<1>3. /\ \A i \in 1..(n + 1) : i \in 1..n \/ i = n + 1
      /\ \A i \in 1..n : i \in 1..(n + 1)
      /\ n + 1 \in 1..(n + 1)
  BY <1>2
<1>4. Distinct(w)
  BY <1>2, <1>3, Zenon DEF Distinct, In
<1>5. \A d : In(d, w) <=> d = c \/ In(d, s)
  BY <1>2, <1>3, Zenon DEF In
<1> QED BY <1>1, <1>2, <1>4, <1>5, Zenon

\* Registered, in terms of the list of the client's user.
LEMMA RegisteredIs == \A c \in Client : Registered(c) <=> In(c, connections[Username[c]])
BY Zenon DEF Registered, In

-----------------------------------------------------------------------------
(* What the steps do to a client. *)

\* A step that changes the record of one client.
LEMMA OneChanges ==
    ASSUME NEW f \in [Client -> ClientState], NEW c \in Client, NEW r \in ClientState, NEW g,
           g = [f EXCEPT ![c] = r]
    PROVE  /\ g \in [Client -> ClientState] /\ g[c] = r
           /\ \A d \in Client : d # c => g[d] = f[d]
BY Zenon

\* HandleWebSocket opens the connection and has readPump wait for the hub.
LEMMA HandleWebSocketDoes ==
    ASSUME TypeOK, NEW c \in Client, HandleWebSocket(c)
    PROVE  /\ client' \in [Client -> ClientState]
           /\ \A d \in Client : d # c => client'[d] = client[d]
           /\ client'[c].send = client[c].send /\ client'[c].got = client[c].got
           /\ client'[c].closed = client[c].closed /\ client'[c].overflowed = client[c].overflowed
           /\ client'[c].writer = client[c].writer /\ client'[c].burst = client[c].burst
           /\ client[c].conn = "none" /\ client'[c].conn = "open"
           /\ client'[c].reader = "registering"
<1>1. PICK f, g, r : f = client /\ g = client' /\ r = [f[c] EXCEPT !.conn = "open", !.reader = "registering"]
  BY Zenon
<1>2. f \in [Client -> ClientState] /\ f[c] \in ClientState
  BY <1>1, Zenon DEF TypeOK
<1>3. g = [f EXCEPT ![c] = r]
  BY <1>1, <1>2, Zenon DEF HandleWebSocket
<1>4. /\ r \in ClientState
      /\ r.send = f[c].send /\ r.got = f[c].got /\ r.closed = f[c].closed
      /\ r.overflowed = f[c].overflowed /\ r.writer = f[c].writer /\ r.burst = f[c].burst
      /\ r.conn = "open" /\ r.reader = "registering"
  BY <1>1, <1>2, Zenon DEF ClientState
<1>5. client[c].conn = "none"
  BY Zenon DEF HandleWebSocket
<1>6. g \in [Client -> ClientState] /\ g[c] = r /\ \A d \in Client : d # c => g[d] = f[d]
  BY <1>2, <1>3, <1>4, OneChanges, Zenon
<1> QED BY <1>1, <1>4, <1>5, <1>6, Zenon

\* registerClient starts the two pumps.
LEMMA RegisterDoes ==
    ASSUME TypeOK, NEW c \in Client, registerClient(c)
    PROVE  /\ client' \in [Client -> ClientState]
           /\ \A d \in Client : d # c => client'[d] = client[d]
           /\ client'[c].send = client[c].send /\ client'[c].got = client[c].got
           /\ client'[c].closed = client[c].closed /\ client'[c].overflowed = client[c].overflowed
           /\ client'[c].burst = client[c].burst /\ client'[c].conn = client[c].conn
           /\ client[c].reader = "registering" /\ client'[c].reader = "reading"
           /\ client'[c].writer = "running"
<1>1. PICK f, g, r : f = client /\ g = client' /\ r = [f[c] EXCEPT !.reader = "reading", !.writer = "running"]
  BY Zenon
<1>2. f \in [Client -> ClientState] /\ f[c] \in ClientState
  BY <1>1, Zenon DEF TypeOK
<1>3. g = [f EXCEPT ![c] = r]
  BY <1>1, <1>2, Zenon DEF registerClient
<1>4. /\ r \in ClientState
      /\ r.send = f[c].send /\ r.got = f[c].got /\ r.closed = f[c].closed
      /\ r.overflowed = f[c].overflowed /\ r.conn = f[c].conn /\ r.burst = f[c].burst
      /\ r.reader = "reading" /\ r.writer = "running"
  BY <1>1, <1>2, Zenon DEF ClientState
<1>5. client[c].reader = "registering"
  BY Zenon DEF registerClient
<1>6. g \in [Client -> ClientState] /\ g[c] = r /\ \A d \in Client : d # c => g[d] = f[d]
  BY <1>2, <1>3, <1>4, OneChanges, Zenon
<1> QED BY <1>1, <1>4, <1>5, <1>6, Zenon

\* unregisterClient closes the channel if the client was in the list.
LEMMA UnregisterDoes ==
    ASSUME TypeOK, NEW c \in Client, unregisterClient(c)
    PROVE  /\ client' \in [Client -> ClientState]
           /\ \A d \in Client : d # c => client'[d] = client[d]
           /\ client[c].reader = "leaving" /\ client'[c].reader = "closing"
           /\ client'[c].closed <=> client[c].closed \/ Registered(c)
           /\ client'[c].send = client[c].send /\ client'[c].got = client[c].got
           /\ client'[c].writer = client[c].writer /\ client'[c].burst = client[c].burst
           /\ client'[c].overflowed = client[c].overflowed /\ client'[c].conn = client[c].conn
<1>1. PICK b : b = Registered(c)
  BY Zenon
<1>2. b \in BOOLEAN /\ (b <=> Registered(c))
  BY <1>1, Zenon DEF Registered
<1>3. PICK f, g, r : f = client /\ g = client'
          /\ r = [f[c] EXCEPT !.reader = "closing", !.closed = f[c].closed \/ b]
  BY Zenon
<1>4. f \in [Client -> ClientState] /\ f[c] \in ClientState
  BY <1>3, Zenon DEF TypeOK
<1>5. g = [f EXCEPT ![c] = r]
  BY <1>1, <1>3, <1>4, Zenon DEF unregisterClient
<1>6. f[c].closed \in BOOLEAN /\ (f[c].closed \/ b) \in BOOLEAN
  BY <1>2, <1>4, Zenon DEF ClientState
<1>7. /\ r \in ClientState
      /\ r.send = f[c].send /\ r.got = f[c].got /\ r.closed = (f[c].closed \/ b)
      /\ r.overflowed = f[c].overflowed /\ r.writer = f[c].writer /\ r.burst = f[c].burst
      /\ r.conn = f[c].conn /\ r.reader = "closing"
  BY <1>3, <1>4, <1>6, Zenon DEF ClientState
<1>8. client[c].reader = "leaving"
  BY Zenon DEF unregisterClient
<1>9. g \in [Client -> ClientState] /\ g[c] = r /\ \A d \in Client : d # c => g[d] = f[d]
  BY <1>4, <1>5, <1>7, OneChanges, Zenon
<1> QED BY <1>2, <1>3, <1>7, <1>8, <1>9, Zenon

\* The steps of the pumps, and of the peer.
PumpSteps(c) ==
    \/ WriteFrame(c) \/ WriteClose(c) \/ PingFails(c) \/ ReadFails(c) \/ CloseConn(c) \/ PeerGone(c)

\* A pump that takes the first queued event writes it as long as it runs; no
\* other step of a pump touches the channel, and none starts a pump.
LEMMA PumpsDo ==
    ASSUME TypeOK, NEW c \in Client, PumpSteps(c)
    PROVE  /\ client' \in [Client -> ClientState]
           /\ \A d \in Client : d # c => client'[d] = client[d]
           /\ client'[c].closed = client[c].closed /\ client'[c].overflowed = client[c].overflowed
           /\ client[c].conn = "none" =>
                client[c].writer = "running" \/ client[c].reader \in {"reading", "closing"}
           /\ client'[c].conn = "none" => client[c].conn = "none"
           /\ \/ client'[c].reader = client[c].reader
              \/ client[c].reader = "reading" /\ client'[c].reader = "leaving"
              \/ client[c].reader = "closing" /\ client'[c].reader = "done"
           /\ \/ client'[c].writer = client[c].writer
              \/ client[c].writer = "running" /\ client'[c].writer = "done"
           /\ \/ /\ client'[c].send = client[c].send /\ client'[c].got = client[c].got
                 /\ client'[c].burst = client[c].burst \/ client'[c].burst = 0
              \/ /\ client[c].send # <<>> /\ client'[c].send = Tail(client[c].send)
                 /\ client[c].writer = "running"
                 /\ \/ client'[c].got = Append(client[c].got, Head(client[c].send)) /\ client'[c].burst = Burst(c)
                    \/ client'[c].got = client[c].got /\ client'[c].burst = 0 /\ client'[c].writer = "done"
<1>1. PICK f, g, q : f = client /\ g = client' /\ q = client[c].send
  BY Zenon
<1>2. /\ f \in [Client -> ClientState] /\ f[c] \in ClientState
      /\ q \in Seq(Nat) /\ f[c].got \in Seq(Nat) /\ f[c].burst \in Nat
  BY <1>1, Zenon DEF TypeOK, ClientState
<1>3. CASE WriteFrame(c)
  <2>1. PICK h, t, b : h = Append(f[c].got, Head(q)) /\ t = Tail(q) /\ b = Burst(c)
    BY Zenon
  <2>2. q # <<>> /\ f[c].writer = "running"
    BY <1>1, <1>3, Zenon DEF WriteFrame
  <2>3. h \in Seq(Nat) /\ t \in Seq(Nat)
    BY <1>2, <2>1, <2>2, StreamMoves
  <2>4. b \in Nat
    <3>1. Len(q) - 1 \in Nat /\ \A n \in Nat : n > 0 => n - 1 \in Nat
      BY <1>2, <2>2
    <3> QED BY <1>1, <1>2, <2>1, <3>1, Zenon DEF Burst
  <2>5. CASE f[c].conn = "open" /\ g = [f EXCEPT ![c].send = t, ![c].got = h, ![c].burst = b]
    <3>1. PICK r : r = [f[c] EXCEPT !.send = t, !.got = h, !.burst = b]
      BY Zenon
    <3>2. g = [f EXCEPT ![c] = r]
      BY <1>2, <2>5, <3>1, Zenon
    <3>3. /\ r \in ClientState
          /\ r.send = t /\ r.got = h /\ r.burst = b /\ r.closed = f[c].closed
          /\ r.overflowed = f[c].overflowed /\ r.conn = f[c].conn /\ r.reader = f[c].reader
          /\ r.writer = f[c].writer
      BY <1>2, <2>3, <2>4, <3>1, Zenon DEF ClientState
    <3>4. g \in [Client -> ClientState] /\ g[c] = r /\ \A d \in Client : d # c => g[d] = f[d]
      BY <1>2, <3>2, <3>3, OneChanges, Zenon
    <3>5. f[c].conn = "open"
      BY <2>5, Zenon
    <3> QED BY <1>1, <2>1, <2>2, <3>3, <3>4, <3>5, ZenonT(60)
  <2>6. CASE g = [f EXCEPT ![c] = [Exit(c) EXCEPT !.send = t]]
    <3>1. PICK r : r = [[f[c] EXCEPT !.writer = "done", !.burst = 0, !.conn = "closed"] EXCEPT !.send = t]
      BY Zenon
    <3>2. g = [f EXCEPT ![c] = r]
      BY <1>1, <2>6, <3>1, Zenon DEF Exit
    <3>3. /\ r \in ClientState
          /\ r.send = t /\ r.got = f[c].got /\ r.burst = 0 /\ r.closed = f[c].closed
          /\ r.overflowed = f[c].overflowed /\ r.conn = "closed" /\ r.reader = f[c].reader
          /\ r.writer = "done"
      <4>1. 0 \in Nat
        OBVIOUS
      <4> QED BY <1>2, <2>3, <3>1, <4>1, Zenon DEF ClientState
    <3>4. g \in [Client -> ClientState] /\ g[c] = r /\ \A d \in Client : d # c => g[d] = f[d]
      BY <1>2, <3>2, <3>3, OneChanges, Zenon
    <3> QED BY <1>1, <2>1, <2>2, <3>3, <3>4, ZenonT(60)
  <2>7. \/ f[c].conn = "open" /\ g = [f EXCEPT ![c].send = t, ![c].got = h, ![c].burst = b]
        \/ g = [f EXCEPT ![c] = [Exit(c) EXCEPT !.send = t]]
    <3>1. ASSUME f[c].conn = "open",
                 g = [f EXCEPT ![c].send = Tail(@), ![c].got = Append(@, Head(f[c].send)), ![c].burst = b]
          PROVE  g = [f EXCEPT ![c].send = t, ![c].got = h, ![c].burst = b]
      BY <1>1, <1>2, <2>1, <3>1, Zenon DEF ClientState
    <3>2. [Exit(c) EXCEPT !.send = Tail(@)] = [Exit(c) EXCEPT !.send = t]
      BY <1>1, <1>2, <2>1, Zenon DEF Exit, ClientState
    <3> QED BY <1>1, <1>3, <2>1, <3>1, <3>2, Zenon DEF WriteFrame
  <2> QED BY <2>5, <2>6, <2>7, Zenon
<1>4. CASE WriteClose(c) \/ PingFails(c)
  <2>1. PICK r : r = [f[c] EXCEPT !.writer = "done", !.burst = 0, !.conn = "closed"]
    BY Zenon
  <2>2. g = [f EXCEPT ![c] = r] /\ f[c].writer = "running"
    BY <1>1, <1>4, <2>1, Zenon DEF WriteClose, PingFails, Exit
  <2>3. /\ r \in ClientState
        /\ r.send = f[c].send /\ r.got = f[c].got /\ r.burst = 0 /\ r.closed = f[c].closed
        /\ r.overflowed = f[c].overflowed /\ r.conn = "closed" /\ r.reader = f[c].reader
        /\ r.writer = "done"
    <3>1. 0 \in Nat
      OBVIOUS
    <3> QED BY <1>2, <2>1, <3>1, Zenon DEF ClientState
  <2>4. g \in [Client -> ClientState] /\ g[c] = r /\ \A d \in Client : d # c => g[d] = f[d]
    BY <1>2, <2>2, <2>3, OneChanges, Zenon
  <2> QED BY <1>1, <2>2, <2>3, <2>4, ZenonT(60)
<1>5. CASE ReadFails(c)
  <2>1. PICK r : r = [f[c] EXCEPT !.reader = "leaving"]
    BY Zenon
  <2>2. g = [f EXCEPT ![c] = r] /\ f[c].reader = "reading"
    BY <1>1, <1>2, <1>5, <2>1, Zenon DEF ReadFails
  <2>3. /\ r \in ClientState
        /\ r.send = f[c].send /\ r.got = f[c].got /\ r.burst = f[c].burst /\ r.closed = f[c].closed
        /\ r.overflowed = f[c].overflowed /\ r.conn = f[c].conn /\ r.reader = "leaving"
        /\ r.writer = f[c].writer
    BY <1>2, <2>1, Zenon DEF ClientState
  <2>4. g \in [Client -> ClientState] /\ g[c] = r /\ \A d \in Client : d # c => g[d] = f[d]
    BY <1>2, <2>2, <2>3, OneChanges, Zenon
  <2> QED BY <1>1, <2>2, <2>3, <2>4, ZenonT(60)
<1>6. CASE PeerGone(c)
  <2>1. PICK r : r = [f[c] EXCEPT !.conn = "closed"]
    BY Zenon
  <2>2. g = [f EXCEPT ![c] = r] /\ f[c].conn = "open"
    BY <1>1, <1>2, <1>6, <2>1, Zenon DEF PeerGone
  <2>3. /\ r \in ClientState
        /\ r.send = f[c].send /\ r.got = f[c].got /\ r.burst = f[c].burst /\ r.closed = f[c].closed
        /\ r.overflowed = f[c].overflowed /\ r.conn = "closed" /\ r.reader = f[c].reader
        /\ r.writer = f[c].writer
    BY <1>2, <2>1, Zenon DEF ClientState
  <2>4. g \in [Client -> ClientState] /\ g[c] = r /\ \A d \in Client : d # c => g[d] = f[d]
    BY <1>2, <2>2, <2>3, OneChanges, Zenon
  <2> QED BY <1>1, <2>2, <2>3, <2>4, ZenonT(60)
<1>7. CASE CloseConn(c)
  <2>1. PICK r : r = [f[c] EXCEPT !.reader = "done", !.conn = "closed"]
    BY Zenon
  <2>2. g = [f EXCEPT ![c] = r] /\ f[c].reader = "closing"
    BY <1>1, <1>2, <1>7, <2>1, Zenon DEF CloseConn
  <2>3. /\ r \in ClientState
        /\ r.send = f[c].send /\ r.got = f[c].got /\ r.burst = f[c].burst /\ r.closed = f[c].closed
        /\ r.overflowed = f[c].overflowed /\ r.conn = "closed" /\ r.reader = "done"
        /\ r.writer = f[c].writer
    BY <1>2, <2>1, Zenon DEF ClientState
  <2>4. g \in [Client -> ClientState] /\ g[c] = r /\ \A d \in Client : d # c => g[d] = f[d]
    BY <1>2, <2>2, <2>3, OneChanges, Zenon
  <2> QED BY <1>1, <2>2, <2>3, <2>4, ZenonT(60)
<1> QED BY <1>3, <1>4, <1>5, <1>6, <1>7, Zenon DEF PumpSteps

\* What broadcastToUsername does with event x of user u.
Broadcasts(u, x) ==
    /\ sent' = [sent EXCEPT ![u] = Append(sent[u], x)]
    /\ client' \in [Client -> ClientState]
    /\ panicked' \in BOOLEAN
    /\ panicked' <=> \E c \in Client : Username[c] = u /\ Registered(c) /\ client[c].closed
    /\ \A c \in Client : ~(Username[c] = u /\ Registered(c)) => client'[c] = client[c]
    /\ \A c \in Client : Username[c] = u /\ Registered(c) =>
          /\ client'[c].conn = client[c].conn /\ client'[c].reader = client[c].reader
          /\ client'[c].writer = client[c].writer /\ client'[c].burst = client[c].burst
          /\ client'[c].got = client[c].got
          /\ \/ /\ Len(client[c].send) < SendCap
                /\ client'[c].send = Append(client[c].send, x)
                /\ client'[c].closed = client[c].closed
                /\ client'[c].overflowed = client[c].overflowed
             \/ /\ client'[c].send = client[c].send
                /\ client'[c].closed = TRUE /\ client'[c].overflowed = TRUE

\* The hub puts an event into the channel of each connection of its user that
\* has room, and closes the channels that have none.
LEMMA BroadcastDoes ==
    ASSUME TypeOK, broadcastToUsername
    PROVE  \E u \in User, x \in Nat : Broadcasts(u, x)
<1>1. PICK m, u, x : m = Head(broadcast) /\ u = m.username /\ x = m.data
  BY Zenon
<1>2. u \in User /\ x \in Nat
  <2>1. broadcast \in Seq(Message) /\ broadcast # <<>>
    BY Zenon DEF TypeOK, broadcastToUsername
  <2>2. m \in Message
    BY <1>1, <2>1, HeadTailProperties, Zenon
  <2> QED BY <1>1, <2>2, Zenon DEF Message
<1>3. client \in [Client -> ClientState] /\ sent \in [User -> Seq(Nat)]
  BY Zenon DEF TypeOK
<1>4. PICK to : to = {c \in Client : Username[c] = u /\ Registered(c)}
  BY Zenon
<1>5. /\ client' = [c \in Client |-> IF c \in to THEN Deliver(c, x) ELSE client[c]]
      /\ panicked' = \E c \in to : client[c].closed
      /\ sent' = [sent EXCEPT ![u] = Append(@, x)]
  BY <1>1, <1>4, Zenon DEF broadcastToUsername
<1>6. sent' = [sent EXCEPT ![u] = Append(sent[u], x)]
  BY <1>2, <1>3, <1>5, Zenon
<1>7. ASSUME NEW c \in Client
      PROVE  /\ Deliver(c, x) \in ClientState
             /\ Deliver(c, x).conn = client[c].conn /\ Deliver(c, x).reader = client[c].reader
             /\ Deliver(c, x).writer = client[c].writer /\ Deliver(c, x).burst = client[c].burst
             /\ Deliver(c, x).got = client[c].got
             /\ \/ /\ Len(client[c].send) < SendCap
                   /\ Deliver(c, x).send = Append(client[c].send, x)
                   /\ Deliver(c, x).closed = client[c].closed
                   /\ Deliver(c, x).overflowed = client[c].overflowed
                \/ /\ Deliver(c, x).send = client[c].send
                   /\ Deliver(c, x).closed = TRUE /\ Deliver(c, x).overflowed = TRUE
  <2>1. PICK r, q, d : r = client[c] /\ q = Append(r.send, x) /\ d = Deliver(c, x)
    BY Zenon
  <2>2. r \in ClientState /\ r.send \in Seq(Nat)
    BY <1>3, <2>1, Zenon DEF ClientState
  <2>3. q \in Seq(Nat)
    BY <1>2, <2>1, <2>2, AppendProperties, Zenon
  <2>4. CASE Len(r.send) < SendCap
    <3>1. d = [r EXCEPT !.send = q]
      BY <2>1, <2>2, <2>4, Zenon DEF Deliver, ClientState
    <3>2. /\ d \in ClientState /\ d.conn = r.conn /\ d.reader = r.reader /\ d.writer = r.writer
          /\ d.burst = r.burst /\ d.got = r.got /\ d.send = q /\ d.closed = r.closed
          /\ d.overflowed = r.overflowed
      BY <2>2, <2>3, <3>1, Zenon DEF ClientState
    <3> QED BY <2>1, <2>4, <3>2, Zenon
  <2>5. CASE ~(Len(r.send) < SendCap)
    <3>1. d = [r EXCEPT !.closed = TRUE, !.overflowed = TRUE]
      BY <2>1, <2>5, Zenon DEF Deliver
    <3>2. /\ d \in ClientState /\ d.conn = r.conn /\ d.reader = r.reader /\ d.writer = r.writer
          /\ d.burst = r.burst /\ d.got = r.got /\ d.send = r.send /\ d.closed = TRUE
          /\ d.overflowed = TRUE
      BY <2>2, <3>1, Zenon DEF ClientState
    <3> QED BY <2>1, <3>2, Zenon
  <2> QED BY <2>4, <2>5, Zenon
<1>8. client' \in [Client -> ClientState]
  BY <1>3, <1>5, <1>7, Zenon
<1>9. \A c \in Client : /\ Username[c] = u /\ Registered(c) => client'[c] = Deliver(c, x)
                        /\ ~(Username[c] = u /\ Registered(c)) => client'[c] = client[c]
  BY <1>4, <1>5, Zenon
<1>10. panicked' \in BOOLEAN /\ (panicked' <=> \E c \in Client : Username[c] = u /\ Registered(c) /\ client[c].closed)
  BY <1>4, <1>5, Zenon
<1>11. ASSUME NEW c \in Client, Username[c] = u, Registered(c)
       PROVE  /\ client'[c].conn = client[c].conn /\ client'[c].reader = client[c].reader
              /\ client'[c].writer = client[c].writer /\ client'[c].burst = client[c].burst
              /\ client'[c].got = client[c].got
              /\ \/ /\ Len(client[c].send) < SendCap
                    /\ client'[c].send = Append(client[c].send, x)
                    /\ client'[c].closed = client[c].closed
                    /\ client'[c].overflowed = client[c].overflowed
                 \/ /\ client'[c].send = client[c].send
                    /\ client'[c].closed = TRUE /\ client'[c].overflowed = TRUE
  <2>1. client'[c] = Deliver(c, x)
    BY <1>9, <1>11, Zenon
  <2>2. PICK d : d = Deliver(c, x)
    BY Zenon
  <2> QED BY <1>7, <2>1, <2>2, Zenon
<1>12. Broadcasts(u, x)
  BY <1>6, <1>8, <1>9, <1>10, <1>11, Zenon DEF Broadcasts
<1> QED BY <1>2, <1>12, Zenon

\* registerClient puts the client into its user's list, where it was not yet.
LEMMA RegisterLists ==
    ASSUME TypeOK, ListInv, NEW c \in Client, registerClient(c)
    PROVE  /\ connections' \in [User -> Seq(Client)]
           /\ \A u \in User : Distinct(connections'[u])
           /\ \A u \in User, d \in Client :
                 In(d, connections'[u]) <=> In(d, connections[u]) \/ (d = c /\ u = Username[c])
           /\ \A d \in Client : Registered(d)' <=> Registered(d) \/ d = c
<1>1. connections \in [User -> Seq(Client)] /\ Username[c] \in User
  BY FanoutAssumption, Zenon DEF TypeOK
<1>2. PICK s, n : s = connections[Username[c]] /\ n = Append(s, c)
  BY Zenon
<1>3. connections' = [connections EXCEPT ![Username[c]] = n]
  BY <1>1, <1>2, Zenon DEF registerClient
<1>4. s \in Seq(Client) /\ Distinct(s) /\ ~In(c, s)
  <2>1. client[c].reader = "registering"
    BY Zenon DEF registerClient
  <2>2. client[c].reader \notin {"reading", "leaving"}
    BY <2>1
  <2> QED BY <1>1, <1>2, <2>2, Zenon DEF ListInv
<1>5. n \in Seq(Client) /\ Distinct(n) /\ \A d : In(d, n) <=> d = c \/ In(d, s)
  BY <1>2, <1>4, AppendIs, Zenon
<1>6. connections' \in [User -> Seq(Client)] /\ connections'[Username[c]] = n
      /\ \A u \in User : u # Username[c] => connections'[u] = connections[u]
  BY <1>1, <1>3, <1>5, Zenon
<1>7. \A u \in User : Distinct(connections'[u])
  BY <1>5, <1>6, Zenon DEF ListInv
<1>8. \A u \in User, d \in Client :
         In(d, connections'[u]) <=> In(d, connections[u]) \/ (d = c /\ u = Username[c])
  BY <1>2, <1>5, <1>6, Zenon
<1>9. \A d \in Client : Username[d] \in User /\ (Registered(d)' <=> In(d, connections'[Username[d]]))
  BY FanoutAssumption, Zenon DEF Registered, In
<1> QED BY <1>6, <1>7, <1>8, <1>9, RegisteredIs, Zenon

\* unregisterClient takes it out.
LEMMA UnregisterLists ==
    ASSUME TypeOK, ListInv, NEW c \in Client, unregisterClient(c)
    PROVE  /\ connections' \in [User -> Seq(Client)]
           /\ \A u \in User : Distinct(connections'[u])
           /\ \A u \in User, d \in Client : In(d, connections'[u]) <=> In(d, connections[u]) /\ d # c
           /\ \A d \in Client : Registered(d)' <=> Registered(d) /\ d # c
<1>1. connections \in [User -> Seq(Client)] /\ Username[c] \in User
  BY FanoutAssumption, Zenon DEF TypeOK
<1>2. PICK s, n : s = connections[Username[c]] /\ n = Without(s, c)
  BY Zenon
<1>3. connections' = [connections EXCEPT ![Username[c]] = n]
  BY <1>1, <1>2, Zenon DEF unregisterClient
<1>4. s \in Seq(Client) /\ Distinct(s)
  BY <1>1, <1>2, Zenon DEF ListInv
<1>5. n \in Seq(Client) /\ Distinct(n) /\ \A d : In(d, n) <=> d # c /\ In(d, s)
  BY <1>2, <1>4, WithoutIs, Zenon
<1>6. connections' \in [User -> Seq(Client)] /\ connections'[Username[c]] = n
      /\ \A u \in User : u # Username[c] => connections'[u] = connections[u]
  BY <1>1, <1>3, <1>5, Zenon
<1>7. \A u \in User : Distinct(connections'[u])
  BY <1>5, <1>6, Zenon DEF ListInv
<1>8. \A u \in User, d \in Client : In(d, connections'[u]) <=> In(d, connections[u]) /\ d # c
  BY <1>2, <1>5, <1>6, Zenon DEF ListInv
<1>9. \A d \in Client : Username[d] \in User /\ (Registered(d)' <=> In(d, connections'[Username[d]]))
  BY FanoutAssumption, Zenon DEF Registered, In
<1> QED BY <1>6, <1>7, <1>8, <1>9, RegisteredIs, Zenon

-----------------------------------------------------------------------------
(* The invariant is kept. *)

\* The variables keep their types, and a channel its capacity.
LEMMA TypeStep ==
    ASSUME TypeOK, ListInv, [Next]_vars
    PROVE  TypeOK'
<1>1. /\ client \in [Client -> ClientState] /\ \A c \in Client : client[c].send \in Seq(Nat)
      /\ \A c \in Client : Len(client[c].send) \in Nat /\ Len(client[c].send) <= SendCap
      /\ SendCap \in Nat /\ QueueCap \in Nat /\ MaxEvents \in Nat /\ Username \in [Client -> User]
  BY FanoutAssumption, LenProperties DEF TypeOK, ClientState
<1>2. ASSUME NEW u \in User, Forward(u) PROVE TypeOK'
  <2>1. PICK n, m : n = published + 1 /\ m = [username |-> u, data |-> n]
    BY Zenon
  <2>2. /\ published' = n /\ published < MaxEvents /\ broadcast' = Append(broadcast, m)
        /\ Len(broadcast) < QueueCap
        /\ UNCHANGED <<connections, client, panicked, sent, from>>
    BY <1>2, <2>1, Zenon DEF Forward
  <2>3. published \in 0..MaxEvents /\ broadcast \in Seq(Message)
    BY Zenon DEF TypeOK
  <2>4. n \in 0..MaxEvents /\ n \in Nat
    BY <1>1, <2>1, <2>2, <2>3
  <2>5. m \in Message
    BY <2>1, <2>4, Zenon DEF Message
  <2>6. broadcast' \in Seq(Message) /\ Len(broadcast') = Len(broadcast) + 1 /\ Len(broadcast) \in Nat
    BY <2>2, <2>3, <2>5, AppendProperties, LenProperties
  <2>7. Len(broadcast') <= QueueCap
    BY <1>1, <2>2, <2>6
  <2> QED BY <2>2, <2>4, <2>6, <2>7, Zenon DEF TypeOK
<1>3. ASSUME NEW c \in Client,
             HandleWebSocket(c) \/ registerClient(c) \/ unregisterClient(c) \/ PumpSteps(c)
      PROVE  /\ client' \in [Client -> ClientState]
             /\ \A d \in Client : Len(client'[d].send) <= SendCap
  <2>1. /\ client' \in [Client -> ClientState]
        /\ \A d \in Client : d # c => client'[d] = client[d]
        /\ \/ client'[c].send = client[c].send
           \/ client[c].send # <<>> /\ client'[c].send = Tail(client[c].send)
    BY <1>3, HandleWebSocketDoes, RegisterDoes, UnregisterDoes, PumpsDo, ZenonT(60)
  <2>2. PICK q : q = client[c].send
    BY Zenon
  <2>3. q # <<>> => Len(Tail(q)) <= SendCap
    <3>1. q \in Seq(Nat) /\ Len(q) \in Nat /\ Len(q) <= SendCap
      BY <1>1, <2>2, Zenon
    <3>2. q # <<>> => Len(Tail(q)) = Len(q) - 1
      BY <3>1
    <3> QED BY <1>1, <3>1, <3>2
  <2> QED BY <1>1, <2>1, <2>2, <2>3, Zenon
<1>4. ASSUME NEW c \in Client, HandleWebSocket(c) \/ PumpSteps(c) PROVE TypeOK'
  <2>1. UNCHANGED <<published, broadcast, connections, panicked, sent, from>>
    BY <1>4, Zenon DEF HandleWebSocket, PumpSteps, WriteFrame, WriteClose, PingFails, ReadFails,
                    CloseConn, PeerGone
  <2> QED BY <1>3, <1>4, <2>1, Zenon DEF TypeOK
<1>5. ASSUME NEW c \in Client, registerClient(c) PROVE TypeOK'
  <2>1. /\ UNCHANGED <<published, broadcast, panicked, sent>>
        /\ from' = [from EXCEPT ![c] = Len(sent[Username[c]])]
    BY <1>5, Zenon DEF registerClient
  <2>2. Len(sent[Username[c]]) \in Nat
    <3>1. sent[Username[c]] \in Seq(Nat)
      BY <1>1, Zenon DEF TypeOK
    <3> QED BY <3>1, LenProperties
  <2>3. from' \in [Client -> Nat]
    BY <2>1, <2>2, Zenon DEF TypeOK
  <2> QED BY <1>3, <1>5, <2>1, <2>3, RegisterLists, Zenon DEF TypeOK
<1>6. ASSUME NEW c \in Client, unregisterClient(c) PROVE TypeOK'
  <2>1. UNCHANGED <<published, broadcast, sent, from>> /\ panicked' \in BOOLEAN
    BY <1>1, <1>6, Zenon DEF unregisterClient, Registered, ClientState
  <2> QED BY <1>3, <1>6, <2>1, UnregisterLists, Zenon DEF TypeOK
<1>7. CASE broadcastToUsername
  <2>1. PICK u \in User, x \in Nat : Broadcasts(u, x)
    BY <1>7, BroadcastDoes, Zenon
  <2>2. /\ broadcast # <<>> /\ broadcast' = Tail(broadcast) /\ UNCHANGED <<published, connections, from>>
    BY <1>7, Zenon DEF broadcastToUsername
  <2>3. broadcast' \in Seq(Message) /\ Len(broadcast') <= QueueCap
    <3>1. broadcast \in Seq(Message) /\ Len(broadcast) \in Nat /\ Len(broadcast) <= QueueCap
      BY LenProperties DEF TypeOK
    <3>2. broadcast' \in Seq(Message) /\ Len(broadcast') = Len(broadcast) - 1
      BY <2>2, <3>1, HeadTailProperties
    <3> QED BY <1>1, <3>1, <3>2
  <2>4. sent' \in [User -> Seq(Nat)]
    <3>1. sent \in [User -> Seq(Nat)] /\ sent' = [sent EXCEPT ![u] = Append(sent[u], x)]
      BY <2>1, Zenon DEF TypeOK, Broadcasts
    <3>2. Append(sent[u], x) \in Seq(Nat)
      BY <3>1, AppendProperties, Zenon
    <3> QED BY <3>1, <3>2, Zenon
  <2>5. ASSUME NEW c \in Client PROVE Len(client'[c].send) <= SendCap
    <3>1. PICK q : q = client[c].send
      BY Zenon
    <3>2. q \in Seq(Nat) /\ Len(q) \in Nat /\ Len(q) <= SendCap
      BY <1>1, <3>1, Zenon
    <3>3. Len(Append(q, x)) = Len(q) + 1
      BY <3>2, AppendProperties
    <3>4. Len(q) < SendCap => Len(Append(q, x)) <= SendCap
      BY <1>1, <3>2, <3>3
    <3>5. client'[c].send = q \/ (Len(q) < SendCap /\ client'[c].send = Append(q, x))
      BY <2>1, <3>1, Zenon DEF Broadcasts
    <3> QED BY <3>2, <3>4, <3>5, Zenon
  <2> QED BY <2>1, <2>2, <2>3, <2>4, <2>5, Zenon DEF TypeOK, Broadcasts
<1>8. CASE UNCHANGED vars
  BY <1>8, Zenon DEF vars, TypeOK
<1> QED BY <1>2, <1>4, <1>5, <1>6, <1>7, <1>8, Zenon DEF Next, PumpSteps

\* What the steps that are not the hub's leave alone.
LEMMA KeptByOthers ==
    /\ \A u \in User : Forward(u) => UNCHANGED <<connections, client, panicked, sent, from>>
    /\ \A c \in Client : HandleWebSocket(c) \/ PumpSteps(c) =>
          UNCHANGED <<connections, panicked, sent, from>>
BY Zenon DEF Forward, HandleWebSocket, PumpSteps, WriteFrame, WriteClose, PingFails, ReadFails,
             CloseConn, PeerGone

\* A list that is not changed has the same clients.
LEMMA RegisteredStays ==
    ASSUME connections' = connections
    PROVE  \A c \in Client : Registered(c)' <=> Registered(c)
BY Zenon DEF Registered

\* The lists have the clients whose readPump runs, each once.
LEMMA ListStep ==
    ASSUME TypeOK, ListInv, FreshInv, [Next]_vars
    PROVE  ListInv'
<1>1. ASSUME connections' = connections,
             \A d \in Client : client[d].reader \in {"reading", "leaving"} =>
                                 client'[d].reader \in {"reading", "leaving"}
      PROVE  ListInv'
  BY <1>1, Zenon DEF ListInv
<1>2. ASSUME NEW u \in User, Forward(u) PROVE ListInv'
  BY <1>1, <1>2, KeptByOthers, Zenon
<1>3. ASSUME NEW c \in Client, HandleWebSocket(c) PROVE ListInv'
  <2>1. client[c].reader = "none"
    BY <1>3, Zenon DEF HandleWebSocket, FreshInv
  <2>2. client[c].reader \notin {"reading", "leaving"}
    BY <2>1
  <2> QED BY <1>1, <1>3, <2>2, KeptByOthers, HandleWebSocketDoes, Zenon
<1>4. ASSUME NEW c \in Client, PumpSteps(c) PROVE ListInv'
  <2>1. \A d \in Client : d # c => client'[d] = client[d]
    BY <1>4, PumpsDo, Zenon
  <2>2. \/ client'[c].reader = client[c].reader \/ client'[c].reader = "leaving"
        \/ client[c].reader = "closing"
    BY <1>4, PumpsDo, Zenon
  <2>3. client[c].reader = "closing" => client[c].reader \notin {"reading", "leaving"}
    OBVIOUS
  <2> QED BY <1>1, <1>4, <2>1, <2>2, <2>3, KeptByOthers, Zenon
<1>5. ASSUME NEW c \in Client, registerClient(c) PROVE ListInv'
  <2>1. client'[c].reader \in {"reading", "leaving"} /\ \A d \in Client : d # c => client'[d] = client[d]
    BY <1>5, RegisterDoes, Zenon
  <2>2. /\ \A u \in User : Distinct(connections'[u])
        /\ \A u \in User, d \in Client :
              In(d, connections'[u]) => In(d, connections[u]) \/ (d = c /\ u = Username[c])
    BY <1>5, RegisterLists, Zenon
  <2>3. ASSUME NEW u \in User, NEW d \in Client, In(d, connections'[u])
        PROVE  Username[d] = u /\ client'[d].reader \in {"reading", "leaving"}
    BY <2>1, <2>2, <2>3, Zenon DEF ListInv
  <2> QED BY <2>2, <2>3, Zenon DEF ListInv
<1>6. ASSUME NEW c \in Client, unregisterClient(c) PROVE ListInv'
  <2>1. \A d \in Client : d # c => client'[d] = client[d]
    BY <1>6, UnregisterDoes, Zenon
  <2>2. /\ \A u \in User : Distinct(connections'[u])
        /\ \A u \in User, d \in Client : In(d, connections'[u]) => In(d, connections[u]) /\ d # c
    BY <1>6, UnregisterLists, Zenon
  <2>3. ASSUME NEW u \in User, NEW d \in Client, In(d, connections'[u])
        PROVE  Username[d] = u /\ client'[d].reader \in {"reading", "leaving"}
    BY <2>1, <2>2, <2>3, Zenon DEF ListInv
  <2> QED BY <2>2, <2>3, Zenon DEF ListInv
<1>7. CASE broadcastToUsername
  <2>1. PICK u \in User, x \in Nat : Broadcasts(u, x)
    BY <1>7, BroadcastDoes, Zenon
  <2>2. connections' = connections
    BY <1>7, Zenon DEF broadcastToUsername
  <2>3. \A d \in Client : client'[d].reader = client[d].reader
    BY <2>1, Zenon DEF Broadcasts
  <2> QED BY <1>1, <2>2, <2>3, Zenon
<1>8. CASE UNCHANGED vars
  BY <1>1, <1>8, Zenon DEF vars
<1> QED BY <1>2, <1>3, <1>4, <1>5, <1>6, <1>7, <1>8, Zenon DEF Next, PumpSteps

\* A client that is not registered yet has neither sent nor queued anything.
LEMMA FreshStep ==
    ASSUME TypeOK, ListInv, FreshInv, [Next]_vars
    PROVE  FreshInv'
<1> DEFINE Fresh(r) ==
        /\ r.conn = "none" => r.reader = "none"
        /\ r.reader \in {"none", "registering"} <=> r.writer = "none"
        /\ r.writer = "none" => r.send = <<>> /\ r.got = <<>> /\ r.burst = 0 /\ ~r.closed
<1>1. \A c \in Client : Fresh(client[c])
  BY Zenon DEF FreshInv
<1>2. SUFFICES \A c \in Client : Fresh(client'[c])
  BY Zenon DEF FreshInv
<1>3. ASSUME NEW c \in Client,
             \A d \in Client : d # c => client'[d] = client[d],
             Fresh(client'[c])
      PROVE  \A d \in Client : Fresh(client'[d])
  BY <1>1, <1>3, Zenon
<1>4. ASSUME NEW u \in User, Forward(u) PROVE \A c \in Client : Fresh(client'[c])
  BY <1>1, <1>4, KeptByOthers, Zenon
<1>5. ASSUME NEW c \in Client, HandleWebSocket(c) PROVE \A d \in Client : Fresh(client'[d])
  <2>1. Fresh(client'[c])
    <3>1. /\ client'[c].send = client[c].send /\ client'[c].got = client[c].got
          /\ client'[c].closed = client[c].closed /\ client'[c].writer = client[c].writer
          /\ client'[c].burst = client[c].burst /\ client[c].conn = "none"
          /\ client'[c].conn = "open" /\ client'[c].reader = "registering"
      BY <1>5, HandleWebSocketDoes, Zenon
    <3>2. client[c].writer = "none"
      BY <1>1, <3>1
    <3> QED BY <1>1, <3>1, <3>2, Zenon
  <2> QED BY <1>3, <1>5, <2>1, HandleWebSocketDoes, Zenon
<1>6. ASSUME NEW c \in Client, registerClient(c) PROVE \A d \in Client : Fresh(client'[d])
  <2>1. Fresh(client'[c])
    <3>1. /\ client'[c].reader = "reading" /\ client'[c].writer = "running"
          /\ client'[c].conn = client[c].conn /\ client[c].reader = "registering"
      BY <1>6, RegisterDoes, Zenon
    <3>2. client'[c].conn # "none"
      BY <1>1, <3>1, Zenon
    <3> QED BY <3>1, <3>2
  <2> QED BY <1>3, <1>6, <2>1, RegisterDoes, Zenon
<1>7. ASSUME NEW c \in Client, unregisterClient(c) PROVE \A d \in Client : Fresh(client'[d])
  <2>1. Fresh(client'[c])
    <3>1. /\ client[c].reader = "leaving" /\ client'[c].reader = "closing"
          /\ client'[c].writer = client[c].writer /\ client'[c].conn = client[c].conn
      BY <1>7, UnregisterDoes, Zenon
    <3>2. client'[c].writer # "none" /\ client'[c].conn # "none"
      BY <1>1, <3>1
    <3> QED BY <3>1, <3>2
  <2> QED BY <1>3, <1>7, <2>1, UnregisterDoes, Zenon
<1>8. ASSUME NEW c \in Client, PumpSteps(c) PROVE \A d \in Client : Fresh(client'[d])
  <2>1. /\ client'[c].conn = "none" => client[c].conn = "none"
        /\ client[c].conn = "none" =>
             client[c].writer = "running" \/ client[c].reader \in {"reading", "closing"}
        /\ \/ client'[c].reader = client[c].reader
           \/ client[c].reader = "reading" /\ client'[c].reader = "leaving"
           \/ client[c].reader = "closing" /\ client'[c].reader = "done"
        /\ \/ client'[c].writer = client[c].writer
           \/ client[c].writer = "running" /\ client'[c].writer = "done"
    BY <1>8, PumpsDo, Zenon
  <2>2. \/ client'[c].send = client[c].send /\ client'[c].got = client[c].got
           /\ (client'[c].burst = client[c].burst \/ client'[c].burst = 0)
        \/ client[c].send # <<>>
    BY <1>8, PumpsDo, Zenon
  <2>3. client'[c].closed = client[c].closed
    BY <1>8, PumpsDo, Zenon
  <2>4. client'[c].conn # "none"
    BY <1>1, <2>1
  <2>5. client'[c].reader \in {"none", "registering"} <=> client'[c].writer = "none"
    BY <1>1, <2>1
  <2>6. client'[c].writer = "none" => client[c].writer = "none"
    BY <2>1
  <2>7. Fresh(client'[c])
    BY <1>1, <2>2, <2>3, <2>4, <2>5, <2>6, Zenon
  <2>8. \A d \in Client : d # c => client'[d] = client[d]
    BY <1>8, PumpsDo, Zenon
  <2> HIDE DEF Fresh
  <2> QED BY <1>3, <2>7, <2>8, Zenon
<1>9. CASE broadcastToUsername
  <2>1. PICK u \in User, x \in Nat : Broadcasts(u, x)
    BY <1>9, BroadcastDoes, Zenon
  <2>2. ASSUME NEW c \in Client, Username[c] = u, Registered(c) PROVE Fresh(client'[c])
    <3>1. client[c].reader \in {"reading", "leaving"}
      BY <2>2, RegisteredIs, Zenon DEF ListInv
    <3>2. client[c].writer # "none"
      BY <1>1, <3>1
    <3>3. /\ client'[c].conn = client[c].conn /\ client'[c].reader = client[c].reader
          /\ client'[c].writer = client[c].writer
      BY <2>1, <2>2, Zenon DEF Broadcasts
    <3> QED BY <1>1, <3>2, <3>3, Zenon
  <2>3. ASSUME NEW c \in Client, ~(Username[c] = u /\ Registered(c)) PROVE Fresh(client'[c])
    <3>1. client'[c] = client[c]
      BY <2>1, <2>3, Zenon DEF Broadcasts
    <3> HIDE DEF Fresh
    <3> QED BY <1>1, <3>1, Zenon
  <2> QED BY <2>2, <2>3, Zenon
<1>10. CASE UNCHANGED vars
  BY <1>1, <1>10, Zenon DEF vars
<1> HIDE DEF Fresh
<1> QED BY <1>4, <1>5, <1>6, <1>7, <1>8, <1>9, <1>10, Zenon DEF Next, PumpSteps

\* A client leaves the list when its channel is closed by unregisterClient; a
\* channel closed by broadcastToUsername was full.
LEMMA ClosedStep ==
    ASSUME TypeOK, ListInv, FreshInv, ClosedInv, [Next]_vars
    PROVE  ClosedInv'
<1> DEFINE Ok(c) == /\ client'[c].writer # "none" /\ ~client'[c].closed => Registered(c)'
                    /\ client'[c].closed /\ Registered(c)' => client'[c].overflowed
<1>1. SUFFICES \A c \in Client : Ok(c)
  BY Zenon DEF ClosedInv
<1>2. ASSUME NEW d \in Client, client'[d] = client[d], Registered(d)' <=> Registered(d) PROVE Ok(d)
  BY <1>2, Zenon DEF ClosedInv
<1>3. ASSUME NEW u \in User, Forward(u) PROVE \A d \in Client : Ok(d)
  BY <1>2, <1>3, KeptByOthers, RegisteredStays, Zenon
<1>4. ASSUME NEW c \in Client, HandleWebSocket(c) \/ PumpSteps(c) PROVE \A d \in Client : Ok(d)
  <2>1. \A d \in Client : Registered(d)' <=> Registered(d)
    BY <1>4, KeptByOthers, RegisteredStays, Zenon
  <2>2. \A d \in Client : d # c => client'[d] = client[d]
    BY <1>4, HandleWebSocketDoes, PumpsDo, Zenon
  <2>3. client'[c].closed = client[c].closed /\ client'[c].overflowed = client[c].overflowed
    BY <1>4, HandleWebSocketDoes, PumpsDo, Zenon
  <2>4. client'[c].writer = client[c].writer \/ client[c].writer = "running"
    BY <1>4, HandleWebSocketDoes, PumpsDo, Zenon
  <2>5. client'[c].writer # "none" => client[c].writer # "none"
    BY <2>4
  <2>6. Ok(c)
    BY <2>1, <2>3, <2>5, Zenon DEF ClosedInv
  <2> HIDE DEF Ok
  <2> QED BY <1>2, <2>1, <2>2, <2>6, Zenon
<1>5. ASSUME NEW c \in Client, registerClient(c) PROVE \A d \in Client : Ok(d)
  <2>1. \A d \in Client : Registered(d)' <=> Registered(d) \/ d = c
    BY <1>5, RegisterLists, Zenon
  <2>2. \A d \in Client : d # c => client'[d] = client[d]
    BY <1>5, RegisterDoes, Zenon
  <2>3. client'[c].closed = client[c].closed /\ client[c].reader = "registering"
    BY <1>5, RegisterDoes, Zenon
  <2>4. ~client[c].closed
    BY <2>3 DEF FreshInv
  <2>5. Ok(c)
    BY <2>1, <2>3, <2>4, Zenon
  <2> HIDE DEF Ok
  <2> QED BY <1>2, <2>1, <2>2, <2>5, Zenon
<1>6. ASSUME NEW c \in Client, unregisterClient(c) PROVE \A d \in Client : Ok(d)
  <2>1. \A d \in Client : Registered(d)' <=> Registered(d) /\ d # c
    BY <1>6, UnregisterLists, Zenon
  <2>2. \A d \in Client : d # c => client'[d] = client[d]
    BY <1>6, UnregisterDoes, Zenon
  <2>3. /\ client'[c].closed <=> client[c].closed \/ Registered(c)
        /\ client'[c].writer = client[c].writer
    BY <1>6, UnregisterDoes, Zenon
  <2>4. Ok(c)
    BY <2>1, <2>3, Zenon DEF ClosedInv
  <2> HIDE DEF Ok
  <2> QED BY <1>2, <2>1, <2>2, <2>4, Zenon
<1>7. CASE broadcastToUsername
  <2>1. PICK u \in User, x \in Nat : Broadcasts(u, x)
    BY <1>7, BroadcastDoes, Zenon
  <2>2. \A d \in Client : Registered(d)' <=> Registered(d)
    BY <1>7, RegisteredStays, Zenon DEF broadcastToUsername
  <2>3. ASSUME NEW c \in Client, Username[c] = u, Registered(c) PROVE Ok(c)
    <3>1. \/ client'[c].closed = client[c].closed /\ client'[c].overflowed = client[c].overflowed
          \/ client'[c].closed = TRUE /\ client'[c].overflowed = TRUE
      BY <2>1, <2>3, Zenon DEF Broadcasts
    <3> QED BY <2>2, <2>3, <3>1, Zenon DEF ClosedInv
  <2>4. ASSUME NEW c \in Client, ~(Username[c] = u /\ Registered(c)) PROVE Ok(c)
    <3>1. client'[c] = client[c]
      BY <2>1, <2>4, Zenon DEF Broadcasts
    <3> QED BY <1>2, <2>2, <3>1, Zenon
  <2> HIDE DEF Ok
  <2> QED BY <2>3, <2>4, Zenon
<1>8. CASE UNCHANGED vars
  BY <1>2, <1>8, RegisteredStays, Zenon DEF vars
<1> HIDE DEF Ok
<1> QED BY <1>3, <1>4, <1>5, <1>6, <1>7, <1>8, Zenon DEF Next, PumpSteps

\* A burst is what is queued at its start: only its own frames are taken.
LEMMA BurstStep ==
    ASSUME TypeOK, ListInv, BurstBacked, [Next]_vars
    PROVE  BurstBacked'
<1> DEFINE Ok(c) == client'[c].burst <= Len(client'[c].send)
<1>1. SUFFICES \A c \in Client : Ok(c)
  BY Zenon DEF BurstBacked
<1>2. ASSUME NEW d \in Client, client'[d].send = client[d].send, client'[d].burst = client[d].burst PROVE Ok(d)
  BY <1>2, Zenon DEF BurstBacked
<1>3. \A d \in Client : client'[d] = client[d] => Ok(d)
  BY <1>2, Zenon
<1>4. ASSUME NEW u \in User, Forward(u) PROVE \A d \in Client : Ok(d)
  BY <1>3, <1>4, KeptByOthers, Zenon
<1>5. ASSUME NEW c \in Client, HandleWebSocket(c) \/ registerClient(c) \/ unregisterClient(c)
      PROVE  \A d \in Client : Ok(d)
  <2>1. /\ \A d \in Client : d # c => client'[d] = client[d]
        /\ client'[c].send = client[c].send /\ client'[c].burst = client[c].burst
    BY <1>5, HandleWebSocketDoes, RegisterDoes, UnregisterDoes, ZenonT(60)
  <2> HIDE DEF Ok
  <2> QED BY <1>2, <1>3, <2>1, Zenon
<1>6. ASSUME NEW c \in Client, PumpSteps(c) PROVE \A d \in Client : Ok(d)
  <2>1. PICK q, b : q = client[c].send /\ b = client[c].burst
    BY Zenon
  <2>2. q \in Seq(Nat) /\ b \in Nat /\ b <= Len(q)
    BY <2>1, Zenon DEF TypeOK, ClientState, BurstBacked
  <2>3. \/ client'[c].send = q /\ (client'[c].burst = b \/ client'[c].burst = 0)
        \/ /\ q # <<>> /\ client'[c].send = Tail(q)
           /\ client'[c].burst = Burst(c) \/ client'[c].burst = 0
    BY <1>6, <2>1, PumpsDo, Zenon
  <2>4. Burst(c) = IF b > 0 THEN b - 1 ELSE Len(q) - 1
    BY <2>1, Zenon DEF Burst
  <2>5. 0 <= Len(q) /\ (q # <<>> => 0 <= Len(Tail(q)) /\ Len(Tail(q)) = Len(q) - 1 /\ Len(q) \in Nat)
    BY <2>2
  <2>6. q # <<>> => Burst(c) <= Len(Tail(q))
    BY <2>2, <2>4, <2>5
  <2>7. Ok(c)
    BY <2>2, <2>3, <2>5, <2>6, Zenon
  <2>8. \A d \in Client : d # c => client'[d] = client[d]
    BY <1>6, PumpsDo, Zenon
  <2> HIDE DEF Ok
  <2> QED BY <1>3, <2>7, <2>8, Zenon
<1>7. CASE broadcastToUsername
  <2>1. PICK u \in User, x \in Nat : Broadcasts(u, x)
    BY <1>7, BroadcastDoes, Zenon
  <2>2. ASSUME NEW c \in Client, Username[c] = u, Registered(c) PROVE Ok(c)
    <3>1. PICK q, b : q = client[c].send /\ b = client[c].burst
      BY Zenon
    <3>2. q \in Seq(Nat) /\ b \in Nat /\ b <= Len(q)
      BY <3>1, Zenon DEF TypeOK, ClientState, BurstBacked
    <3>3. client'[c].burst = b /\ (client'[c].send = q \/ client'[c].send = Append(q, x))
      BY <2>1, <2>2, <3>1, Zenon DEF Broadcasts
    <3>4. Len(Append(q, x)) = Len(q) + 1 /\ Len(q) \in Nat
      BY <3>2, AppendProperties, LenProperties
    <3>5. b <= Len(Append(q, x))
      BY <3>2, <3>4
    <3> QED BY <3>2, <3>3, <3>5, Zenon
  <2>3. ASSUME NEW c \in Client, ~(Username[c] = u /\ Registered(c)) PROVE Ok(c)
    <3>1. client'[c] = client[c]
      BY <2>1, <2>3, Zenon DEF Broadcasts
    <3> QED BY <1>3, <3>1, Zenon
  <2> HIDE DEF Ok
  <2> QED BY <2>2, <2>3, Zenon
<1>8. CASE UNCHANGED vars
  BY <1>3, <1>8, Zenon DEF vars
<1> HIDE DEF Ok
<1> QED BY <1>4, <1>5, <1>6, <1>7, <1>8, Zenon DEF Next, PumpSteps

\* A channel that was full stays marked, and a panic comes of a closed channel
\* in the list.
LEMMA PanicStep ==
    ASSUME TypeOK, ListInv, ClosedInv, PanicsAfterOverflow, [Next]_vars
    PROVE  PanicsAfterOverflow'
<1>1. ASSUME panicked' => panicked,
             \A d \in Client : client[d].overflowed => client'[d].overflowed
      PROVE  PanicsAfterOverflow'
  BY <1>1, Zenon DEF PanicsAfterOverflow
<1>2. ASSUME NEW u \in User, Forward(u) PROVE PanicsAfterOverflow'
  BY <1>1, <1>2, KeptByOthers, Zenon
<1>3. ASSUME NEW c \in Client, HandleWebSocket(c) \/ registerClient(c) \/ PumpSteps(c)
      PROVE  PanicsAfterOverflow'
  <2>1. /\ \A d \in Client : d # c => client'[d] = client[d]
        /\ client'[c].overflowed = client[c].overflowed
    BY <1>3, HandleWebSocketDoes, RegisterDoes, PumpsDo, ZenonT(60)
  <2>2. panicked' = panicked
    BY <1>3, KeptByOthers, Zenon DEF registerClient
  <2> QED BY <1>1, <2>1, <2>2, Zenon
<1>4. ASSUME NEW c \in Client, unregisterClient(c) PROVE PanicsAfterOverflow'
  <2>1. /\ \A d \in Client : d # c => client'[d] = client[d]
        /\ client'[c].overflowed = client[c].overflowed
    BY <1>4, UnregisterDoes, Zenon
  <2>2. panicked' => Registered(c) /\ client[c].closed
    BY <1>4, Zenon DEF unregisterClient
  <2> QED BY <2>1, <2>2, Zenon DEF ClosedInv, PanicsAfterOverflow
<1>5. CASE broadcastToUsername
  <2>1. PICK u \in User, x \in Nat : Broadcasts(u, x)
    BY <1>5, BroadcastDoes, Zenon
  <2>2. ASSUME panicked' PROVE \E c \in Client : client'[c].overflowed
    <3>1. PICK c \in Client : Username[c] = u /\ Registered(c) /\ client[c].closed
      BY <2>1, <2>2, Zenon DEF Broadcasts
    <3>2. client'[c].overflowed = client[c].overflowed \/ client'[c].overflowed = TRUE
      BY <2>1, <3>1, Zenon DEF Broadcasts
    <3> QED BY <3>1, <3>2, Zenon DEF ClosedInv
  <2> QED BY <2>2, Zenon DEF PanicsAfterOverflow
<1>6. CASE UNCHANGED vars
  BY <1>1, <1>6, Zenon DEF vars
<1> QED BY <1>2, <1>3, <1>4, <1>5, <1>6, Zenon DEF Next, PumpSteps

\* The streams keep without a gap.
LEMMA StreamStep ==
    ASSUME TypeOK, ListInv, FreshInv, ClosedInv, StreamInv, [Next]_vars
    PROVE  StreamInv'
<1> DEFINE Ok(w, cl, p, g, q, t, k) ==
        w # "none" =>
            /\ Follows(g, t, k)
            /\ w = "running" /\ ~p => Follows(g \o q, t, k)
            /\ w = "running" /\ ~cl => Follows(g \o q, t, k) /\ Len(g \o q) + k = Len(t)
     Old(c) == Ok(client[c].writer, client[c].closed, panicked, client[c].got, client[c].send,
                  sent[Username[c]], from[c])
     New(c) == Ok(client'[c].writer, client'[c].closed, panicked', client'[c].got, client'[c].send,
                  sent'[Username[c]], from'[c])
<1>1. \A c \in Client : Old(c)
  BY Zenon DEF StreamInv, Stream
<1>2. SUFFICES \A c \in Client : New(c)
  BY Zenon DEF StreamInv, Stream
<1>3. /\ \A c \in Client : client[c].got \in Seq(Nat) /\ client[c].send \in Seq(Nat)
      /\ \A c \in Client : sent[Username[c]] \in Seq(Nat) /\ from[c] \in Nat /\ Username[c] \in User
  BY FanoutAssumption, Zenon DEF TypeOK, ClientState
<1>4. CASE UNCHANGED vars
  BY <1>1, <1>4, Zenon DEF vars
<1>5. ASSUME ~panicked, NEW d \in Client,
             sent'[Username[d]] = sent[Username[d]], from'[d] = from[d],
             client'[d].got = client[d].got, client'[d].send = client[d].send,
             client'[d].writer = client[d].writer \/ (client'[d].writer = "done" /\ client[d].writer = "running"),
             client[d].closed => client'[d].closed
      PROVE  New(d)
  <2>1. client'[d].writer # "none" => client[d].writer # "none"
    BY <1>5
  <2>2. client'[d].writer = "running" => client[d].writer = "running"
    BY <1>5
  <2> QED BY <1>1, <1>5, <2>1, <2>2, Zenon
<1>6. ASSUME ~panicked, NEW d \in Client, client'[d] = client[d], UNCHANGED <<sent, from>> PROVE New(d)
  BY <1>5, <1>6, Zenon
<1> HIDE DEF New, Old, Ok
<1>7. ASSUME ~panicked, NEW u \in User, Forward(u) PROVE \A d \in Client : New(d)
  BY <1>6, <1>7, KeptByOthers, Zenon
<1>8. ASSUME ~panicked, NEW c \in Client, HandleWebSocket(c) PROVE \A d \in Client : New(d)
  <2>1. UNCHANGED <<sent, from>>
    BY <1>8, KeptByOthers, Zenon
  <2>2. \A d \in Client : d # c => client'[d] = client[d]
    BY <1>8, HandleWebSocketDoes, Zenon
  <2>3. /\ client'[c].got = client[c].got /\ client'[c].send = client[c].send
        /\ client'[c].writer = client[c].writer /\ client'[c].closed = client[c].closed
    BY <1>8, HandleWebSocketDoes, Zenon
  <2>4. New(c)
    BY <1>5, <1>8, <2>1, <2>3, Zenon
  <2> QED BY <1>6, <1>8, <2>1, <2>2, <2>4, Zenon
<1>9. ASSUME ~panicked, NEW c \in Client, registerClient(c) PROVE \A d \in Client : New(d)
  <2>1. sent' = sent /\ from' = [from EXCEPT ![c] = Len(sent[Username[c]])]
    BY <1>9, Zenon DEF registerClient
  <2>2. from'[c] = Len(sent[Username[c]]) /\ \A d \in Client : d # c => from'[d] = from[d]
    BY <2>1, Zenon DEF TypeOK
  <2>3. \A d \in Client : d # c => client'[d] = client[d]
    BY <1>9, RegisterDoes, Zenon
  <2>4. \A d \in Client : d # c => New(d)
    BY <1>5, <1>9, <2>1, <2>2, <2>3, Zenon
  <2>5. client'[c].got = <<>> /\ client'[c].send = <<>>
    <3>1. /\ client'[c].got = client[c].got /\ client'[c].send = client[c].send
          /\ client[c].reader = "registering"
      BY <1>9, RegisterDoes, Zenon
    <3>2. client[c].reader \in {"none", "registering"}
      BY <3>1
    <3> QED BY <3>1, <3>2, Zenon DEF FreshInv
  <2>6. ASSUME NEW s \in Seq(Nat)
        PROVE  /\ Follows(<<>>, s, Len(s)) /\ Follows(<<>> \o <<>>, s, Len(s))
               /\ Len(<<>> \o <<>>) + Len(s) = Len(s)
    <3>1. <<>> \o <<>> = <<>>
      OBVIOUS
    <3>2. Len(s) \in Nat
      BY LenProperties
    <3>3. Len(<<>>) + Len(s) = Len(s) /\ Len(<<>>) + Len(s) <= Len(s)
      BY <3>2
    <3>4. \A i \in 1..Len(<<>>) : FALSE
      OBVIOUS
    <3>5. Follows(<<>>, s, Len(s))
      BY <3>3, <3>4, Zenon DEF Follows
    <3> QED BY <3>1, <3>3, <3>5
  <2>7. New(c)
    BY <1>3, <2>1, <2>2, <2>5, <2>6, Zenon DEF New, Ok
  <2> QED BY <2>4, <2>7, Zenon
<1>10. ASSUME ~panicked, NEW c \in Client, unregisterClient(c) PROVE \A d \in Client : New(d)
  <2>1. UNCHANGED <<sent, from>>
    BY <1>10, Zenon DEF unregisterClient
  <2>2. \A d \in Client : d # c => client'[d] = client[d]
    BY <1>10, UnregisterDoes, Zenon
  <2>3. /\ client'[c].got = client[c].got /\ client'[c].send = client[c].send
        /\ client'[c].writer = client[c].writer /\ (client[c].closed => client'[c].closed)
    BY <1>10, UnregisterDoes, Zenon
  <2>4. New(c)
    BY <1>5, <1>10, <2>1, <2>3, Zenon
  <2> QED BY <1>6, <1>10, <2>1, <2>2, <2>4, Zenon
<1>11. ASSUME ~panicked, NEW c \in Client, PumpSteps(c) PROVE \A d \in Client : New(d)
  <2>1. UNCHANGED <<sent, from, panicked>>
    BY <1>11, KeptByOthers, Zenon
  <2>2. \A d \in Client : d # c => client'[d] = client[d]
    BY <1>11, PumpsDo, Zenon
  <2>3. /\ client'[c].closed = client[c].closed
        /\ client'[c].writer = client[c].writer \/ (client'[c].writer = "done" /\ client[c].writer = "running")
    BY <1>11, PumpsDo, Zenon
  <2>4. ASSUME client'[c].send = client[c].send, client'[c].got = client[c].got PROVE New(c)
    BY <1>5, <1>11, <2>1, <2>3, <2>4, Zenon
  <2>5. PICK g, q, s, k : g = client[c].got /\ q = client[c].send /\ s = sent[Username[c]] /\ k = from[c]
    BY Zenon
  <2>6. g \in Seq(Nat) /\ q \in Seq(Nat) /\ s \in Seq(Nat) /\ k \in Nat
    BY <1>3, <2>5, Zenon
  <2>7. ASSUME q # <<>>, client'[c].send = Tail(q), client[c].writer = "running",
               client'[c].got = Append(g, Head(q))
        PROVE  New(c)
    <3>1. PICK h, r : h = Append(g, Head(q)) /\ r = Tail(q)
      BY Zenon
    <3>2. h \in Seq(Nat) /\ r \in Seq(Nat) /\ h \o r = g \o q
      BY <2>6, <2>7, <3>1, StreamMoves, Zenon
    <3>3. Ok("running", client[c].closed, panicked, g, q, s, k)
      BY <1>1, <2>5, <2>7, Zenon DEF Old
    <3>4. Follows(g \o q, s, k)
      BY <1>11, <3>3 DEF Ok
    <3>5. Follows(h, s, k)
      BY <2>6, <3>2, <3>4, FollowsFront, Zenon
    <3>6. New(c) <=> Ok(client'[c].writer, client[c].closed, panicked, h, r, s, k)
      BY <2>1, <2>3, <2>5, <2>7, <3>1, Zenon DEF New
    <3>7. ~client[c].closed => Len(h \o r) + k = Len(s)
      BY <3>2, <3>3 DEF Ok
    <3> QED BY <3>2, <3>4, <3>5, <3>6, <3>7, Zenon DEF Ok
  <2>8. ASSUME client'[c].got = g, client'[c].writer = "done", client[c].writer = "running" PROVE New(c)
    <3>1. Follows(g, s, k)
      <4>1. client[c].writer # "none"
        BY <2>8
      <4> QED BY <1>1, <2>5, <4>1, Zenon DEF Old, Ok
    <3>2. client'[c].writer # "running"
      BY <2>8
    <3> QED BY <2>1, <2>5, <2>8, <3>1, <3>2, Zenon DEF New, Ok
  <2>9. New(c)
    <3>1. \/ client'[c].send = client[c].send /\ client'[c].got = client[c].got
          \/ /\ q # <<>> /\ client'[c].send = Tail(q) /\ client[c].writer = "running"
             /\ client'[c].got = Append(g, Head(q))
          \/ /\ client'[c].got = g /\ client'[c].writer = "done" /\ client[c].writer = "running"
      BY <1>11, <2>5, PumpsDo, Zenon
    <3> QED BY <2>4, <2>7, <2>8, <3>1, Zenon
  <2> QED BY <1>6, <1>11, <2>1, <2>2, <2>9, Zenon
<1>12. ASSUME ~panicked, broadcastToUsername PROVE \A d \in Client : New(d)
  <2>1. PICK u \in User, x \in Nat : Broadcasts(u, x)
    BY <1>12, BroadcastDoes, Zenon
  <2>2. from' = from
    BY <1>12, Zenon DEF broadcastToUsername
  <2>3. ASSUME NEW c \in Client, Username[c] # u PROVE New(c)
    <3>1. sent'[Username[c]] = sent[Username[c]] /\ client'[c] = client[c]
      BY <1>3, <2>1, <2>3, Zenon DEF Broadcasts, TypeOK
    <3> QED BY <1>5, <1>12, <2>2, <2>3, <3>1, Zenon
  <2>4. ASSUME NEW c \in Client, Username[c] = u PROVE New(c)
    <3>1. PICK g, q, s, k, v : /\ g = client[c].got /\ q = client[c].send /\ s = sent[u] /\ k = from[c]
                               /\ v = Append(s, x)
      BY Zenon
    <3>2. g \in Seq(Nat) /\ q \in Seq(Nat) /\ s \in Seq(Nat) /\ k \in Nat /\ g \o q \in Seq(Nat)
      BY <1>3, <2>4, <3>1, ConcatProperties, Zenon
    <3>3. sent'[Username[c]] = v
      BY <2>1, <2>4, <3>1, Zenon DEF Broadcasts, TypeOK
    <3>4. /\ Follows(g, s, k) => Follows(g, v, k)
          /\ Follows(g \o q, s, k) => Follows(g \o q, v, k)
      BY <3>1, <3>2, FollowsGrows, Zenon
    <3>5. Ok(client[c].writer, client[c].closed, panicked, g, q, s, k)
      BY <1>1, <2>4, <3>1, Zenon DEF Old
    <3>6. client'[c].writer = client[c].writer /\ client'[c].got = g
      BY <2>1, <2>4, <3>1, Zenon DEF Broadcasts
    <3>7. CASE ~Registered(c)
      <4>1. client'[c] = client[c]
        BY <2>1, <3>7, Zenon DEF Broadcasts
      <4>2. client[c].writer # "none" => client[c].closed
        BY <3>7, Zenon DEF ClosedInv
      <4>3. New(c) <=> Ok(client[c].writer, client[c].closed, panicked', g, q, v, k)
        BY <2>2, <3>1, <3>3, <4>1, Zenon DEF New
      <4> QED BY <1>12, <3>4, <3>5, <4>2, <4>3, Zenon DEF Ok
    <3>8. CASE Registered(c) /\ client'[c].send = q /\ client'[c].closed = TRUE
      <4>1. New(c) <=> Ok(client[c].writer, TRUE, panicked', g, q, v, k)
        BY <2>2, <3>1, <3>3, <3>6, <3>8, Zenon DEF New
      <4> QED BY <1>12, <3>4, <3>5, <4>1, Zenon DEF Ok
    <3>9. CASE Registered(c) /\ client'[c].send = Append(q, x) /\ client'[c].closed = client[c].closed
      <4>1. New(c) <=> Ok(client[c].writer, client[c].closed, panicked', g, Append(q, x), v, k)
        BY <2>2, <3>1, <3>3, <3>6, <3>9, Zenon DEF New
      <4>2. client[c].closed => panicked'
        BY <2>1, <2>4, <3>9, Zenon DEF Broadcasts
      <4>3. ASSUME Follows(g \o q, s, k), Len(g \o q) + k = Len(s)
            PROVE  /\ Follows(g \o Append(q, x), v, k)
                   /\ Len(g \o Append(q, x)) + k = Len(v)
        <5>1. /\ Follows(g \o Append(q, x), Append(s, x), k)
              /\ Len(g \o Append(q, x)) + k = Len(Append(s, x))
          BY <3>2, <4>3, FollowsAppend
        <5> QED BY <3>1, <5>1, Zenon
      <4> QED BY <3>4, <3>5, <4>1, <4>2, <4>3, Zenon DEF Ok
    <3>10. Registered(c) => \/ client'[c].send = q /\ client'[c].closed = TRUE
                            \/ client'[c].send = Append(q, x) /\ client'[c].closed = client[c].closed
      BY <2>1, <2>4, <3>1, Zenon DEF Broadcasts
    <3> QED BY <3>7, <3>8, <3>9, <3>10, Zenon
  <2> QED BY <2>3, <2>4, Zenon
<1>13. Next => ~panicked
  BY Zenon DEF Next
<1> QED BY <1>4, <1>7, <1>8, <1>9, <1>10, <1>11, <1>12, <1>13, Zenon DEF Next, PumpSteps

\* The invariant holds at the start, and every step keeps it.
THEOREM Invariance == Spec => []IInv
<1>1. Init => IInv
  <2> SUFFICES ASSUME Init PROVE IInv
    OBVIOUS
  <2>1. NoClient \in ClientState
    <3>1. <<>> \in Seq(Nat) /\ 0 \in Nat
      BY EmptySeq
    <3> QED BY <3>1, Zenon DEF NoClient, ClientState
  <2>2. \A c \in Client : client[c] = NoClient
    BY Zenon DEF Init
  <2>3. TypeOK
    <3>1. 0 \in 0..MaxEvents /\ 0 \in Nat /\ 0 <= QueueCap /\ 0 <= SendCap
      BY FanoutAssumption
    <3>2. <<>> \in Seq(Message) /\ <<>> \in Seq(Client) /\ <<>> \in Seq(Nat) /\ Len(<<>>) = 0
      BY EmptySeq
    <3>3. NoClient.send = <<>>
      BY DEF NoClient
    <3> QED BY <2>1, <2>2, <3>1, <3>2, <3>3, Zenon DEF Init, TypeOK
  <2>4. \A u \in User, c \in Client : ~In(c, connections[u])
    BY DEF Init, In
  <2>5. \A u \in User : Distinct(connections[u])
    BY DEF Init, Distinct
  <2>6. ListInv
    BY <2>4, <2>5, Zenon DEF ListInv
  <2>7. /\ NoClient.conn = "none" /\ NoClient.reader = "none" /\ NoClient.writer = "none"
        /\ NoClient.send = <<>> /\ NoClient.got = <<>> /\ NoClient.burst = 0
        /\ ~NoClient.closed /\ 0 <= Len(<<>>)
    BY DEF NoClient
  <2>8. FreshInv
    BY <2>2, <2>7 DEF FreshInv
  <2>9. ClosedInv /\ StreamInv
    BY <2>2, <2>7, Zenon DEF ClosedInv, StreamInv
  <2>10. BurstBacked /\ PanicsAfterOverflow
    BY <2>2, <2>7, Zenon DEF BurstBacked, PanicsAfterOverflow, Init
  <2> QED BY <2>3, <2>6, <2>8, <2>9, <2>10, Zenon DEF IInv
<1>2. IInv /\ [Next]_vars => IInv'
  BY TypeStep, ListStep, FreshStep, ClosedStep, StreamStep, BurstStep, PanicStep, Zenon DEF IInv
<1> QED BY <1>1, <1>2, PTL DEF Spec

\* The send channels never hold more than their capacity, the list of a user
\* only clients, and so on for the types of the code.
THEOREM TypeCorrect == Spec => []TypeOK
<1>1. IInv => TypeOK
  BY Zenon DEF IInv
<1> QED BY <1>1, Invariance, PTL

\* A peer gets its user's events without a gap and in order from the moment the
\* hub registered it: a slow one is cut off, it never misses one in between.
THEOREM GaplessHolds == Spec => []Gapless
<1>1. IInv => Gapless
  <2> SUFFICES ASSUME IInv, NEW c \in Client, client[c].writer # "none"
               PROVE  /\ IsPrefixOf(client[c].got, SinceRegistered(c))
                      /\ ~client[c].closed /\ client[c].writer = "running" =>
                            client[c].got \o client[c].send = SinceRegistered(c)
    BY Zenon DEF Gapless
  <2>1. PICK g, q, s, k, z : /\ g = client[c].got /\ q = client[c].send /\ s = sent[Username[c]]
                             /\ k = from[c] /\ z = g \o q
    BY Zenon
  <2>2. g \in Seq(Nat) /\ q \in Seq(Nat) /\ s \in Seq(Nat) /\ k \in Nat
    BY <2>1, FanoutAssumption, Zenon DEF IInv, TypeOK, ClientState
  <2>3. z \in Seq(Nat)
    BY <2>1, <2>2, ConcatProperties
  <2>4. /\ Follows(g, s, k)
        /\ ~client[c].closed /\ client[c].writer = "running" => Follows(z, s, k) /\ Len(z) + k = Len(s)
    BY <2>1, Zenon DEF IInv, StreamInv, Stream
  <2>5. IsPrefixOf(g, SubSeq(s, k + 1, Len(s)))
    BY <2>2, <2>4, FollowsIsPrefix, Zenon
  <2>6. Follows(z, s, k) /\ Len(z) + k = Len(s) => z = SubSeq(s, k + 1, Len(s))
    BY <2>2, <2>3, FollowsIsPrefix, Zenon
  <2> QED BY <2>1, <2>4, <2>5, <2>6, Zenon DEF SinceRegistered
<1> QED BY <1>1, Invariance, PTL

\* writePump's inner loop never waits for a frame and never takes one from a
\* channel that was closed and drained: its frames are all queued.
THEOREM BurstBackedHolds == Spec => []BurstBacked
<1>1. IInv => BurstBacked
  BY Zenon DEF IInv
<1> QED BY <1>1, Invariance, PTL

\* unregisterClient's close and broadcastToUsername's send meet a closed channel
\* only if broadcastToUsername itself has closed it, because it was full.
THEOREM PanicsAfterOverflowHolds == Spec => []PanicsAfterOverflow
<1>1. IInv => PanicsAfterOverflow
  BY Zenon DEF IInv
<1> QED BY <1>1, Invariance, PTL
=============================================================================
