--------------------------- MODULE FunctionProofs ---------------------------
(***************************************************************************)
(* Theorems about the pure functions of Security and SqlScript, for inputs *)
(* of any length: the address of the visitor, the check of an upload, what *)
(* is made of a request's score, and the statements of a migration file.   *)
(***************************************************************************)
EXTENDS ConsoleProofs

----------------------------------------------------------------------------
(* Induction: the library's theorems about it take a predicate as a        *)
(* parameter; these take a set, and follow from the well-foundedness of <. *)

\* A set of numbers that is not empty has a least one.
LEMMA LeastNumber ==
    ASSUME NEW T \in SUBSET Nat, T # {}
    PROVE  \E x \in T : \A y \in T : x <= y
<1> DEFINE R == OpToRel(<, Nat)
<1>1. IsWellFoundedOn(R, Nat)
  BY NatLessThanWellFounded
<1>2. \A x, y \in Nat : x < y => <<x, y>> \in R
  BY DEF OpToRel
<1> HIDE DEF R
<1>3. PICK x \in T : \A y \in T : ~ (<<y, x>> \in R)
  BY <1>1, WFMin
<1>4. \A y \in T : ~(y < x)
  BY <1>2, <1>3
<1> QED
  BY <1>4

\* A set that holds 0 and with every number the next one holds them all.
LEMMA Induction ==
    ASSUME NEW S, 0 \in S, \A n \in Nat : n \in S => n + 1 \in S
    PROVE  \A n \in Nat : n \in S
<1> SUFFICES ASSUME NEW k \in Nat, k \notin S PROVE FALSE
  OBVIOUS
<1> DEFINE T == Nat \ S
<1>1. PICK m \in T : \A y \in T : m <= y
  BY LeastNumber
<1>2. m # 0 /\ m - 1 \in Nat /\ m - 1 \notin T
  BY <1>1
<1> QED
  BY <1>1, <1>2

\* The values of a recursive function over 0..N: it starts with base and each
\* step makes the next value of the last one.
Iterates(f, base, step, N) ==
    /\ f[0] = base
    /\ \A n \in 1..N : f[n] = step[<<n, f[n - 1]>>]

\* There is such a function.
LEMMA Iterable ==
    ASSUME NEW S, NEW base \in S, NEW N \in Nat, NEW step \in [(1..N) \X S -> S]
    PROVE  \E f \in [0..N -> S] : Iterates(f, base, step, N)
<1> DEFINE G == {k \in Nat : k <= N => \E f \in [0..k -> S] : Iterates(f, base, step, k)}
<1>1. 0 \in G
  <2> DEFINE f == [n \in 0..0 |-> base]
  <2>1. f \in [0..0 -> S] /\ Iterates(f, base, step, 0)
    BY DEF Iterates
  <2> QED BY <2>1
<1>2. ASSUME NEW k \in Nat, k \in G PROVE k + 1 \in G
  <2> SUFFICES ASSUME k + 1 <= N
               PROVE  \E f \in [0..(k + 1) -> S] : Iterates(f, base, step, k + 1)
    OBVIOUS
  <2>1. PICK g \in [0..k -> S] : Iterates(g, base, step, k)
    BY <1>2
  <2> DEFINE v == step[<<k + 1, g[k]>>]
             f == [n \in 0..(k + 1) |-> IF n <= k THEN g[n] ELSE v]
  <2>2. v \in S
    OBVIOUS
  <2>3. f \in [0..(k + 1) -> S]
    BY <2>2
  <2>4. f[0] = base
    BY <2>1 DEF Iterates
  <2>5. ASSUME NEW n \in 1..(k + 1) PROVE f[n] = step[<<n, f[n - 1]>>]
    <3>1. CASE n <= k
      BY <2>1, <3>1 DEF Iterates
    <3>2. CASE n = k + 1
      BY <3>2
    <3> QED BY <3>1, <3>2
  <2> QED BY <2>3, <2>4, <2>5 DEF Iterates
<1> HIDE DEF G
<1>3. N \in G
  BY <1>1, <1>2, Induction
<1> QED BY <1>3 DEF G

----------------------------------------------------------------------------
(* The address of the visitor and the check of an upload.                  *)

\* With n addresses appended, all those before it are the header's own.
LEMMA AppendedPlaces ==
    ASSUME NEW n \in Nat, NEW p \in Nat, NEW S \in SUBSET (1..n)
    PROVE  LET T == S \union ((n + 1)..(n + p)) IN
           /\ T \in SUBSET (1..(n + p))
           /\ {j \in T : j < n + 1} = S
           /\ Cardinality(S) \in Nat
           /\ Cardinality(T) = Cardinality(S) + p
<1> DEFINE added == (n + 1)..(n + p)
<1>1. IsFiniteSet(added) /\ Cardinality(added) = p
  BY FS_Interval
<1>2. IsFiniteSet(S) /\ Cardinality(S) \in Nat
  BY PlacesCounted
<1>3. S \intersect added = {}
  OBVIOUS
<1>4. S \union added \in SUBSET (1..(n + p)) /\ {j \in S \union added : j < n + 1} = S
  <2>1. \A j \in S : j \in 1..(n + p) /\ j < n + 1
    OBVIOUS
  <2>2. \A j \in added : j \in 1..(n + p) /\ ~(j < n + 1)
    OBVIOUS
  <2> HIDE DEF added
  <2> QED BY <2>1, <2>2
<1>5. Cardinality(S \union added) = Cardinality(S) + p
  <2> HIDE DEF added
  <2>1. Cardinality(S \union added)
          = Cardinality(S) + Cardinality(added) - Cardinality(S \intersect added)
    BY <1>1, <1>2, FS_Union
  <2>2. Cardinality(S \intersect added) = 0
    BY <1>3, FS_EmptySet
  <2> QED BY <1>1, <1>2, <2>1, <2>2
<1> QED BY <1>2, <1>4, <1>5

\* No two places have as many before them.
LEMMA PlacesDiffer ==
    ASSUME NEW n \in Nat, NEW S \in SUBSET (1..n), NEW a \in S, NEW b \in S, a < b
    PROVE  Cardinality({j \in S : j < a}) < Cardinality({j \in S : j < b})
<1> DEFINE B == {j \in S : j < b}
<1>1. B \in SUBSET (1..n) /\ a \in B
  OBVIOUS
<1>2. {j \in B : j < a} = {j \in S : j < a}
  <2>1. \A j \in S : j < a => j < b
    OBVIOUS
  <2> QED BY <2>1
<1>3. Cardinality({j \in B : j < a}) < Cardinality(B)
  <2> HIDE DEF B
  <2> QED BY <1>1, PlacesCounted
<1> QED BY <1>2, <1>3

\* The p-th place from the end, if none of these p is empty.
LEMMA PlaceFromEnd ==
    ASSUME NEW n \in Nat, NEW p \in Nat, p # 0,
           NEW parts \in SUBSET (1..(n + p)), (n + 1)..(n + p) \subseteq parts
    PROVE  LET hops == IF p > 1 THEN p ELSE 1
               skipped == IF Cardinality(parts) > hops THEN Cardinality(parts) - hops ELSE 0
           IN  (CHOOSE i \in parts : Cardinality({j \in parts : j < i}) = skipped) = n + 1
<1> DEFINE own == parts \intersect (1..n)
           hops == IF p > 1 THEN p ELSE 1
           skipped == IF Cardinality(parts) > hops THEN Cardinality(parts) - hops ELSE 0
           place == CHOOSE i \in parts : Cardinality({j \in parts : j < i}) = skipped
<1>1. parts = own \union ((n + 1)..(n + p)) /\ own \in SUBSET (1..n)
  <2>1. \A i \in 1..(n + p) : i \in 1..n \/ i \in (n + 1)..(n + p)
    OBVIOUS
  <2> QED BY <2>1
<1> HIDE DEF own
<1>2. /\ parts \in SUBSET (1..(n + p)) /\ n + 1 \in parts
      /\ {j \in parts : j < n + 1} = own
      /\ Cardinality(own) \in Nat
      /\ Cardinality(parts) = Cardinality(own) + p
  <2>1. n + 1 \in (n + 1)..(n + p)
    OBVIOUS
  <2> QED BY <1>1, <2>1, AppendedPlaces
<1>3. skipped = Cardinality(own)
  BY <1>2
<1> HIDE DEF skipped
<1>4. place \in parts /\ Cardinality({j \in parts : j < place}) = skipped
  BY <1>2, <1>3
<1> HIDE DEF place
<1>5. place \in Nat /\ n + 1 \in Nat /\ n + p \in Nat /\ skipped \in Nat
  BY <1>2, <1>3, <1>4
<1>6. ~(place < n + 1)
  <2> SUFFICES ASSUME place < n + 1 PROVE FALSE
    OBVIOUS
  <2>1. Cardinality({j \in parts : j < place}) < Cardinality({j \in parts : j < n + 1})
    BY <1>2, <1>4, <1>5, PlacesDiffer
  <2> QED BY <1>2, <1>3, <1>4, <1>5, <2>1
<1>7. ~(n + 1 < place)
  <2> SUFFICES ASSUME n + 1 < place PROVE FALSE
    OBVIOUS
  <2>1. Cardinality({j \in parts : j < n + 1}) < Cardinality({j \in parts : j < place})
    BY <1>2, <1>4, <1>5, PlacesDiffer
  <2> QED BY <1>2, <1>3, <1>4, <1>5, <2>1
<1>8. place = n + 1
  BY <1>5, <1>6, <1>7
<1> QED BY <1>8 DEF place, skipped

Joined(sent, p, visitor, other) ==
    sent \o [i \in 1..p |-> IF i = 1 THEN visitor ELSE other]

\* What the proxies append stands behind the header's own entries.
LEMMA Appended ==
    ASSUME NEW Entry, NEW visitor \in Entry, NEW other \in Entry,
           NEW sent \in Seq(Entry), NEW p \in Nat, p # 0
    PROVE  /\ Len(sent) \in Nat
           /\ DOMAIN Joined(sent, p, visitor, other) = 1..(Len(sent) + p)
           /\ Joined(sent, p, visitor, other)[Len(sent) + 1] = visitor
           /\ \A i \in (Len(sent) + 1)..(Len(sent) + p) :
                /\ i \in 1..(Len(sent) + p)
                /\ Joined(sent, p, visitor, other)[i] \in {visitor, other}
<1> DEFINE added == [i \in 1..p |-> IF i = 1 THEN visitor ELSE other]
           n == Len(sent)
<1>1. added \in Seq(Entry) /\ Len(added) = p
  <2>1. \A i \in 1..p : (IF i = 1 THEN visitor ELSE other) \in Entry
    OBVIOUS
  <2> QED BY <2>1
<1>2. added[1] = visitor /\ \A i \in 1..p : added[i] \in {visitor, other}
  OBVIOUS
<1>3. n \in Nat
  OBVIOUS
<1> HIDE DEF added
<1>4. /\ sent \o added \in Seq(Entry) /\ Len(sent \o added) = n + Len(added)
      /\ \A i \in 1..(n + Len(added)) :
           (sent \o added)[i] = IF i <= n THEN sent[i] ELSE added[i - n]
  BY <1>1, ConcatProperties, Zenon
<1> HIDE DEF n
<1>5. DOMAIN (sent \o added) = 1..(n + p)
  <2>1. DOMAIN (sent \o added) = 1..Len(sent \o added)
    BY <1>4
  <2> QED BY <1>1, <1>4, <2>1
<1>6. \A i \in (n + 1)..(n + p) : i \in 1..(n + p) /\ ~(i <= n) /\ i - n \in 1..p
  BY <1>3
<1>7. n + 1 \in (n + 1)..(n + p) /\ (n + 1) - n = 1
  BY <1>3
<1>8. \A i \in (n + 1)..(n + p) : (sent \o added)[i] = added[i - n]
  BY <1>1, <1>4, <1>6
<1>9. (sent \o added)[n + 1] = visitor
  BY <1>2, <1>7, <1>8
<1>10. \A i \in (n + 1)..(n + p) : i \in 1..(n + p) /\ (sent \o added)[i] \in {visitor, other}
  BY <1>2, <1>6, <1>8
<1> QED BY <1>3, <1>5, <1>9, <1>10, Zenon DEF added, n, Joined

LEMMA ForwardedPlaces ==
    ASSUME NEW Entry, {"visitor", "proxy"} \subseteq Entry,
           NEW c, c.sent \in Seq(Entry), c.proxies \in Nat, c.proxies # 0
    PROVE  /\ Len(c.sent) \in Nat
           /\ DOMAIN Forwarded(c) = 1..(Len(c.sent) + c.proxies)
           /\ Forwarded(c)[Len(c.sent) + 1] = "visitor"
           /\ \A i \in (Len(c.sent) + 1)..(Len(c.sent) + c.proxies) :
                /\ i \in 1..(Len(c.sent) + c.proxies)
                /\ Forwarded(c)[i] \in {"visitor", "proxy"}
<1>1. Forwarded(c) = Joined(c.sent, c.proxies, "visitor", "proxy")
  BY Zenon DEF Forwarded, Joined
<1>2. PICK sent \in Seq(Entry), p \in Nat, visitor \in Entry, other \in Entry :
        sent = c.sent /\ p = c.proxies /\ visitor = "visitor" /\ other = "proxy"
  OBVIOUS
<1>3. p # 0
  BY <1>2
<1>4. /\ Len(sent) \in Nat
      /\ DOMAIN Joined(sent, p, visitor, other) = 1..(Len(sent) + p)
      /\ Joined(sent, p, visitor, other)[Len(sent) + 1] = visitor
      /\ \A i \in (Len(sent) + 1)..(Len(sent) + p) :
           /\ i \in 1..(Len(sent) + p)
           /\ Joined(sent, p, visitor, other)[i] \in {visitor, other}
  BY <1>3, Appended, Zenon
<1> QED BY <1>1, <1>2, <1>4, Zenon

\* With as many hops as configured the address is the visitor's (get_client_ip),
\* whatever X-Forwarded-For had before the first trusted proxy, for any number of
\* proxies and of entries, unless the request came without Cloudflare and with a
\* valid CF-Connecting-IP, which the code believes.
THEOREM AddressRight ==
    ASSUME NEW Entry, {"visitor", "proxy"} \subseteq Entry,
           NEW c, c.sent \in Seq(Entry), c.proxies \in Nat, c.proxies # 0
    PROVE  RightAddress(c)
<1> DEFINE n == Len(c.sent)
           all == Forwarded(c)
           parts == {i \in DOMAIN all : all[i] # ""}
           hops == IF c.proxies > 1 THEN c.proxies ELSE 1
           skipped == IF Cardinality(parts) > hops THEN Cardinality(parts) - hops ELSE 0
           place == CHOOSE i \in parts : Cardinality({j \in parts : j < i}) = skipped
<1>1. /\ n \in Nat /\ DOMAIN all = 1..(n + c.proxies) /\ all[n + 1] = "visitor"
      /\ \A i \in (n + 1)..(n + c.proxies) :
           i \in 1..(n + c.proxies) /\ all[i] \in {"visitor", "proxy"}
  BY ForwardedPlaces, Zenon
<1>2. place = n + 1
  <2>1. parts \in SUBSET (1..(n + c.proxies)) /\ (n + 1)..(n + c.proxies) \subseteq parts
    <3> HIDE DEF n, all
    <3>1. \A i \in (n + 1)..(n + c.proxies) : all[i] # ""
      BY <1>1
    <3> QED BY <1>1, <3>1, Zenon
  <2> HIDE DEF n, parts
  <2> QED BY <1>1, <2>1, PlaceFromEnd, Zenon
<1>3. ClientIp(c) = IF Valid(CfHeader(c)) THEN CfHeader(c)
                    ELSE IF Valid(all[place]) THEN all[place] ELSE Last(all)
  BY Zenon DEF ClientIp
<1> HIDE DEF place, all, n
<1>4. Valid(all[place]) /\ all[place] = "visitor"
  BY <1>1, <1>2 DEF Valid
<1>5. CASE c.edge
  BY <1>3, <1>5 DEF RightAddress, CfHeader, Valid
<1>6. CASE ~c.edge
  BY <1>3, <1>4, <1>6 DEF RightAddress, CfHeader
<1> QED BY <1>5, <1>6

\* The upload check (is_safe_upload) accepts exactly a name with an allowed
\* extension and nothing executable in between, with the contents of any image,
\* this or another kind, or none if it is called an image, for a name of any
\* number of parts.
THEOREM UploadRight ==
    ASSUME NEW f \in [name : Seq(Parts) \ {<<>>}, head : Heads]
    PROVE  RightUpload(f)
<1> DEFINE n == Len(f.name)
<1>1. /\ n \in Nat \ {0} /\ f.head \in Heads
      /\ \A i \in 1..n : f.name[i] \in Parts
  OBVIOUS
<1>2. Last(f.name) = f.name[n]
  BY DEF Last
<1> HIDE DEF n
<1>3. CASE n = 1
  BY <1>1, <1>3 DEF RightUpload, SafeUpload, Extension, n
<1>4. CASE n > 1
  <2> DEFINE last == f.name[n]
             middle == {f.name[i] : i \in 2..(n - 1)}
  <2>1. last \in Parts
    BY <1>1, <1>4
  <2>2. middle \intersect {"php", "PHP"} = {} <=> \A piece \in middle : Lower(piece) # "php"
    <3>1. \A piece \in Parts : Lower(piece) = "php" <=> piece \in {"php", "PHP"}
      BY DEF Parts, Lower
    <3>2. middle \subseteq Parts
      BY <1>1
    <3> HIDE DEF middle
    <3> QED BY <3>1, <3>2
  <2>3. Extension(f.name) = Trim(Lower(last))
    <3>1. Len(f.name) # 1
      BY <1>1, <1>4 DEF n
    <3> QED BY <1>2, <3>1 DEF Extension
  <2>4. SafeUpload(f) <=>
          /\ Trim(Lower(last)) \in {"png", "gif", "txt"}
          /\ \A piece \in middle : Lower(piece) # "php"
          /\ Trim(Lower(last)) \in {"png", "gif"} /\ f.head # "" => f.head \in {"png", "gif"}
    BY <2>3 DEF SafeUpload, Signatures, n
  <2>5. RightUpload(f) <=>
          (SafeUpload(f) <=>
             /\ middle \intersect {"php", "PHP"} = {}
             /\ last \in {"txt", "gif", "png", "PNG", "png "}
             /\ last # "txt" => f.head # "text")
    BY <1>1, <1>2, <1>4 DEF RightUpload, n
  <2> HIDE DEF last, middle
  <2>6. Trim(Lower(last)) = "png" <=> last \in {"png", "PNG", "png "}
    BY <2>1 DEF Parts, Lower, Trim
  <2>7. Trim(Lower(last)) = "txt" <=> last = "txt"
    BY <2>1 DEF Parts, Lower, Trim
  <2>8. Trim(Lower(last)) = "gif" <=> last = "gif"
    BY <2>1 DEF Parts, Lower, Trim
  <2> QED BY <1>1, <2>2, <2>4, <2>5, <2>6, <2>7, <2>8 DEF Heads
<1> QED BY <1>1, <1>3, <1>4

----------------------------------------------------------------------------
(* Alerts: the score, the severity and the type of an event.             *)

\* The equation of the loop over the patterns.
Sums(hits, f) ==
    f = [n \in 0..Len(Patterns) |->
            IF n = 0 THEN 0
            ELSE f[n - 1] + (IF n \in hits THEN Patterns[n][2] ELSE 0)]

LEMMA PatternsListed ==
    /\ Len(Patterns) = 24
    /\ DOMAIN Patterns = 1..24
    /\ \A i \in 1..24 : Patterns[i][2] \in Nat
BY DEF Patterns

LEMMA WeightIs == ASSUME NEW hits PROVE Weight(hits) = (CHOOSE f : Sums(hits, f))[Len(Patterns)]
BY DEF Weight, Sums

LEMMA SumExists ==
    ASSUME NEW hits PROVE \E f : f \in [0..24 -> Nat] /\ Sums(hits, f)
<1> DEFINE add(n) == IF n \in hits THEN Patterns[n][2] ELSE 0
           step == [p \in (1..24) \X Nat |-> p[2] + add(p[1])]
<1>1. \A n \in 1..24 : add(n) \in Nat
  BY PatternsListed
<1> HIDE DEF add
<1>2. step \in [(1..24) \X Nat -> Nat]
  BY <1>1
<1>3. \A n \in 1..24, v \in Nat : step[<<n, v>>] = v + add(n)
  OBVIOUS
<1> HIDE DEF step
<1>4. PICK f \in [0..24 -> Nat] : Iterates(f, 0, step, 24)
  BY <1>2, Iterable
<1>5. f = [n \in 0..24 |-> IF n = 0 THEN 0 ELSE f[n - 1] + add(n)]
  BY <1>3, <1>4 DEF Iterates
<1> QED BY <1>5, PatternsListed DEF Sums, add

\* Step by step.
Loops(hits, f) ==
    /\ f \in [0..24 -> Nat]
    /\ f[0] = 0
    /\ \A n \in 1..24 : f[n] = f[n - 1] + (IF n \in hits THEN Patterns[n][2] ELSE 0)

LEMMA WeightLoop ==
    ASSUME NEW hits
    PROVE  \E f : Loops(hits, f) /\ Weight(hits) = f[24]
<1> DEFINE f == CHOOSE g : Sums(hits, g)
           add(n) == IF n \in hits THEN Patterns[n][2] ELSE 0
<1>1. Sums(hits, f)
  BY SumExists
<1>2. Weight(hits) = f[24]
  BY WeightIs, PatternsListed
<1> HIDE DEF f
<1>3. \A n \in 1..24 : add(n) \in Nat
  BY PatternsListed
<1>4. f = [n \in 0..24 |-> IF n = 0 THEN 0 ELSE f[n - 1] + add(n)]
  BY <1>1, PatternsListed DEF Sums
<1> HIDE DEF add
<1>5. DOMAIN f = 0..24 /\ f[0] = 0 /\ \A n \in 1..24 : f[n] = f[n - 1] + add(n)
  BY <1>4
<1> DEFINE S == {n \in Nat : n <= 24 => f[n] \in Nat}
<1>6. 0 \in S
  BY <1>5
<1>7. \A n \in Nat : n \in S => n + 1 \in S
  <2> SUFFICES ASSUME NEW n \in Nat, n \in S, n + 1 <= 24 PROVE f[n + 1] \in Nat
    OBVIOUS
  <2>1. f[n + 1] = f[n] + add(n + 1)
    BY <1>5
  <2> QED BY <2>1, <1>3
<1>8. \A n \in 0..24 : f[n] \in Nat
  <2> HIDE DEF S
  <2>1. \A n \in Nat : n \in S
    BY <1>6, <1>7, Induction
  <2> QED BY <2>1 DEF S
<1>9. f \in [0..24 -> Nat]
  BY <1>4, <1>8
<1> QED BY <1>2, <1>5, <1>9 DEF Loops, add

\* With more patterns a request weighs no less.
LEMMA WeightGrows ==
    ASSUME NEW hits, NEW more, hits \subseteq more
    PROVE  /\ Weight(hits) \in Nat /\ Weight(more) \in Nat
           /\ Weight(hits) <= Weight(more)
<1>1. PICK f : Loops(hits, f) /\ Weight(hits) = f[24]
  BY WeightLoop
<1>2. PICK g : Loops(more, g) /\ Weight(more) = g[24]
  BY WeightLoop
<1> DEFINE S == {n \in Nat : n <= 24 => f[n] <= g[n]}
<1>3. 0 \in S
  BY <1>1, <1>2 DEF Loops
<1>4. \A n \in Nat : n \in S => n + 1 \in S
  <2> SUFFICES ASSUME NEW n \in Nat, n \in S, n + 1 <= 24 PROVE f[n + 1] <= g[n + 1]
    OBVIOUS
  <2> DEFINE w == Patterns[n + 1][2]
  <2>1. w \in Nat /\ f[n] \in Nat /\ g[n] \in Nat /\ f[n] <= g[n]
    BY <1>1, <1>2, PatternsListed DEF Loops
  <2>2. /\ f[n + 1] = f[n] + (IF n + 1 \in hits THEN w ELSE 0)
        /\ g[n + 1] = g[n] + (IF n + 1 \in more THEN w ELSE 0)
    BY <1>1, <1>2 DEF Loops
  <2> HIDE DEF w
  <2> QED BY <2>1, <2>2
<1> HIDE DEF S
<1>5. 24 \in S
  BY <1>3, <1>4, Induction
<1> QED BY <1>1, <1>2, <1>5 DEF S, Loops

\* Two patterns that match weigh in both.
LEMMA WeightOfTwo ==
    ASSUME NEW hits, NEW i \in 1..24, NEW j \in 1..24, i \in hits, j \in hits, i # j
    PROVE  Weight(hits) >= Patterns[i][2] + Patterns[j][2]
<1>1. PICK f : Loops(hits, f) /\ Weight(hits) = f[24]
  BY WeightLoop
<1> DEFINE w(n) == Patterns[n][2]
           S == {n \in Nat : n <= 24 => f[n] >= (IF i <= n THEN w(i) ELSE 0)
                                                  + (IF j <= n THEN w(j) ELSE 0)}
<1>2. \A n \in 1..24 : w(n) \in Nat
  BY PatternsListed
<1>3. /\ f \in [0..24 -> Nat] /\ f[0] = 0
      /\ \A n \in 1..24 : f[n] = f[n - 1] + (IF n \in hits THEN w(n) ELSE 0)
  BY <1>1 DEF Loops
<1> HIDE DEF w
<1>4. 0 \in S
  BY <1>3
<1>5. \A n \in Nat : n \in S => n + 1 \in S
  <2> SUFFICES ASSUME NEW n \in Nat, n \in S, n + 1 <= 24 PROVE n + 1 \in S
    OBVIOUS
  <2>1. f[n + 1] = f[n] + (IF n + 1 \in hits THEN w(n + 1) ELSE 0) /\ f[n] \in Nat
    BY <1>3
  <2> QED BY <1>2, <2>1
<1> HIDE DEF S
<1>6. 24 \in S
  BY <1>4, <1>5, Induction
<1> QED BY <1>1, <1>2, <1>6 DEF S, w

\* Without any it weighs nothing.
LEMMA WeightOfNone == Weight({}) = 0
<1>1. PICK f : Loops({}, f) /\ Weight({}) = f[24]
  BY WeightLoop
<1> DEFINE S == {n \in Nat : n <= 24 => f[n] = 0}
<1>2. 0 \in S
  BY <1>1 DEF Loops
<1>3. \A n \in Nat : n \in S => n + 1 \in S
  <2> SUFFICES ASSUME NEW n \in Nat, n \in S, n + 1 <= 24 PROVE f[n + 1] = 0
    OBVIOUS
  <2>1. f[n + 1] = f[n] + 0
    BY <1>1 DEF Loops
  <2> QED BY <2>1
<1> HIDE DEF S
<1>4. 24 \in S
  BY <1>2, <1>3, Induction
<1> QED BY <1>1, <1>4 DEF S

LEMMA PairsWeigh ==
    \A i, j \in 1..24 :
        {Patterns[i][1], Patterns[j][1]} \subseteq Attacks /\ Patterns[i][1] # Patterns[j][1]
            => Patterns[i][2] + Patterns[j][2] >= 60
BY DEF Patterns, Attacks

\* A rank counts the limits a score has reached.
LEMMA SeverityRises ==
    ASSUME NEW a \in Nat, NEW b \in Nat, a <= b
    PROVE  /\ Severity(a) \in Nat /\ Severity(b) \in Nat
           /\ Severity(a) <= Severity(b)
<1> DEFINE reached(x) == {limit \in {15, 35, 60, 80} : x >= limit}
<1>1. \A x \in Nat : IsFiniteSet(reached(x))
  <2>1. IsFiniteSet({15, 35, 60, 80})
    <3>1. 15 \in Int /\ 80 \in Int
      OBVIOUS
    <3>2. IsFiniteSet(15..80)
      BY <3>1, FS_Interval
    <3>3. {15, 35, 60, 80} \subseteq 15..80
      OBVIOUS
    <3> QED BY <3>2, <3>3, FS_Subset
  <2> QED BY <2>1, FS_Subset
<1>2. reached(a) \subseteq reached(b)
  OBVIOUS
<1>3. Severity(a) = Cardinality(reached(a)) /\ Severity(b) = Cardinality(reached(b))
  BY DEF Severity
<1> HIDE DEF reached
<1> QED BY <1>1, <1>2, <1>3, FS_Subset, FS_CardinalityType

LEMMA SeverityRanks == Severity(35) = 2 /\ Severity(60) = 3
<1>1. {limit \in {15, 35, 60, 80} : 35 >= limit} = {15, 35}
  OBVIOUS
<1>2. {limit \in {15, 35, 60, 80} : 60 >= limit} = {15, 35} \union {60}
  OBVIOUS
<1>3. IsFiniteSet({15, 35}) /\ Cardinality({15, 35}) = 2
  <2>1. IsFiniteSet({15}) /\ Cardinality({15}) = 1
    BY FS_Singleton
  <2>2. {15, 35} = {15} \union {35} /\ 35 \notin {15}
    OBVIOUS
  <2> QED BY <2>1, <2>2, FS_AddElement
<1>4. Cardinality({15, 35} \union {60}) = 3
  <2>1. 60 \notin {15, 35}
    OBVIOUS
  <2> QED BY <1>3, <2>1, FS_AddElement
<1> QED BY <1>1, <1>2, <1>3, <1>4 DEF Severity

LEMMA AgentWeighs ==
    ASSUME NEW agent \in Agents
    PROVE  /\ AgentWeight(agent) \in Nat
           /\ AgentWeight(agent) # 0 => AgentTags(agent) # {}
BY DEF Agents, AgentWeight, AgentTags

\* Score and weight.
LEMMA ScoreIs ==
    ASSUME NEW r, r.hits \subseteq 1..24, r.agent \in Agents
    PROVE  /\ Weight(r.hits) \in Nat
           /\ Score(r) \in 0..100
           /\ Score(r) >= 60 <=> Weight(r.hits) + AgentWeight(r.agent) >= 60
           /\ Score(r) >= 35 <=> Weight(r.hits) + AgentWeight(r.agent) >= 35
           /\ Score(r) = IF Weight(r.hits) + AgentWeight(r.agent) < 100
                        THEN Weight(r.hits) + AgentWeight(r.agent) ELSE 100
<1>1. Weight(r.hits) \in Nat
  BY WeightGrows
<1>2. AgentWeight(r.agent) \in Nat
  BY AgentWeighs
<1> QED BY <1>1, <1>2 DEF Score

\* Every tag has a place in the sorted list, and the first one is one of them.
LEMMA TagsSorted ==
    /\ DOMAIN Sorted = 1..11
    /\ \A i \in 1..24 : \E k \in 1..11 : Sorted[k] = Patterns[i][1]
    /\ \A agent \in Agents : \A tag \in AgentTags(agent) : \E k \in 1..11 : Sorted[k] = tag
<1>1. DOMAIN Sorted = 1..11
  BY DEF Sorted
<1>2. \A tag \in Attacks \union {"scanner", "no_ua", "scanner_ua", "anomalous_ua"} :
          \E k \in 1..11 : Sorted[k] = tag
  BY DEF Sorted, Attacks
<1>3. \A i \in 1..24 : Patterns[i][1] \in Attacks \union {"scanner"}
  BY DEF Patterns, Attacks
<1>4. \A agent \in Agents : AgentTags(agent) \subseteq {"no_ua", "scanner_ua", "anomalous_ua"}
  BY DEF Agents, AgentTags
<1> QED BY <1>1, <1>2, <1>3, <1>4

LEMMA FirstIsATag ==
    ASSUME NEW tags, tags # {}, \A tag \in tags : \E k \in 1..11 : Sorted[k] = tag
    PROVE  FirstTag(tags) \in tags
<1> DEFINE at == {i \in DOMAIN Sorted : Sorted[i] \in tags}
<1>1. at \in SUBSET Nat /\ at # {}
  BY TagsSorted
<1>2. \A k \in at : Sorted[k] \in tags
  OBVIOUS
<1>3. FirstTag(tags) = Sorted[Min(at)]
  BY DEF FirstTag
<1> HIDE DEF at
<1>4. \E k \in at : \A y \in at : k <= y
  BY <1>1, LeastNumber
<1>5. Min(at) \in at
  BY <1>4 DEF Min
<1> QED BY <1>2, <1>3, <1>5

LEMMA PrimaryIs ==
    ASSUME NEW r, r.hits \subseteq 1..24, r.agent \in Agents
    PROVE  /\ Tags(r) # {} => Primary(r) \in Tags(r)
           /\ Tags(r) \intersect Attacks # {} => Primary(r) \in Attacks
<1> DEFINE kinds == Tags(r) \intersect Attacks
<1>1. \A tag \in Tags(r) : \E k \in 1..11 : Sorted[k] = tag
  BY TagsSorted DEF Tags
<1>2. Tags(r) # {} => FirstTag(Tags(r)) \in Tags(r)
  BY <1>1, FirstIsATag
<1>3. kinds # {} => FirstTag(kinds) \in kinds
  BY <1>1, FirstIsATag
<1>4. Primary(r) = IF kinds # {} THEN FirstTag(kinds)
                   ELSE IF Tags(r) # {} THEN FirstTag(Tags(r)) ELSE "suspicious"
  BY DEF Primary
<1> QED BY <1>2, <1>3, <1>4

\* Two kinds of attack were found by two patterns.
LEMMA TwoKinds ==
    ASSUME NEW r, r.hits \subseteq 1..24, r.agent \in Agents,
           Cardinality(Tags(r) \intersect Attacks) > 1
    PROVE  Weight(r.hits) >= 60
<1> DEFINE kinds == Tags(r) \intersect Attacks
<1>1. kinds # {}
  BY FS_EmptySet
<1>2. PICK a \in kinds : TRUE
  BY <1>1
<1>3. kinds # {a}
  BY FS_Singleton
<1>4. PICK b \in kinds : a # b
  BY <1>2, <1>3
<1>5. \A tag \in kinds : \E i \in r.hits : Patterns[i][1] = tag
  <2>1. AgentTags(r.agent) \intersect Attacks = {}
    BY DEF AgentTags, Agents, Attacks
  <2> QED BY <2>1 DEF Tags
<1>6. PICK i \in r.hits : Patterns[i][1] = a
  BY <1>2, <1>5
<1>7. PICK j \in r.hits : Patterns[j][1] = b
  BY <1>4, <1>5
<1>8. {Patterns[i][1], Patterns[j][1]} \subseteq Attacks /\ Patterns[i][1] # Patterns[j][1]
  BY <1>2, <1>4, <1>6, <1>7
<1>9. i \in 1..24 /\ j \in 1..24 /\ i # j
  BY <1>8
<1>10. Patterns[i][2] + Patterns[j][2] >= 60
  BY <1>8, <1>9, PairsWeigh
<1>11. Weight(r.hits) >= Patterns[i][2] + Patterns[j][2]
  BY <1>9, WeightOfTwo
<1>12. Weight(r.hits) \in Nat /\ Patterns[i][2] \in Nat /\ Patterns[j][2] \in Nat
  BY <1>9, WeightGrows, PatternsListed
<1> QED BY <1>10, <1>11, <1>12

\* An event fits what was found: for a request that matches any of the patterns.
THEOREM AlertRight ==
    ASSUME NEW r, r \in [hits : SUBSET DOMAIN Patterns, agent : Agents]
    PROVE  RightAlert(r)
<1> DEFINE kinds == Tags(r) \intersect Attacks
           more(i) == [r EXCEPT !.hits = @ \union {i}]
<1>1. r.hits \subseteq 1..24 /\ r.agent \in Agents
  BY PatternsListed
<1>2. /\ Weight(r.hits) \in Nat /\ AgentWeight(r.agent) \in Nat
      /\ Score(r) \in 0..100
      /\ Score(r) >= 60 <=> Weight(r.hits) + AgentWeight(r.agent) >= 60
      /\ Score(r) >= 35 <=> Weight(r.hits) + AgentWeight(r.agent) >= 35
  BY <1>1, ScoreIs, AgentWeighs
<1>3. ASSUME Alerts(r) PROVE Severity(Score(r)) >= 2 /\ Primary(r) \in Tags(r)
  <2>1. Score(r) >= 35
    BY <1>3 DEF Alerts
  <2>2. Severity(Score(r)) >= 2
    BY <1>2, <2>1, SeverityRises, SeverityRanks
  <2>3. Tags(r) # {}
    <3>1. CASE r.hits = {}
      <4>1. AgentWeight(r.agent) # 0
        BY <1>2, <2>1, <3>1, WeightOfNone
      <4> QED BY <1>1, <4>1, AgentWeighs DEF Tags
    <3>2. CASE r.hits # {}
      BY <3>2 DEF Tags
    <3> QED BY <3>1, <3>2
  <2> QED BY <1>1, <2>2, <2>3, PrimaryIs
<1>4. kinds # {} => Primary(r) \in Attacks
  BY <1>1, PrimaryIs
<1>5. ASSUME Cardinality(kinds) > 1 PROVE Alerts(r) /\ Severity(Score(r)) >= 3
  <2>1. Weight(r.hits) >= 60
    BY <1>1, <1>5, TwoKinds
  <2>2. Score(r) >= 60
    BY <1>2, <2>1
  <2>3. Severity(Score(r)) >= 3
    BY <1>2, <2>2, SeverityRises, SeverityRanks
  <2> QED BY <1>2, <2>2, <2>3 DEF Alerts
<1>6. ASSUME NEW i \in DOMAIN Patterns \ r.hits
      PROVE  Severity(Score(more(i))) >= Severity(Score(r))
  <2>1. /\ more(i).hits = r.hits \union {i} /\ more(i).agent = r.agent
        /\ more(i).hits \subseteq 1..24
    BY <1>1, PatternsListed
  <2>2. Weight(r.hits) <= Weight(r.hits \union {i})
    BY WeightGrows
  <2> HIDE DEF more
  <2>3. Score(r) <= Score(more(i)) /\ Score(more(i)) \in 0..100
    BY <1>1, <1>2, <2>1, <2>2, ScoreIs
  <2>4. Score(r) \in Nat /\ Score(more(i)) \in Nat
    BY <1>2, <2>3
  <2>5. /\ Severity(Score(r)) \in Nat /\ Severity(Score(more(i))) \in Nat
        /\ Severity(Score(r)) <= Severity(Score(more(i)))
    BY <2>3, <2>4, SeverityRises
  <2> QED BY <2>5
<1> QED BY <1>2, <1>3, <1>4, <1>5, <1>6 DEF RightAlert

----------------------------------------------------------------------------
(* FlattenSeq, from its recursive function.                                *)

Flattens(seqs, f) ==
    f = [i \in 1..Len(seqs) |-> IF i = 1 THEN seqs[i] ELSE f[i - 1] \o seqs[i]]

LEMMA FlattenIs ==
    ASSUME NEW seqs
    PROVE  FlattenSeq(seqs) = IF Len(seqs) = 0 THEN seqs
                              ELSE (CHOOSE f : Flattens(seqs, f))[Len(seqs)]
BY DEF FlattenSeq, Flattens

LEMMA FlattenExists ==
    ASSUME NEW C, NEW seqs \in Seq(Seq(C))
    PROVE  \E f : Flattens(seqs, f)
<1> DEFINE N == Len(seqs)
           join(v, i) == v \o seqs[i]
           Upto(k, f) == f = [i \in 1..k |-> IF i = 1 THEN seqs[i] ELSE join(f[i - 1], i)]
           G == {k \in Nat : \E f : Upto(k, f)}
<1>0. N \in Nat
  OBVIOUS
<1>4. (\E f : Upto(N, f)) => \E f : Flattens(seqs, f)
  BY DEF Flattens
<1> HIDE DEF join, N
<1>1. 0 \in G
  <2> DEFINE f == [i \in 1..0 |-> <<>>]
  <2>1. Upto(0, f)
    OBVIOUS
  <2> QED BY <2>1
<1>2. ASSUME NEW k \in Nat, k \in G PROVE k + 1 \in G
  <2>1. PICK f : Upto(k, f)
    BY <1>2
  <2> DEFINE v == IF k = 0 THEN seqs[1] ELSE join(f[k], k + 1)
             g == [i \in 1..(k + 1) |-> IF i <= k THEN f[i] ELSE v]
  <2>2. ASSUME NEW i \in 1..(k + 1)
        PROVE  g[i] = IF i = 1 THEN seqs[i] ELSE join(g[i - 1], i)
    <3>1. CASE i <= k
      <4>1. g[i] = f[i] /\ (i # 1 => g[i - 1] = f[i - 1])
        BY <3>1
      <4>2. f[i] = IF i = 1 THEN seqs[i] ELSE join(f[i - 1], i)
        BY <2>1, <3>1
      <4> QED BY <4>1, <4>2
    <3>2. CASE i = k + 1
      <4>1. g[i] = v /\ (k # 0 => i # 1 /\ g[i - 1] = f[k])
        BY <3>2
      <4> QED BY <3>2, <4>1
    <3> QED BY <3>1, <3>2
  <2>3. Upto(k + 1, g)
    BY <2>2
  <2>4. \E h : Upto(k + 1, h)
    BY <2>3, Zenon
  <2> QED BY <2>4
<1> HIDE DEF G
<1>3. N \in G
  BY <1>0, <1>1, <1>2, Induction
<1> QED BY <1>4, <1>3 DEF G

\* The values of the function, one by one.
FlattenRun(seqs, f) ==
    \A i \in 1..Len(seqs) : f[i] = IF i = 1 THEN seqs[i] ELSE f[i - 1] \o seqs[i]

LEMMA FlattenLoop ==
    ASSUME NEW C, NEW seqs \in Seq(Seq(C)), seqs # <<>>
    PROVE  \E f : FlattenRun(seqs, f) /\ FlattenSeq(seqs) = f[Len(seqs)]
<1> DEFINE f == CHOOSE g : Flattens(seqs, g)
<1>1. Flattens(seqs, f)
  BY FlattenExists
<1>2. FlattenSeq(seqs) = f[Len(seqs)]
  BY FlattenIs
<1> HIDE DEF f
<1> QED BY <1>1, <1>2 DEF Flattens, FlattenRun

LEMMA FlattenRunTypes ==
    ASSUME NEW C, NEW seqs \in Seq(Seq(C)), NEW f, FlattenRun(seqs, f)
    PROVE  \A i \in 1..Len(seqs) : f[i] \in Seq(C)
<1> DEFINE G == {k \in Nat : k \in 1..Len(seqs) => f[k] \in Seq(C)}
<1>1. 0 \in G
  OBVIOUS
<1>2. ASSUME NEW k \in Nat, k \in G PROVE k + 1 \in G
  <2> SUFFICES ASSUME k + 1 \in 1..Len(seqs) PROVE f[k + 1] \in Seq(C)
    OBVIOUS
  <2>1. seqs[k + 1] \in Seq(C)
    OBVIOUS
  <2>2. CASE k = 0
    BY <2>1, <2>2 DEF FlattenRun
  <2>3. CASE k # 0
    <3>0. (k + 1) - 1 = k /\ k + 1 # 1
      BY <2>3
    <3>1. f[k + 1] = f[k] \o seqs[k + 1]
      BY <3>0, Zenon DEF FlattenRun
    <3>2. f[k] \in Seq(C)
      BY <1>2, <2>3
    <3> QED BY <2>1, <3>1, <3>2, ConcatProperties, Zenon
  <2> QED BY <2>2, <2>3
<1> HIDE DEF G
<1>3. \A k \in Nat : k \in G
  BY <1>1, <1>2, Induction
<1> QED BY <1>3 DEF G

\* One more sequence is joined at the end.
LEMMA FlattenAppend ==
    ASSUME NEW C, NEW seqs \in Seq(Seq(C)), NEW e \in Seq(C)
    PROVE  /\ FlattenSeq(seqs) \in Seq(C)
           /\ FlattenSeq(Append(seqs, e)) = FlattenSeq(seqs) \o e
<1> DEFINE more == Append(seqs, e)
           n == Len(seqs)
<1>1. /\ more \in Seq(Seq(C)) /\ more # <<>> /\ Len(more) = n + 1 /\ n \in Nat
      /\ \A i \in 1..n : more[i] = seqs[i]
      /\ more[n + 1] = e
  BY AppendProperties
<1> HIDE DEF more
<1>2. PICK g : FlattenRun(more, g) /\ FlattenSeq(more) = g[n + 1]
  BY <1>1, FlattenLoop
<1>3. CASE n = 0
  <2>1. seqs = <<>> /\ FlattenSeq(seqs) = <<>>
    BY <1>3, FlattenIs
  <2>2. g[1] = e
    BY <1>1, <1>2, <1>3 DEF FlattenRun
  <2>3. <<>> \o e = e /\ <<>> \in Seq(C)
    BY ConcatEmptySeq
  <2>4. FlattenSeq(more) = e
    BY <1>2, <1>3, <2>2
  <2> QED BY <2>1, <2>3, <2>4, Zenon DEF more
<1>4. CASE n # 0
  <2>1. PICK f : FlattenRun(seqs, f) /\ FlattenSeq(seqs) = f[n]
    BY <1>4, FlattenLoop
  <2> DEFINE G == {k \in Nat : k \in 1..n => f[k] = g[k]}
  <2>2. 0 \in G
    OBVIOUS
  <2>3. ASSUME NEW k \in Nat, k \in G PROVE k + 1 \in G
    <3> SUFFICES ASSUME k + 1 \in 1..n PROVE f[k + 1] = g[k + 1]
      OBVIOUS
    <3>1. f[k + 1] = IF k + 1 = 1 THEN seqs[k + 1] ELSE f[k] \o seqs[k + 1]
      BY <2>1 DEF FlattenRun
    <3>2. g[k + 1] = IF k + 1 = 1 THEN more[k + 1] ELSE g[k] \o more[k + 1]
      BY <1>1, <1>2 DEF FlattenRun
    <3> QED BY <1>1, <2>3, <3>1, <3>2
  <2> HIDE DEF G
  <2>4. n \in G
    BY <1>1, <2>2, <2>3, Induction
  <2>5. f[n] = g[n]
    BY <1>1, <1>4, <2>4 DEF G
  <2>6. g[n + 1] = g[n] \o e
    <3>1. n + 1 \in 1..Len(more) /\ (n + 1) - 1 = n /\ n + 1 # 1
      BY <1>1, <1>4
    <3> HIDE DEF n
    <3> QED BY <1>1, <1>2, <3>1, Zenon DEF FlattenRun
  <2>7. f[n] \in Seq(C)
    BY <1>1, <1>4, <2>1, FlattenRunTypes
  <2> QED BY <1>2, <2>1, <2>5, <2>6, <2>7 DEF more
<1> QED BY <1>1, <1>3, <1>4

----------------------------------------------------------------------------
(* The reader.                                                             *)

\* The character after the i-th.
Ahead(text, i) == IF i = Len(text) THEN "" ELSE text[i + 1]

Reads(text, reader) ==
    /\ reader[0] = Start
    /\ \A i \in 1..Len(text) : reader[i] = ReadChar(reader[i - 1], text[i], Ahead(text, i))

LEMMA SplitIs ==
    ASSUME NEW text \in Seq(Char)
    PROVE  \E reader : /\ Reads(text, reader)
                       /\ SplitStatements(text) = Flush(reader[Len(text)]).done
<1> DEFINE N == Len(text)
           read(r, i) == ReadChar(r, text[i], IF i = Len(text) THEN "" ELSE text[i + 1])
           Upto(k, f) == f = [i \in 0..k |-> IF i = 0 THEN Start ELSE read(f[i - 1], i)]
           G == {k \in Nat : \E f : Upto(k, f)}
           reader == CHOOSE f : Upto(N, f)
<1>1. SplitStatements(text) = Flush(reader[N]).done
  BY DEF SplitStatements
<1>2. N \in Nat /\ \A r, i : read(r, i) = ReadChar(r, text[i], Ahead(text, i))
  BY DEF Ahead
<1> HIDE DEF read, N
<1>3. 0 \in G
  <2> DEFINE f == [i \in 0..0 |-> Start]
  <2>1. Upto(0, f)
    OBVIOUS
  <2>2. \E h : Upto(0, h)
    BY <2>1, Zenon
  <2> QED BY <2>2
<1>4. ASSUME NEW k \in Nat, k \in G PROVE k + 1 \in G
  <2>1. PICK f : Upto(k, f)
    BY <1>4
  <2> DEFINE g == [i \in 0..(k + 1) |-> IF i <= k THEN f[i] ELSE read(f[k], k + 1)]
  <2>2. ASSUME NEW i \in 0..(k + 1)
        PROVE  g[i] = IF i = 0 THEN Start ELSE read(g[i - 1], i)
    <3>1. CASE i <= k
      <4>1. g[i] = f[i] /\ (i # 0 => g[i - 1] = f[i - 1])
        BY <3>1
      <4>2. f[i] = IF i = 0 THEN Start ELSE read(f[i - 1], i)
        BY <2>1, <3>1
      <4> QED BY <4>1, <4>2
    <3>2. CASE i = k + 1
      <4>1. g[i] = read(f[k], k + 1) /\ i # 0 /\ g[i - 1] = f[k]
        BY <3>2
      <4> QED BY <3>2, <4>1
    <3> QED BY <3>1, <3>2
  <2>3. Upto(k + 1, g)
    BY <2>2
  <2>4. \E h : Upto(k + 1, h)
    BY <2>3, Zenon
  <2> QED BY <2>4
<1>5. Upto(N, reader)
  <2> HIDE DEF G
  <2>1. N \in G
    BY <1>2, <1>3, <1>4, Induction
  <2> QED BY <2>1 DEF G
<1> HIDE DEF reader
<1>6. Reads(text, reader)
  BY <1>2, <1>5 DEF Reads, N
<1> QED BY <1>1, <1>6 DEF N

\* A reader outside, or in a comment or a literal.
At(place, skips, b, d) == [in |-> place, skip |-> skips, buf |-> b, done |-> d]

\* What it makes of one character.
LEMMA ReadsCode ==
    ASSUME NEW b, NEW d, NEW ch, NEW nxt, ch \notin {"#", ";", "'", "\""},
           ch = "-" => nxt # "-"
    PROVE  ReadChar(At("code", FALSE, b, d), ch, nxt) = At("code", FALSE, Append(b, ch), d)
BY DEF ReadChar, At, Keep

LEMMA ReadsSemicolon ==
    ASSUME NEW b, NEW d, NEW nxt
    PROVE  ReadChar(At("code", FALSE, b, d), ";", nxt) = Flush(At("code", FALSE, b, d))
BY DEF ReadChar, At

LEMMA ReadsComment ==
    ASSUME NEW b, NEW d, NEW ch, NEW nxt
    PROVE  /\ ReadChar(At("code", FALSE, b, d), "#", nxt) = At("comment", FALSE, b, d)
           /\ ReadChar(At("code", FALSE, b, d), "-", "-") = At("comment", TRUE, b, d)
           /\ ch # "nl" =>
                ReadChar(At("comment", FALSE, b, d), ch, nxt) = At("comment", FALSE, b, d)
           /\ ReadChar(At("comment", FALSE, b, d), "nl", nxt)
                = At("code", FALSE, Append(b, "nl"), d)
BY DEF ReadChar, At, Keep

LEMMA ReadsSkipped ==
    ASSUME NEW place, NEW b, NEW d, NEW ch, NEW nxt
    PROVE  ReadChar(At(place, TRUE, b, d), ch, nxt) = At(place, FALSE, b, d)
BY DEF ReadChar, At

LEMMA ReadsOpening ==
    ASSUME NEW b, NEW d, NEW nxt, NEW q \in {"'", "\""}
    PROVE  ReadChar(At("code", FALSE, b, d), q, nxt) = At(q, FALSE, Append(b, q), d)
BY DEF ReadChar, At, Keep

LEMMA ReadsClosing ==
    ASSUME NEW b, NEW d, NEW nxt, NEW q \in {"'", "\""}
    PROVE  ReadChar(At(q, FALSE, b, d), q, nxt) = At("code", FALSE, Append(b, q), d)
BY DEF ReadChar, At, Keep

LEMMA ReadsInside ==
    ASSUME NEW b, NEW d, NEW ch, NEW nxt, NEW q \in {"'", "\""}, ch \notin {q, "\\"}
    PROVE  ReadChar(At(q, FALSE, b, d), ch, nxt) = At(q, FALSE, Append(b, ch), d)
BY DEF ReadChar, At, Keep

LEMMA ReadsEscape ==
    ASSUME NEW b, NEW d, NEW nxt, NEW q \in {"'", "\""}, nxt # ""
    PROVE  ReadChar(At(q, FALSE, b, d), "\\", nxt) = At(q, TRUE, b \o <<"\\", nxt>>, d)
BY DEF ReadChar, At, Keep

\* Lexeme l stands in the text behind its first p characters.
Placed(text, p, l) ==
    /\ text \in Seq(Char) /\ l \in Seq(Char) /\ l # <<>> /\ p \in Nat
    /\ p + Len(l) <= Len(text)
    /\ \A i \in 1..Len(l) : text[p + i] = l[i]

\* One character of it is read.
LEMMA PlacedRead ==
    ASSUME NEW text, NEW p, NEW l, NEW reader, Placed(text, p, l), Reads(text, reader)
    PROVE  /\ Len(l) \in Nat \ {0} /\ p \in Nat
           /\ \A i \in 1..Len(l) :
                /\ l[i] \in Char
                /\ i < Len(l) => Ahead(text, p + i) = l[i + 1]
                /\ reader[p + i] = ReadChar(reader[p + (i - 1)], l[i], Ahead(text, p + i))
<1>1. Len(l) \in Nat \ {0} /\ p \in Nat /\ Len(text) \in Nat /\ p + Len(l) <= Len(text)
  BY DEF Placed
<1>2. ASSUME NEW i \in 1..Len(l)
      PROVE  /\ l[i] \in Char
             /\ i < Len(l) => Ahead(text, p + i) = l[i + 1]
             /\ reader[p + i] = ReadChar(reader[p + (i - 1)], l[i], Ahead(text, p + i))
  <2>1. l[i] \in Char /\ text[p + i] = l[i]
    BY <1>1 DEF Placed
  <2>2. p + i \in 1..Len(text) /\ (p + i) - 1 = p + (i - 1)
    BY <1>1
  <2>3. ASSUME i < Len(l) PROVE Ahead(text, p + i) = l[i + 1]
    <3>1. p + i # Len(text) /\ (p + i) + 1 = p + (i + 1) /\ i + 1 \in 1..Len(l)
      BY <1>1, <2>3
    <3>2. text[p + (i + 1)] = l[i + 1]
      BY <3>1 DEF Placed
    <3> QED BY <3>1, <3>2, Zenon DEF Ahead
  <2>4. reader[p + i] = ReadChar(reader[p + (i - 1)], l[i], Ahead(text, p + i))
    BY <2>1, <2>2, Zenon DEF Reads
  <2> QED BY <2>1, <2>3, <2>4
<1> QED BY <1>1, <1>2

\* Between places p and q of the text the reader adds s to the statement.
Passes(reader, p, q, s) ==
    \A b \in Seq(Char) : \A d :
        reader[p] = At("code", FALSE, b, d) => reader[q] = At("code", FALSE, b \o s, d)

\* A comment leaves the end of its line.
LEMMA CommentRead ==
    ASSUME NEW text, NEW p, NEW l, NEW reader, Placed(text, p, l), Reads(text, reader),
           IsComment(l)
    PROVE  Passes(reader, p, p + Len(l), <<"nl">>)
<1> SUFFICES ASSUME NEW b \in Seq(Char), NEW d,
                    reader[p] = At("code", FALSE, b, d)
             PROVE  reader[p + Len(l)] = At("code", FALSE, b \o <<"nl">>, d)
  BY Zenon DEF Passes
<1> DEFINE n == Len(l)
           In(i) ==
             /\ i = 1 /\ l[1] # "#" => reader[p + i] = At("comment", TRUE, b, d)
             /\ i # 1 \/ l[1] = "#" => reader[p + i] = At("comment", FALSE, b, d)
           G == {i \in Nat : i \in 1..(n - 1) => In(i)}
<1>1. /\ n \in Nat \ {0} /\ p \in Nat
      /\ \A i \in 1..n :
           /\ l[i] \in Char
           /\ i < n => Ahead(text, p + i) = l[i + 1]
           /\ reader[p + i] = ReadChar(reader[p + (i - 1)], l[i], Ahead(text, p + i))
  BY PlacedRead
<1>2. /\ n >= 2 /\ l[n] = "nl" /\ \A i \in 1..(n - 1) : l[i] # "nl"
      /\ l[1] = "#" \/ (l[1] = "-" /\ l[2] = "-" /\ n >= 3)
  BY <1>1 DEF IsComment
<1> HIDE DEF n
<1>3. p + 0 = p
  BY <1>1
<1>4. 0 \in G
  OBVIOUS
<1>5. ASSUME NEW i \in Nat, i \in G PROVE i + 1 \in G
  <2> HIDE DEF In
  <2> SUFFICES ASSUME i + 1 \in 1..(n - 1) PROVE In(i + 1)
    OBVIOUS
  <2>1. /\ i + 1 \in 1..n /\ i + 1 < n /\ (i + 1) - 1 = i
        /\ l[i + 1] # "nl"
    BY <1>1, <1>2
  <2>2. reader[p + (i + 1)] = ReadChar(reader[p + i], l[i + 1], Ahead(text, p + (i + 1)))
    BY <1>1, <2>1, Zenon
  <2>3. CASE i = 0
    <3>0. i + 1 = 1 /\ p + i = p
      BY <1>1, <2>3
    <3>1. l[i + 1] = l[1] /\ reader[p + i] = At("code", FALSE, b, d) /\ i + 1 = 1
      BY <3>0, Zenon
    <3>2. CASE l[1] = "#"
      <4>1. reader[p + (i + 1)] = At("comment", FALSE, b, d)
        BY <2>2, <3>1, <3>2, ReadsComment, Zenon
      <4> QED BY <3>2, <4>1 DEF In
    <3>3. CASE l[1] = "-" /\ l[2] = "-"
      <4>1. Ahead(text, p + (i + 1)) = "-"
        BY <1>1, <2>1, <2>3, <3>3
      <4>2. reader[p + (i + 1)] = At("comment", TRUE, b, d)
        BY <2>2, <3>1, <3>3, <4>1, ReadsComment, Zenon
      <4> QED BY <3>1, <3>3, <4>2 DEF In
    <3> QED BY <1>2, <3>2, <3>3
  <2>4. CASE i # 0
    <3>1. i \in 1..(n - 1) /\ i + 1 # 1
      BY <1>1, <2>1, <2>4
    <3>2. CASE i = 1 /\ l[1] # "#"
      <4>1. reader[p + i] = At("comment", TRUE, b, d)
        BY <1>5, <3>1, <3>2 DEF In
      <4>2. reader[p + (i + 1)] = At("comment", FALSE, b, d)
        <5>1. ReadChar(At("comment", TRUE, b, d), l[i + 1], Ahead(text, p + (i + 1)))
                = At("comment", FALSE, b, d)
          BY ReadsSkipped
        <5> QED BY <2>2, <4>1, <5>1, Zenon
      <4> QED BY <3>1, <4>2 DEF In
    <3>3. CASE i # 1 \/ l[1] = "#"
      <4>1. reader[p + i] = At("comment", FALSE, b, d)
        BY <1>5, <3>1, <3>3 DEF In
      <4>2. reader[p + (i + 1)] = At("comment", FALSE, b, d)
        <5>1. ReadChar(At("comment", FALSE, b, d), l[i + 1], Ahead(text, p + (i + 1)))
                = At("comment", FALSE, b, d)
          BY <2>1, ReadsComment
        <5> QED BY <2>2, <4>1, <5>1, Zenon
      <4> QED BY <3>1, <4>2 DEF In
    <3> QED BY <3>2, <3>3
  <2> QED BY <2>3, <2>4
<1>6. reader[p + (n - 1)] = At("comment", FALSE, b, d)
  <2> HIDE DEF G
  <2>0. n - 1 \in Nat
    BY <1>1, <1>2
  <2>1. n - 1 \in G
    BY <1>4, <1>5, <2>0, Induction
  <2>2. n - 1 \in 1..(n - 1) /\ (n - 1 # 1 \/ l[1] = "#")
    BY <1>1, <1>2
  <2> QED BY <2>1, <2>2 DEF G, In
<1>7. n \in 1..n
  BY <1>1
<1>8. reader[p + n] = ReadChar(At("comment", FALSE, b, d), "nl", Ahead(text, p + n))
  BY <1>1, <1>2, <1>6, <1>7, Zenon
<1>9. reader[p + n] = At("code", FALSE, Append(b, "nl"), d)
  BY <1>8, ReadsComment
<1>10. Append(b, "nl") = b \o <<"nl">>
  <2>1. "nl" \in Char
    BY DEF Char
  <2> QED BY <2>1, AppendIsConcat, Zenon
<1> QED BY <1>9, <1>10, Zenon DEF n

\* What is read grows with the lexeme.
LEMMA GrowsByOne ==
    ASSUME NEW C, NEW b \in Seq(C), NEW l \in Seq(C), NEW i \in 0..(Len(l) - 1)
    PROVE  Append(b \o SubSeq(l, 1, i), l[i + 1]) = b \o SubSeq(l, 1, i + 1)
<1> DEFINE s == SubSeq(l, 1, i)
<1>1. Len(l) \in Nat /\ i \in Nat /\ i + 1 \in 1..Len(l)
  OBVIOUS
<1>2. s \in Seq(C)
  OBVIOUS
<1>3. l[i + 1] \in C /\ <<l[i + 1]>> \in Seq(C)
  BY <1>1
<1>4. SubSeq(l, 1, i + 1) = s \o <<l[i + 1]>>
  <2>1. 1 \in 1..Len(l) /\ i + 1 \in 1..Len(l) /\ (i + 1) - 1 = i
    BY <1>1
  <2> QED BY <2>1, SubSeqRecursiveSecond, Zenon
<1> HIDE DEF s
<1>5. b \o s \in Seq(C)
  BY <1>2, ConcatProperties, Zenon
<1>6. Append(b \o s, l[i + 1]) = (b \o s) \o <<l[i + 1]>>
  BY <1>3, <1>5, AppendIsConcat, Zenon
<1>7. (b \o s) \o <<l[i + 1]>> = b \o (s \o <<l[i + 1]>>)
  <2> DEFINE e == <<l[i + 1]>>
  <2>1. e \in Seq(C)
    BY <1>3
  <2> HIDE DEF e
  <2>2. (b \o s) \o e = b \o (s \o e)
    BY <1>2, <2>1, ConcatAssociative
  <2> QED BY <2>2 DEF e
<1> QED BY <1>4, <1>6, <1>7, Zenon DEF s

LEMMA GrowsByTwo ==
    ASSUME NEW C, NEW b \in Seq(C), NEW l \in Seq(C), NEW i \in 0..(Len(l) - 2)
    PROVE  (b \o SubSeq(l, 1, i)) \o <<l[i + 1], l[i + 2]>> = b \o SubSeq(l, 1, i + 2)
<1> DEFINE s == b \o SubSeq(l, 1, i)
           t == b \o SubSeq(l, 1, i + 1)
<1>1. /\ Len(l) \in Nat /\ i \in Nat /\ i + 1 \in 1..Len(l) /\ i + 2 \in 1..Len(l)
      /\ i \in 0..(Len(l) - 1) /\ i + 1 \in 0..(Len(l) - 1) /\ (i + 1) + 1 = i + 2
  OBVIOUS
<1>2. l[i + 1] \in C /\ l[i + 2] \in C
  BY <1>1
<1>3. Append(s, l[i + 1]) = t
  BY <1>1, GrowsByOne, Zenon
<1>4. Append(t, l[i + 2]) = b \o SubSeq(l, 1, i + 2)
  BY <1>1, GrowsByOne, Zenon
<1>5. s \in Seq(C)
  <2>1. SubSeq(l, 1, i) \in Seq(C)
    OBVIOUS
  <2> QED BY <2>1, ConcatProperties, Zenon
<1> HIDE DEF s, t
<1>6. s \o <<l[i + 1], l[i + 2]>> = Append(Append(s, l[i + 1]), l[i + 2])
  BY <1>2, <1>5
<1> QED BY <1>3, <1>4, <1>6, Zenon DEF s

\* A literal is kept as it is.
LEMMA LiteralRead ==
    ASSUME NEW text, NEW p, NEW l, NEW reader, Placed(text, p, l), Reads(text, reader),
           IsLiteral(l)
    PROVE  Passes(reader, p, p + Len(l), l)
<1> SUFFICES ASSUME NEW b \in Seq(Char), NEW d,
                    reader[p] = At("code", FALSE, b, d)
             PROVE  reader[p + Len(l)] = At("code", FALSE, b \o l, d)
  BY Zenon DEF Passes
<1> DEFINE n == Len(l)
           q == l[1]
<1>1. /\ n \in Nat \ {0} /\ p \in Nat
      /\ \A i \in 1..n :
           /\ l[i] \in Char
           /\ i < n => Ahead(text, p + i) = l[i + 1]
           /\ reader[p + i] = ReadChar(reader[p + (i - 1)], l[i], Ahead(text, p + i))
  BY PlacedRead
<1>2. PICK escaped \in SUBSET (3..(n - 1)) :
        /\ \A i \in 3..n : i \in escaped <=> l[i - 1] = "\\" /\ i - 1 \notin escaped
        /\ \A i \in 2..(n - 1) : l[i] = q => i \in escaped
  BY DEF IsLiteral
<1>3. n > 1 /\ q \in {"'", "\""} /\ l[n] = q
  BY DEF IsLiteral
<1>30. q \in {"'", "\""} /\ l[n] = q
  BY <1>3
<1>32. q \in {"'", "\""}
  BY <1>30
<1>31. n \in Nat /\ n > 1 /\ p \in Nat
  BY <1>1, <1>3
<1>4. l \in Seq(Char)
  BY DEF Placed
<1>5. Char \intersect {""} = {}
  BY DEF Char
<1>6. /\ \A i \in 0..(n - 1) : Append(b \o SubSeq(l, 1, i), l[i + 1]) = b \o SubSeq(l, 1, i + 1)
      /\ \A i \in 0..(n - 2) :
           (b \o SubSeq(l, 1, i)) \o <<l[i + 1], l[i + 2]>> = b \o SubSeq(l, 1, i + 2)
  BY <1>4, GrowsByOne, GrowsByTwo, Zenon
<1>7. b \o SubSeq(l, 1, 0) = b /\ b \o SubSeq(l, 1, n) = b \o l
  <2>1. SubSeq(l, 1, 0) = <<>>
    BY SubSeqEmpty
  <2>2. b \o <<>> = b
    BY ConcatEmptySeq
  <2>3. SubSeq(l, 1, n) = l
    BY <1>4, SubSeqFull
  <2> QED BY <2>1, <2>2, <2>3
<1> DEFINE upto(i) == b \o SubSeq(l, 1, i)
<1>8. /\ \A i \in 0..(n - 1) : Append(upto(i), l[i + 1]) = upto(i + 1)
      /\ \A i \in 0..(n - 2) : upto(i) \o <<l[i + 1], l[i + 2]>> = upto(i + 2)
      /\ upto(0) = b /\ upto(n) = b \o l
  BY <1>6, <1>7, Zenon
<1> DEFINE In(i) ==
             /\ i + 1 \in escaped => reader[p + i] = At(q, TRUE, upto(i + 1), d)
             /\ i + 1 \notin escaped => reader[p + i] = At(q, FALSE, upto(i), d)
           G == {i \in Nat : i \in 1..(n - 1) => In(i)}
<1> HIDE DEF n, q, upto, In
<1>9. 0 \in G
  OBVIOUS
<1>10. In(1)
  <2>1. /\ 1 \in 1..n /\ 1 - 1 = 0 /\ p + 0 = p /\ 1 + 1 \notin escaped
        /\ 0 \in 0..(n - 1) /\ 0 + 1 = 1
    <3>1. 2 \notin escaped
      BY <1>2, <1>31
    <3> QED BY <1>31, <3>1
  <2>2. reader[p + 1] = ReadChar(At("code", FALSE, b, d), q, Ahead(text, p + 1))
    BY <1>1, <2>1, Zenon DEF q
  <2>3. ReadChar(At("code", FALSE, b, d), q, Ahead(text, p + 1)) = At(q, FALSE, Append(b, q), d)
    BY <1>30, ReadsOpening
  <2>4. Append(b, q) = upto(1)
    BY <1>8, <2>1, Zenon DEF q
  <2> QED BY <2>1, <2>2, <2>3, <2>4, Zenon DEF In
<1>11. ASSUME NEW i \in Nat, i # 0, i + 1 \in 1..(n - 1), In(i) PROVE In(i + 1)
  <2> DEFINE k == i + 1
             nxt == Ahead(text, p + k)
  <2>1. /\ k \in 1..n /\ k < n /\ k - 1 = i /\ k \in 2..(n - 1)
        /\ k + 1 \in 3..n /\ (k + 1) - 1 = k /\ k + 1 \in 1..n
        /\ i \in 0..(n - 1) /\ i \in 0..(n - 2) /\ i + 2 = k + 1
    BY <1>1, <1>11
  <2>2. reader[p + k] = ReadChar(reader[p + i], l[k], nxt) /\ nxt = l[k + 1] /\ nxt # ""
    <3>1. reader[p + k] = ReadChar(reader[p + i], l[k], nxt) /\ nxt = l[k + 1]
      BY <1>1, <2>1, Zenon
    <3>2. l[k + 1] \in Char
      BY <1>1, <2>1, Zenon
    <3> QED BY <1>5, <3>1, <3>2
  <2>3. k + 1 \in escaped <=> l[k] = "\\" /\ k \notin escaped
    BY <1>2, <2>1, Zenon
  <2>4. l[k] = q => k \in escaped
    BY <1>2, <2>1, Zenon
  <2>5. Append(upto(i), l[k]) = upto(k) /\ upto(i) \o <<l[k], l[k + 1]>> = upto(k + 1)
    BY <1>8, <2>1, Zenon
  <2> HIDE DEF k, nxt
  <2>6. CASE k \in escaped
    <3>1. reader[p + i] = At(q, TRUE, upto(k), d)
      BY <1>11, <2>6, Zenon DEF In, k
    <3>2. ReadChar(At(q, TRUE, upto(k), d), l[k], nxt) = At(q, FALSE, upto(k), d)
      BY ReadsSkipped
    <3>3. k + 1 \notin escaped
      BY <2>3, <2>6
    <3>4. reader[p + k] = At(q, FALSE, upto(k), d)
      BY <2>2, <3>1, <3>2, Zenon
    <3> QED BY <3>3, <3>4, Zenon DEF In, k
  <2>7. CASE k \notin escaped
    <3>1. reader[p + i] = At(q, FALSE, upto(i), d)
      BY <1>11, <2>7, Zenon DEF In, k
    <3>2. CASE l[k] = "\\"
      <4>1. ReadChar(At(q, FALSE, upto(i), d), "\\", nxt)
              = At(q, TRUE, upto(i) \o <<"\\", nxt>>, d)
        <5>1. nxt # ""
          BY <2>2
        <5> QED BY <1>32, <5>1, ReadsEscape, Zenon
      <4>2. upto(i) \o <<"\\", nxt>> = upto(k + 1)
        BY <2>2, <2>5, <3>2, Zenon
      <4>3. reader[p + k] = At(q, TRUE, upto(k + 1), d)
        BY <2>2, <3>1, <3>2, <4>1, <4>2, Zenon
      <4>4. k + 1 \in escaped
        BY <2>3, <2>7, <3>2
      <4> QED BY <4>3, <4>4, Zenon DEF In, k
    <3>3. CASE l[k] # "\\"
      <4>1. ReadChar(At(q, FALSE, upto(i), d), l[k], nxt) = At(q, FALSE, Append(upto(i), l[k]), d)
        <5>1. l[k] \notin {q, "\\"}
          BY <2>4, <2>7, <3>3
        <5> QED BY <1>32, <5>1, ReadsInside, Zenon
      <4>2. reader[p + k] = At(q, FALSE, upto(k), d)
        BY <2>2, <2>5, <3>1, <4>1, Zenon
      <4>3. k + 1 \notin escaped
        BY <2>3, <3>3
      <4> QED BY <4>2, <4>3, Zenon DEF In, k
    <3> QED BY <3>2, <3>3
  <2> QED BY <2>6, <2>7
<1>12. ASSUME NEW i \in Nat, i \in G PROVE i + 1 \in G
  <2> SUFFICES ASSUME i + 1 \in 1..(n - 1) PROVE In(i + 1)
    OBVIOUS
  <2>1. CASE i = 0
    BY <1>10, <2>1
  <2>2. CASE i # 0
    <3>1. i \in 1..(n - 1)
      BY <1>1, <2>2
    <3> QED BY <1>11, <1>12, <2>2, <3>1
  <2> QED BY <2>1, <2>2
<1>13. In(n - 1)
  <2> HIDE DEF G
  <2>1. n - 1 \in Nat /\ n - 1 \in 1..(n - 1)
    BY <1>31
  <2>2. n - 1 \in G
    BY <1>9, <1>12, <2>1, Induction
  <2> QED BY <2>1, <2>2 DEF G
<1>14. reader[p + (n - 1)] = At(q, FALSE, upto(n - 1), d)
  <2>1. (n - 1) + 1 = n /\ n \notin escaped
    BY <1>1, <1>2
  <2> QED BY <1>13, <2>1, Zenon DEF In
<1>15. reader[p + n] = ReadChar(At(q, FALSE, upto(n - 1), d), q, Ahead(text, p + n))
  <2>1. n \in 1..n
    BY <1>1
  <2> QED BY <1>1, <1>3, <1>14, <2>1, Zenon
<1>16. ReadChar(At(q, FALSE, upto(n - 1), d), q, Ahead(text, p + n))
         = At("code", FALSE, Append(upto(n - 1), q), d)
  BY <1>30, ReadsClosing
<1>17. Append(upto(n - 1), q) = b \o l
  <2>1. n - 1 \in 0..(n - 1) /\ (n - 1) + 1 = n
    BY <1>1
  <2> QED BY <1>3, <1>8, <2>1, Zenon
<1> QED BY <1>15, <1>16, <1>17, Zenon DEF n

\* What a lexeme adds to its statement.
Sense(l) == IF IsComment(l) THEN <<"nl">> ELSE l

\* A sign of minus by itself is not followed by another.
Lone(text, p, l) == l = <<"-">> => Ahead(text, p + 1) # "-"

\* A lexeme other than a semicolon adds its sense.
LEMMA LexemeRead ==
    ASSUME NEW text, NEW p, NEW l, NEW reader, Placed(text, p, l), Reads(text, reader),
           IsLexeme(l), l # Semicolon, Lone(text, p, l)
    PROVE  Passes(reader, p, p + Len(l), Sense(l))
<1>1. CASE IsComment(l)
  <2>1. Passes(reader, p, p + Len(l), <<"nl">>)
    BY <1>1, CommentRead
  <2> QED BY <1>1, <2>1, Zenon DEF Sense
<1>2. CASE ~IsComment(l) /\ IsLiteral(l)
  <2>1. Passes(reader, p, p + Len(l), l)
    BY <1>2, LiteralRead
  <2> QED BY <1>2, <2>1, Zenon DEF Sense
<1>3. CASE ~IsComment(l) /\ IsCode(l)
  <2> SUFFICES ASSUME NEW b \in Seq(Char), NEW d,
                      reader[p] = At("code", FALSE, b, d)
               PROVE  reader[p + Len(l)] = At("code", FALSE, b \o l, d)
    BY <1>3, Zenon DEF Passes, Sense
  <2> DEFINE ch == l[1]
             nxt == Ahead(text, p + 1)
  <2>0. \A i \in 1..Len(l) :
          /\ l[i] \in Char
          /\ reader[p + i] = ReadChar(reader[p + (i - 1)], l[i], Ahead(text, p + i))
    BY PlacedRead
  <2>1. Len(l) = 1 /\ ch \in Char /\ l \in Seq(Char) /\ p \in Nat
    <3>1. Len(l) = 1 /\ l \in Seq(Char) /\ p \in Nat
      BY <1>3 DEF IsCode, Placed
    <3>2. 1 \in 1..Len(l)
      BY <3>1
    <3> QED BY <2>0, <3>1, <3>2, Zenon
  <2>2. reader[p + 1] = ReadChar(reader[p], ch, nxt)
    <3>1. 1 \in 1..Len(l) /\ 1 - 1 = 0 /\ p + 0 = p
      BY <2>1
    <3> QED BY <2>0, <3>1, Zenon
  <2>3. ch \notin {"#", ";", "'", "\""}
    BY <1>3 DEF IsCode
  <2>4. l = <<ch>>
    BY <2>1
  <2>5. ch = "-" => nxt # "-"
    BY <2>4 DEF Lone
  <2> HIDE DEF ch, nxt
  <2>6. ReadChar(At("code", FALSE, b, d), ch, nxt) = At("code", FALSE, Append(b, ch), d)
    BY <2>3, <2>5, ReadsCode
  <2>7. Append(b, ch) = b \o l
    BY <2>1, <2>4, AppendIsConcat, Zenon
  <2> QED BY <2>1, <2>2, <2>6, <2>7, Zenon
<1> QED BY <1>1, <1>2, <1>3 DEF IsLexeme

\* A semicolon ends the statement.
EndsStatement(reader, p, q) ==
    \A b, d : reader[p] = At("code", FALSE, b, d) =>
              reader[q] = Flush(At("code", FALSE, b, d))

LEMMA SemicolonRead ==
    ASSUME NEW text, NEW p, NEW reader, Placed(text, p, Semicolon), Reads(text, reader)
    PROVE  EndsStatement(reader, p, p + Len(Semicolon))
<1> SUFFICES ASSUME NEW b, NEW d, reader[p] = At("code", FALSE, b, d)
             PROVE  reader[p + Len(Semicolon)] = Flush(At("code", FALSE, b, d))
  BY Zenon DEF EndsStatement
<1>1. Len(Semicolon) = 1 /\ Semicolon[1] = ";"
  BY DEF Semicolon
<1>0. \A i \in 1..Len(Semicolon) :
        reader[p + i] = ReadChar(reader[p + (i - 1)], Semicolon[i], Ahead(text, p + i))
  BY PlacedRead
<1>2. 1 \in 1..Len(Semicolon) /\ 1 - 1 = 0 /\ p + 0 = p
  <2>1. p \in Nat
    BY DEF Placed
  <2>2. Len(Semicolon) = 1
    BY <1>1
  <2> QED BY <2>1, <2>2
<1>3. reader[p + 1] = ReadChar(reader[p], ";", Ahead(text, p + 1))
  BY <1>0, <1>1, <1>2, Zenon
<1> QED BY <1>1, <1>3, ReadsSemicolon, Zenon

LEMMA FlushIs ==
    ASSUME NEW b, NEW d
    PROVE  Flush(At("code", FALSE, b, d))
             = At("code", FALSE, <<>>, IF Strip(b) = <<>> THEN d ELSE Append(d, Strip(b)))
<1> DEFINE s == Strip(b)
           r == At("code", FALSE, b, d)
<1>1. r.buf = b /\ r.done = d
  BY DEF At
<1>2. Flush(r) = [r EXCEPT !.done = IF s = <<>> THEN r.done ELSE Append(r.done, s), !.buf = <<>>]
  BY <1>1, Zenon DEF Flush
<1> DEFINE e == IF s = <<>> THEN d ELSE Append(d, s)
<1>3. Flush(r) = [r EXCEPT !.done = e, !.buf = <<>>]
  BY <1>1, <1>2, Zenon
<1> HIDE DEF e, s
<1> QED BY <1>3 DEF At, e, s

----------------------------------------------------------------------------
(* The lexemes of a script, one behind the other.                          *)

\* The first k lexemes.
Opening(script, k) == FlattenSeq(SubSeq(script, 1, k))

LEMMA PrefixStep ==
    ASSUME NEW script \in Seq(Seq(Char)), NEW k \in 1..Len(script)
    PROVE  /\ Opening(script, k - 1) \in Seq(Char)
           /\ script[k] \in Seq(Char)
           /\ Opening(script, k) = Opening(script, k - 1) \o script[k]
<1> DEFINE s == SubSeq(script, 1, k - 1)
           S == Seq(Char)
<1>1. k \in 1..Len(script) /\ 1 \in 1..Len(script) /\ k \in 1..k
  OBVIOUS
<1>2. s \in Seq(S) /\ script[k] \in S
  OBVIOUS
<1> HIDE DEF S
<1>3. SubSeq(script, 1, k) = s \o <<script[k]>>
  <2>1. script \in Seq(S) /\ k \in 1..Len(script)
    BY DEF S
  <2> QED BY <1>1, <2>1, SubSeqRecursiveSecond, Zenon
<1> HIDE DEF s
<1>4. Append(s, script[k]) = s \o <<script[k]>>
  BY <1>2, AppendIsConcat, Zenon
<1>5. /\ FlattenSeq(s) \in Seq(Char)
      /\ FlattenSeq(Append(s, script[k])) = FlattenSeq(s) \o script[k]
  BY <1>2, FlattenAppend, Zenon DEF S
<1> QED BY <1>2, <1>3, <1>4, <1>5, Zenon DEF Opening, s, S

LEMMA OpeningEnds ==
    ASSUME NEW script \in Seq(Seq(Char))
    PROVE  /\ Opening(script, 0) = <<>>
           /\ Opening(script, Len(script)) = FlattenSeq(script)
<1>1. SubSeq(script, 1, 0) = <<>> /\ SubSeq(script, 1, Len(script)) = script
  BY SubSeqEmpty, SubSeqFull
<1>2. FlattenSeq(<<>>) = <<>>
  BY FlattenIs
<1> QED BY <1>1, <1>2, Zenon DEF Opening

\* The whole text goes on from there.
LEMMA TextGoesOn ==
    ASSUME NEW script \in Seq(Seq(Char)), NEW k \in 0..Len(script)
    PROVE  /\ Opening(script, k) \in Seq(Char)
           /\ \E s \in Seq(Char) : FlattenSeq(script) = Opening(script, k) \o s
<1> DEFINE n == Len(script)
           In(m) == /\ Opening(script, m) \in Seq(Char)
                    /\ \E s \in Seq(Char) : FlattenSeq(script) = Opening(script, m) \o s
           G == {j \in Nat : j <= n => In(n - j)}
<1>0. n \in Nat /\ k \in 0..n
  OBVIOUS
<1> HIDE DEF n, In
<1>1. In(n)
  <2>1. FlattenSeq(script) \in Seq(Char)
    <3>1. <<>> \in Seq(Char)
      OBVIOUS
    <3> QED BY <3>1, FlattenAppend
  <2>2. FlattenSeq(script) = FlattenSeq(script) \o <<>> /\ <<>> \in Seq(Char)
    BY <2>1, ConcatEmptySeq
  <2> QED BY <2>1, <2>2, OpeningEnds, Zenon DEF In, n
<1>2. 0 \in G
  <2>1. n - 0 = n
    BY <1>0
  <2> QED BY <1>1, <2>1
<1>3. ASSUME NEW j \in Nat, j \in G PROVE j + 1 \in G
  <2> SUFFICES ASSUME j + 1 <= n PROVE In(n - (j + 1))
    OBVIOUS
  <2> DEFINE m == n - j
  <2>1. m \in 1..Len(script) /\ n - (j + 1) = m - 1 /\ j <= n
    BY <1>0 DEF n
  <2>2. In(m)
    BY <1>3, <2>1
  <2> HIDE DEF m
  <2>3. /\ Opening(script, m - 1) \in Seq(Char)
        /\ script[m] \in Seq(Char)
        /\ Opening(script, m) = Opening(script, m - 1) \o script[m]
    BY <2>1, PrefixStep
  <2>4. PICK s \in Seq(Char) : FlattenSeq(script) = Opening(script, m) \o s
    BY <2>2, Zenon DEF In
  <2>5. script[m] \o s \in Seq(Char)
    BY <2>3, <2>4, ConcatProperties, Zenon
  <2>6. (Opening(script, m - 1) \o script[m]) \o s = Opening(script, m - 1) \o (script[m] \o s)
    <3> DEFINE a == Opening(script, m - 1)
               l == script[m]
    <3>1. a \in Seq(Char) /\ l \in Seq(Char)
      BY <2>3
    <3> HIDE DEF a, l
    <3>2. (a \o l) \o s = a \o (l \o s)
      BY <3>1, ConcatAssociative
    <3> QED BY <3>2 DEF a, l
  <2> QED BY <2>1, <2>3, <2>4, <2>5, <2>6, Zenon DEF In
<1> HIDE DEF G
<1>4. n - k \in Nat /\ n - k <= n /\ n - (n - k) = k
  BY <1>0
<1>5. n - k \in G
  BY <1>2, <1>3, <1>4, Induction
<1>6. In(k)
  <2>1. In(n - (n - k))
    BY <1>4, <1>5 DEF G
  <2> QED BY <1>4, <2>1, Zenon
<1> QED BY <1>6 DEF In

LEMMA LexemePlaced ==
    ASSUME NEW script \in Seq(Seq(Char)), NEW k \in 1..Len(script), script[k] # <<>>
    PROVE  /\ Placed(FlattenSeq(script), Len(Opening(script, k - 1)), script[k])
           /\ Len(Opening(script, k)) = Len(Opening(script, k - 1)) + Len(script[k])
<1> DEFINE a == Opening(script, k - 1)
           l == script[k]
           text == FlattenSeq(script)
<1>1. a \in Seq(Char) /\ l \in Seq(Char) /\ Opening(script, k) = a \o l
  BY PrefixStep
<1>2. PICK s \in Seq(Char) : text = (a \o l) \o s
  <2>1. k \in 0..Len(script)
    OBVIOUS
  <2> QED BY <1>1, <2>1, TextGoesOn, Zenon
<1>3. l # <<>>
  OBVIOUS
<1> HIDE DEF a, l, text
<1>4. /\ Len(a \o l) = Len(a) + Len(l) /\ a \o l \in Seq(Char)
      /\ \A i \in 1..Len(l) : (a \o l)[Len(a) + i] = l[i]
      /\ Len(a) \in Nat /\ Len(l) \in Nat
  BY <1>1
<1>5. /\ text \in Seq(Char) /\ Len(text) = Len(a \o l) + Len(s)
      /\ \A i \in 1..Len(a \o l) : text[i] = (a \o l)[i]
  BY <1>2, <1>4
<1>6. ASSUME NEW i \in 1..Len(l) PROVE text[Len(a) + i] = l[i]
  <2>1. Len(a) + i \in 1..Len(a \o l)
    BY <1>4
  <2> QED BY <1>4, <1>5, <2>1, Zenon
<1>7. Len(a) + Len(l) <= Len(text)
  BY <1>2, <1>4, <1>5
<1>8. Placed(text, Len(a), l)
  BY <1>1, <1>3, <1>4, <1>5, <1>6, <1>7, Zenon DEF Placed
<1> QED BY <1>1, <1>4, <1>8, Zenon DEF a, l, text

\* A lexeme has a character.
LEMMA LexemeNotEmpty ==
    ASSUME NEW l \in Seq(Char), IsLexeme(l)
    PROVE  l # <<>>
<1>1. Len(Semicolon) = 1 /\ Len(<<>>) = 0 /\ 1 # 0 /\ ~(0 > 1)
  BY DEF Semicolon
<1>2. Len(l) = 1 \/ Len(l) > 1
  <2>1. CASE l = Semicolon
    BY <1>1, <2>1, Zenon
  <2>2. CASE IsCode(l)
    BY <2>2 DEF IsCode
  <2>3. CASE IsComment(l) \/ IsLiteral(l)
    BY <2>3 DEF IsComment, IsLiteral
  <2> QED BY <2>1, <2>2, <2>3, Zenon DEF IsLexeme
<1> QED BY <1>1, <1>2, Zenon

LEMMA LexemeLone ==
    ASSUME NEW script \in Seq(Seq(Char)), WellFormed(script), NEW k \in 1..Len(script)
    PROVE  Lone(FlattenSeq(script), Len(Opening(script, k - 1)), script[k])
<1> DEFINE p == Len(Opening(script, k - 1))
           text == FlattenSeq(script)
           n == Len(script)
<1> SUFFICES ASSUME script[k] = <<"-">> PROVE Ahead(text, p + 1) # "-"
  BY DEF Lone
<1>1. n \in Nat /\ k \in 1..n
  OBVIOUS
<1>2. \A i \in 1..n : script[i] \in Seq(Char) /\ script[i] # <<>>
  <2>1. \A i \in 1..n : script[i] \in Seq(Char) /\ IsLexeme(script[i])
    BY DEF WellFormed
  <2> QED BY <2>1, LexemeNotEmpty, Zenon
<1>3. /\ Placed(text, p, script[k])
      /\ Len(Opening(script, k)) = p + Len(script[k])
  BY <1>1, <1>2, LexemePlaced, Zenon
<1>4. Len(script[k]) = 1
  OBVIOUS
<1>5. Len(Opening(script, k)) = p + 1 /\ p \in Nat /\ Len(text) \in Nat
  <2>1. p \in Nat /\ text \in Seq(Char)
    BY <1>3 DEF Placed
  <2> QED BY <1>3, <1>4, <2>1
<1>6. CASE k = n
  <2>1. Opening(script, k) = text
    BY <1>6, OpeningEnds, Zenon
  <2>2. p + 1 = Len(text)
    BY <1>5, <2>1, Zenon
  <2>3. Ahead(text, p + 1) = ""
    BY <2>2, Zenon DEF Ahead
  <2> QED BY <2>3
<1>7. CASE k # n
  <2> DEFINE l == script[k + 1]
  <2>1. k + 1 \in 1..n /\ (k + 1) - 1 = k /\ k \in 1..(n - 1)
    BY <1>1, <1>7
  <2>2. Placed(text, p + 1, l)
    <3>1. Placed(text, Len(Opening(script, (k + 1) - 1)), l)
      BY <1>2, <2>1, LexemePlaced, Zenon
    <3> QED BY <1>5, <2>1, <3>1, Zenon
  <2>3. l[1] # "-"
    BY <2>1 DEF WellFormed
  <2>4. Len(l) \in Nat \ {0} /\ p + 1 + Len(l) <= Len(text)
    <3>1. l \in Seq(Char) /\ l # <<>>
      BY <1>2, <2>1, Zenon
    <3> HIDE DEF l, text, p
    <3>2. p + 1 + Len(l) <= Len(text)
      BY <2>2 DEF Placed
    <3> QED BY <3>1, <3>2
  <2>5. 1 \in 1..Len(l) /\ p + 1 # Len(text)
    <3> HIDE DEF l, text, p
    <3> QED BY <1>5, <2>4
  <2>6. text[(p + 1) + 1] = l[1]
    BY <2>2, <2>5, Zenon DEF Placed
  <2>7. Ahead(text, p + 1) = l[1]
    BY <2>5, <2>6, Zenon DEF Ahead
  <2> QED BY <2>3, <2>7
<1> QED BY <1>6, <1>7

----------------------------------------------------------------------------
(* The cuts of a script, and what it has since the last of them.           *)

Semicolons(script) == {i \in 1..Len(script) : script[i] = Semicolon}
LastCut(script, k) == Max({i \in {0} \union Semicolons(script) : i <= k})
Piece(script, k) == Text(SubSeq(script, LastCut(script, k) + 1, k))

\* Max finds the greatest of the numbers up to k.
LEMMA GreatestUpTo ==
    ASSUME NEW S \in SUBSET Nat, NEW k \in Nat, 0 \in S
    PROVE  LET m == Max({i \in S : i <= k})
           IN  m \in S /\ m <= k /\ \A i \in S : i <= k => i <= m
<1> DEFINE U == {i \in S : i <= k}
           T == {k - i : i \in U}
<1>1. T \in SUBSET Nat /\ k - 0 \in T
  OBVIOUS
<1>2. PICK x \in T : \A y \in T : x <= y
  BY <1>1, LeastNumber
<1>3. PICK m \in U : x = k - m
  BY <1>2
<1>4. \A i \in U : m >= i
  <2> SUFFICES ASSUME NEW i \in U PROVE m >= i
    OBVIOUS
  <2>1. k - i \in T
    BY Zenon
  <2>2. k - m <= k - i
    BY <1>2, <1>3, <2>1, Zenon
  <2>3. i \in Nat /\ m \in Nat
    OBVIOUS
  <2> QED BY <2>2, <2>3
<1> HIDE DEF U, T
<1>5. /\ Max(U) \in U
      /\ \A i \in U : Max(U) >= i
  BY <1>3, <1>4, Zenon DEF Max
<1> QED BY <1>5 DEF U

LEMMA LastIs ==
    ASSUME NEW script \in Seq(Seq(Char)), NEW k \in 0..Len(script)
    PROVE  /\ LastCut(script, k) \in {0} \union Semicolons(script)
           /\ LastCut(script, k) \in 0..k
           /\ \A i \in {0} \union Semicolons(script) : i <= k => i <= LastCut(script, k)
<1> DEFINE S == {0} \union Semicolons(script)
<1>1. S \in SUBSET Nat /\ k \in Nat /\ 0 \in S
  BY DEF Semicolons
<1> HIDE DEF S
<1>2. LastCut(script, k) = Max({i \in S : i <= k})
  BY DEF LastCut, S
<1>3. LET m == Max({i \in S : i <= k}) IN m \in S /\ m <= k /\ \A i \in S : i <= k => i <= m
  BY <1>1, GreatestUpTo
<1> QED BY <1>1, <1>2, <1>3 DEF S

\* From one lexeme to the next.
LEMMA LastStep ==
    ASSUME NEW script \in Seq(Seq(Char)), NEW k \in 1..Len(script)
    PROVE  LastCut(script, k) = IF script[k] = Semicolon THEN k ELSE LastCut(script, k - 1)
<1>1. /\ LastCut(script, k) \in {0} \union Semicolons(script)
      /\ LastCut(script, k) \in 0..k
      /\ \A i \in {0} \union Semicolons(script) : i <= k => i <= LastCut(script, k)
  <2>1. k \in 0..Len(script)
    OBVIOUS
  <2> QED BY <2>1, LastIs, Zenon
<1>2. /\ LastCut(script, k - 1) \in {0} \union Semicolons(script)
      /\ LastCut(script, k - 1) \in 0..(k - 1)
      /\ \A i \in {0} \union Semicolons(script) : i <= k - 1 => i <= LastCut(script, k - 1)
  <2>1. k - 1 \in 0..Len(script)
    OBVIOUS
  <2> QED BY <2>1, LastIs, Zenon
<1>3. k \in Semicolons(script) <=> script[k] = Semicolon
  BY DEF Semicolons
<1> QED BY <1>1, <1>2, <1>3

\* What a lexeme adds to a text.
LEMMA TextGrows ==
    ASSUME NEW s \in Seq(Seq(Char)), NEW l \in Seq(Char)
    PROVE  /\ Text(s) \in Seq(Char)
           /\ Text(Append(s, l)) = Text(s) \o Sense(l)
<1> DEFINE sense(t) == [i \in 1..Len(t) |-> Sense(t[i])]
           C == Seq(Char)
<1>1. \A t : Text(t) = FlattenSeq(sense(t))
  BY DEF Text, Sense
<1>2. \A m \in C : Sense(m) \in C
  <2>1. <<"nl">> \in C
    <3>1. "nl" \in Char
      BY DEF Char
    <3> QED BY <3>1
  <2> QED BY <2>1, Zenon DEF Sense
<1> HIDE DEF C
<1>3. \A t \in Seq(C) : sense(t) \in Seq(C)
  BY <1>2
<1>4. sense(Append(s, l)) = Append(sense(s), Sense(l))
  <2>1. s \in Seq(C) /\ l \in C
    BY DEF C
  <2> DEFINE a == Append(s, l)
             b == Append(sense(s), Sense(l))
  <2>2. /\ Len(a) = Len(s) + 1 /\ Len(s) \in Nat
        /\ \A i \in 1..Len(s) : a[i] = s[i]
        /\ a[Len(s) + 1] = l
    BY <2>1
  <2>3. /\ Len(sense(s)) = Len(s) /\ sense(s) \in Seq(C) /\ Sense(l) \in C
    BY <1>2, <1>3, <2>1
  <2>4. /\ Len(b) = Len(s) + 1 /\ b \in Seq(C)
        /\ \A i \in 1..Len(s) : b[i] = sense(s)[i]
        /\ b[Len(s) + 1] = Sense(l)
    BY <2>3
  <2>5. a \in Seq(C)
    BY <2>1
  <2> HIDE DEF a, b
  <2>6. Len(sense(a)) = Len(s) + 1 /\ sense(a) \in Seq(C)
    BY <1>3, <2>2, <2>5
  <2>7. \A i \in 1..(Len(s) + 1) : sense(a)[i] = b[i]
    BY <2>2, <2>4
  <2>8. sense(a) = b
    <3> DEFINE c == sense(a)
    <3> HIDE DEF c
    <3>1. c \in Seq(C) /\ Len(c) = Len(b) /\ \A i \in 1..Len(b) : c[i] = b[i]
      BY <2>4, <2>6, <2>7 DEF c
    <3>2. c = b
      BY <2>4, <3>1
    <3> QED BY <3>2 DEF c
  <2> QED BY <2>8 DEF a, b
<1>5. sense(s) \in Seq(C) /\ Sense(l) \in C
  BY <1>2, <1>3 DEF C
<1> HIDE DEF sense
<1>6. /\ FlattenSeq(sense(s)) \in Seq(Char)
      /\ FlattenSeq(Append(sense(s), Sense(l))) = FlattenSeq(sense(s)) \o Sense(l)
  BY <1>5, FlattenAppend DEF C
<1> QED BY <1>1, <1>4, <1>6, Zenon

LEMMA TextOfNone == Text(<<>>) = <<>>
<1>1. [i \in 1..Len(<<>>) |-> IF IsComment(<<>>[i]) THEN <<"nl">> ELSE <<>>[i]] = <<>>
  OBVIOUS
<1>2. FlattenSeq(<<>>) = <<>>
  BY FlattenIs
<1> QED BY <1>1, <1>2, Zenon DEF Text

\* The piece grows with every lexeme but a semicolon, which empties it.
LEMMA PieceStep ==
    ASSUME NEW script \in Seq(Seq(Char)), NEW k \in 1..Len(script)
    PROVE  /\ Piece(script, k - 1) \in Seq(Char)
           /\ Piece(script, k) = IF script[k] = Semicolon THEN <<>>
                                 ELSE Piece(script, k - 1) \o Sense(script[k])
<1> DEFINE C == Seq(Char)
           m == LastCut(script, k - 1)
           s == SubSeq(script, m + 1, k - 1)
<1>1. script \in Seq(C) /\ Len(script) \in Nat /\ k \in 1..Len(script)
  BY DEF C
<1>2. m \in 0..(k - 1)
  <2>1. k - 1 \in 0..Len(script)
    BY <1>1
  <2> QED BY <2>1, LastIs, Zenon
<1> HIDE DEF C, m
<1>3. s \in Seq(C) /\ script[k] \in C
  BY <1>1, <1>2
<1>4. Piece(script, k - 1) = Text(s)
  BY DEF Piece, m
<1>5. CASE script[k] = Semicolon
  <2>1. Piece(script, k) = Text(SubSeq(script, k + 1, k))
    BY <1>5, LastStep, Zenon DEF Piece
  <2>2. SubSeq(script, k + 1, k) = <<>>
    BY <1>1, SubSeqEmpty
  <2> QED BY <1>3, <1>4, <1>5, <2>1, <2>2, TextGrows, TextOfNone, Zenon DEF C
<1>6. CASE script[k] # Semicolon
  <2>1. Piece(script, k) = Text(SubSeq(script, m + 1, k))
    BY <1>6, LastStep, Zenon DEF Piece, m
  <2>2. SubSeq(script, m + 1, k) = s \o <<script[k]>>
    <3>1. m + 1 \in 1..Len(script) /\ k \in (m + 1)..Len(script)
      BY <1>1, <1>2
    <3> QED BY <1>1, <3>1, SubSeqRecursiveSecond, Zenon
  <2> HIDE DEF s
  <2>3. Append(s, script[k]) = s \o <<script[k]>>
    BY <1>3, AppendIsConcat, Zenon
  <2> QED BY <1>3, <1>4, <1>6, <2>1, <2>2, <2>3, TextGrows, Zenon DEF C
<1> QED BY <1>5, <1>6

----------------------------------------------------------------------------
(* The statements, one for every cut that has something before it.         *)

Statement(script, j) == Strip(Piece(script, j - 1))

\* The list holds the statement of every cut of E, in their order.
Collects(script, E, done) ==
    /\ done \in Seq({Strip(t) : t \in Seq(Char)})
    /\ Len(done) = Cardinality(E)
    /\ \A j \in E : done[Cardinality({i \in E : i <= j})] = Statement(script, j)

LEMMA CollectsOneMore ==
    ASSUME NEW script, NEW k \in Nat, NEW E \in SUBSET (1..k), NEW done,
           Collects(script, E, done), Piece(script, k) \in Seq(Char)
    PROVE  Collects(script, E \union {k + 1}, Append(done, Strip(Piece(script, k))))
<1> DEFINE D == {Strip(t) : t \in Seq(Char)}
           F == E \union {k + 1}
           v == Strip(Piece(script, k))
           more == Append(done, v)
           upto(j) == {i \in E : i <= j}
<1>1. v \in D /\ v = Statement(script, k + 1)
  <2>1. (k + 1) - 1 = k
    OBVIOUS
  <2>2. v \in D
    BY Zenon
  <2> QED BY <2>1, <2>2, Zenon DEF Statement
<1>2. /\ done \in Seq(D) /\ Len(done) = Cardinality(E)
      /\ \A j \in E : done[Cardinality(upto(j))] = Statement(script, j)
  BY Zenon DEF Collects
<1> HIDE DEF D, v
<1>3. IsFiniteSet(E) /\ Cardinality(E) \in Nat /\ k + 1 \notin E
  <2>1. IsFiniteSet(1..k)
    BY FS_Interval
  <2>2. IsFiniteSet(E)
    BY <2>1, FS_Subset
  <2> QED BY <2>2, FS_CardinalityType
<1>4. Cardinality(F) = Cardinality(E) + 1
  BY <1>3, FS_AddElement
<1>5. /\ more \in Seq(D) /\ Len(more) = Len(done) + 1 /\ more[Len(done) + 1] = v
      /\ \A i \in 1..Len(done) : more[i] = done[i]
  BY <1>1, <1>2
<1>6. ASSUME NEW j \in F PROVE more[Cardinality({i \in F : i <= j})] = Statement(script, j)
  <2>1. CASE j \in E
    <3>1. {i \in F : i <= j} = upto(j)
      BY <2>1
    <3>2. IsFiniteSet(upto(j)) /\ Cardinality(upto(j)) <= Cardinality(E)
      BY <1>3, FS_Subset
    <3>3. Cardinality(upto(j)) \in Nat /\ Cardinality(upto(j)) # 0
      <4>1. j \in upto(j)
        BY <2>1
      <4> HIDE DEF upto
      <4> QED BY <3>2, <4>1, FS_CardinalityType, FS_EmptySet
    <3> HIDE DEF upto, more
    <3>4. Cardinality(upto(j)) \in 1..Len(done)
      BY <1>2, <1>3, <3>2, <3>3
    <3> QED BY <1>2, <1>5, <2>1, <3>1, <3>4, Zenon
  <2>2. CASE j = k + 1
    <3>0. \A i \in F : i <= k + 1
      OBVIOUS
    <3>1. {i \in F : i <= j} = F
      BY <2>2, <3>0, Zenon
    <3> HIDE DEF more, F
    <3>2. Cardinality({i \in F : i <= j}) = Len(done) + 1
      BY <1>2, <1>4, <3>1, Zenon
    <3> QED BY <1>1, <1>5, <2>2, <3>2, Zenon
  <2> QED BY <2>1, <2>2
<1>7. Len(more) = Cardinality(F)
  BY <1>2, <1>4, <1>5
<1> HIDE DEF more, F
<1>8. Collects(script, F, more)
  BY <1>5, <1>6, <1>7, Zenon DEF Collects, D
<1> QED BY <1>8 DEF F, more, v

\* The cuts among the first k lexemes that end a statement.
Ended(script, k) == {j \in 1..k : script[j] = Semicolon /\ Statement(script, j) # <<>>}

LEMMA PieceOfNone ==
    ASSUME NEW script \in Seq(Seq(Char))
    PROVE  Piece(script, 0) = <<>>
<1>1. LastCut(script, 0) = 0
  <2>1. 0 \in 0..Len(script)
    OBVIOUS
  <2>2. LastCut(script, 0) \in 0..0
    BY <2>1, LastIs, Zenon
  <2> QED BY <2>2
<1>2. SubSeq(script, 0 + 1, 0) = <<>>
  BY SubSeqEmpty
<1> QED BY <1>1, <1>2, TextOfNone, Zenon DEF Piece

LEMMA PieceIsText ==
    ASSUME NEW script \in Seq(Seq(Char)), WellFormed(script), NEW k \in 0..Len(script)
    PROVE  Piece(script, k) \in Seq(Char)
<1>1. CASE k = 0
  <2>1. <<>> \in Seq(Char)
    OBVIOUS
  <2> QED BY <1>1, <2>1, PieceOfNone, Zenon
<1>2. CASE k # 0
  <2>1. k \in 1..Len(script)
    BY <1>2
  <2>2. Piece(script, k - 1) \in Seq(Char) /\ script[k] \in Seq(Char)
    BY <2>1, PieceStep, PrefixStep, Zenon
  <2>3. Sense(script[k]) \in Seq(Char)
    <3>1. "nl" \in Char
      BY DEF Char
    <3>2. <<"nl">> \in Seq(Char)
      BY <3>1
    <3> QED BY <2>2, <3>2, Zenon DEF Sense
  <2>4. Piece(script, k - 1) \o Sense(script[k]) \in Seq(Char)
    BY <2>2, <2>3, ConcatProperties, Zenon
  <2>5. <<>> \in Seq(Char)
    OBVIOUS
  <2> QED BY <2>1, <2>4, <2>5, PieceStep, Zenon
<1> QED BY <1>1, <1>2

\* Where the reader is behind the first k lexemes.
ReadSoFar(script, reader, k) ==
    \E d : /\ Collects(script, Ended(script, k), d)
           /\ reader[Len(Opening(script, k))] = At("code", FALSE, Piece(script, k), d)

LEMMA ReadsOn ==
    ASSUME NEW script \in Seq(Seq(Char)), WellFormed(script), NEW reader,
           Reads(FlattenSeq(script), reader), NEW k \in 1..Len(script),
           ReadSoFar(script, reader, k - 1)
    PROVE  ReadSoFar(script, reader, k)
<1> DEFINE l == script[k]
           text == FlattenSeq(script)
           p == Len(Opening(script, k - 1))
           b == Piece(script, k - 1)
           E == Ended(script, k - 1)
<1>1. /\ k - 1 \in Nat /\ k - 1 \in 0..Len(script) /\ (k - 1) + 1 = k
      /\ E \in SUBSET (1..(k - 1))
      /\ Ended(script, k) = IF l = Semicolon /\ Statement(script, k) # <<>>
                            THEN E \union {k} ELSE E
  <2>1. k - 1 \in Nat /\ k - 1 \in 0..Len(script) /\ (k - 1) + 1 = k
    OBVIOUS
  <2>2. E \in SUBSET (1..(k - 1))
    BY DEF Ended
  <2>3. 1..k = (1..(k - 1)) \union {k}
    OBVIOUS
  <2>4. Ended(script, k) = IF l = Semicolon /\ Statement(script, k) # <<>>
                           THEN E \union {k} ELSE E
    <3>1. CASE l = Semicolon /\ Statement(script, k) # <<>>
      BY <2>3, <3>1, Zenon DEF Ended
    <3>2. CASE ~(l = Semicolon /\ Statement(script, k) # <<>>)
      BY <2>3, <3>2, Zenon DEF Ended
    <3> QED BY <3>1, <3>2, Zenon
  <2> QED BY <2>1, <2>2, <2>4
<1>2. l \in Seq(Char) /\ IsLexeme(l) /\ l # <<>>
  <2>1. l \in Seq(Char) /\ IsLexeme(l)
    BY DEF WellFormed
  <2> QED BY <2>1, LexemeNotEmpty, Zenon
<1>3. Placed(text, p, l) /\ Len(Opening(script, k)) = p + Len(l)
  BY <1>2, LexemePlaced, Zenon
<1>4. Lone(text, p, l)
  BY LexemeLone, Zenon
<1>5. b \in Seq(Char)
  BY <1>1, PieceIsText, Zenon
<1>6. PICK d : Collects(script, E, d) /\ reader[p] = At("code", FALSE, b, d)
  BY Zenon DEF ReadSoFar
<1>7. Piece(script, k) = IF l = Semicolon THEN <<>> ELSE b \o Sense(l)
  BY PieceStep, Zenon
<1>8. Statement(script, k) = Strip(b)
  BY DEF Statement
<1> HIDE DEF l, text, p, b, E
<1>9. CASE l # Semicolon
  <2>1. Passes(reader, p, p + Len(l), Sense(l))
    BY <1>2, <1>3, <1>4, <1>9, LexemeRead, Zenon DEF text
  <2>2. reader[p + Len(l)] = At("code", FALSE, b \o Sense(l), d)
    BY <1>5, <1>6, <2>1, Zenon DEF Passes
  <2> QED BY <1>1, <1>3, <1>6, <1>7, <1>9, <2>2, Zenon DEF ReadSoFar
<1>10. CASE l = Semicolon
  <2> DEFINE e == IF Strip(b) = <<>> THEN d ELSE Append(d, Strip(b))
  <2>0. Placed(text, p, Semicolon)
    BY <1>3, <1>10, Zenon
  <2>1. reader[p + Len(l)] = Flush(At("code", FALSE, b, d))
    <3>1. EndsStatement(reader, p, p + Len(Semicolon))
      BY <2>0, SemicolonRead, Zenon DEF text
    <3> QED BY <1>6, <1>10, <3>1, Zenon DEF EndsStatement
  <2>2. reader[p + Len(l)] = At("code", FALSE, <<>>, e)
    BY <2>1, FlushIs, Zenon
  <2>3. Collects(script, Ended(script, k), e)
    <3>1. CASE Strip(b) = <<>>
      BY <1>1, <1>6, <1>8, <3>1, Zenon
    <3>2. CASE Strip(b) # <<>>
      <4>1. Collects(script, E \union {(k - 1) + 1}, Append(d, Strip(b)))
        BY <1>1, <1>5, <1>6, CollectsOneMore, Zenon DEF b
      <4> QED BY <1>1, <1>8, <1>10, <3>2, <4>1, Zenon
    <3> QED BY <3>1, <3>2
  <2> QED BY <1>3, <1>7, <1>10, <2>2, <2>3, Zenon DEF ReadSoFar
<1> QED BY <1>9, <1>10

LEMMA ReadsAll ==
    ASSUME NEW script \in Seq(Seq(Char)), WellFormed(script), NEW reader,
           Reads(FlattenSeq(script), reader)
    PROVE  ReadSoFar(script, reader, Len(script))
<1> DEFINE n == Len(script)
           G == {k \in Nat : k <= n => ReadSoFar(script, reader, k)}
<1>0. n \in Nat
  OBVIOUS
<1>1. 0 \in G
  <2>1. Ended(script, 0) = {}
    BY DEF Ended
  <2>2. Collects(script, {}, <<>>)
    BY FS_EmptySet DEF Collects
  <2>3. Len(Opening(script, 0)) = 0
    <3>1. Opening(script, 0) = <<>> /\ Len(<<>>) = 0
      BY OpeningEnds
    <3> QED BY <3>1, Zenon
  <2>4. reader[0] = At("code", FALSE, <<>>, <<>>)
    BY DEF Reads, Start, At
  <2>5. ReadSoFar(script, reader, 0)
    BY <2>1, <2>2, <2>3, <2>4, PieceOfNone, Zenon DEF ReadSoFar
  <2> QED BY <2>5
<1>2. ASSUME NEW k \in Nat, k \in G PROVE k + 1 \in G
  <2> SUFFICES ASSUME k + 1 <= n PROVE ReadSoFar(script, reader, k + 1)
    OBVIOUS
  <2>1. k + 1 \in 1..Len(script) /\ (k + 1) - 1 = k /\ k <= n
    BY <1>0
  <2>2. ReadSoFar(script, reader, k)
    BY <1>2, <2>1
  <2>3. ReadSoFar(script, reader, (k + 1) - 1)
    BY <2>1, <2>2, Zenon
  <2> QED BY <2>1, <2>3, ReadsOn, Zenon
<1> HIDE DEF G
<1>3. n \in G
  BY <1>0, <1>1, <1>2, Induction
<1>4. n <= n => ReadSoFar(script, reader, n)
  BY <1>3 DEF G
<1> QED BY <1>0, <1>4

\* The file means the statements that the code cuts it into, for every file
\* that is made of lexemes, however long (migrate.py: split_statements).
THEOREM ScriptRight ==
    ASSUME NEW script \in Seq(Seq(Char)), WellFormed(script)
    PROVE  Means(script, SplitStatements(FlattenSeq(script)))
<1> DEFINE n == Len(script)
           text == FlattenSeq(script)
           S == Semicolons(script)
           E == Ended(script, n)
           v == Strip(Piece(script, n))
           cuts == {0, n + 1} \union {i \in 1..n : script[i] = Semicolon}
           before(j) == Strip(Text(SubSeq(script, Max({i \in cuts : i < j}) + 1, j - 1)))
           ends == {j \in cuts \ {0} : before(j) # <<>>}
<1>1. n \in Nat /\ S \in SUBSET (1..n) /\ cuts \ {0} = S \union {n + 1}
  BY DEF Semicolons
<1>2. text \in Seq(Char)
  <2>1. <<>> \in Seq(Char)
    OBVIOUS
  <2> QED BY <2>1, FlattenAppend
<1>3. PICK reader : Reads(text, reader) /\ SplitStatements(text) = Flush(reader[Len(text)]).done
  BY <1>2, SplitIs, Zenon
<1>4. PICK d : /\ Collects(script, E, d)
               /\ reader[Len(text)] = At("code", FALSE, Piece(script, n), d)
  <2>1. ReadSoFar(script, reader, n)
    BY <1>3, ReadsAll, Zenon
  <2>2. Opening(script, n) = text
    BY OpeningEnds
  <2> QED BY <2>1, <2>2, Zenon DEF ReadSoFar
<1> DEFINE statements == IF v = <<>> THEN d ELSE Append(d, v)
<1>5. SplitStatements(text) = statements
  <2> DEFINE r == At("code", FALSE, <<>>, statements)
  <2>1. SplitStatements(text) = r.done
    BY <1>3, <1>4, FlushIs, Zenon
  <2> HIDE DEF statements
  <2>2. r.done = statements
    BY DEF At
  <2> HIDE DEF r
  <2> QED BY <2>1, <2>2, Zenon
<1>6. \A j \in S \union {n + 1} : before(j) = Statement(script, j)
  <2> SUFFICES ASSUME NEW j \in S \union {n + 1} PROVE before(j) = Statement(script, j)
    BY Zenon
  <2>1. j \in 1..(n + 1)
    BY <1>1
  <2>2. {i \in cuts : i < j} = {i \in {0} \union S : i <= j - 1}
    BY <1>1, <2>1 DEF Semicolons
  <2>3. Max({i \in cuts : i < j}) = LastCut(script, j - 1)
    BY <2>2, Zenon DEF LastCut
  <2> QED BY <2>3, Zenon DEF Statement, Piece
<1>7. ends = E \union (IF v = <<>> THEN {} ELSE {n + 1})
  <2>1. ends = {j \in S \union {n + 1} : Statement(script, j) # <<>>}
    BY <1>1, <1>6, Zenon
  <2>2. E = {j \in S : Statement(script, j) # <<>>}
    BY Zenon DEF Ended, Semicolons
  <2>3. Statement(script, n + 1) = v
    <3>1. (n + 1) - 1 = n
      BY <1>1
    <3> QED BY <3>1, Zenon DEF Statement
  <2> HIDE DEF ends, E, v, S
  <2>4. CASE v = <<>>
    BY <2>1, <2>2, <2>3, <2>4, Zenon
  <2>5. CASE v # <<>>
    <3>1. Statement(script, n + 1) # <<>>
      BY <2>3, <2>5, Zenon
    <3>2. ASSUME NEW j PROVE j \in ends <=> j \in E \/ j = n + 1
      <4> DEFINE holds(i) == Statement(script, i) # <<>>
                 m == n + 1
      <4>1. ends = {i \in S \union {m} : holds(i)} /\ E = {i \in S : holds(i)} /\ holds(m)
        BY <2>1, <2>2, <3>1, Zenon
      <4> HIDE DEF holds, m
      <4>2. j \in ends <=> j \in E \/ j = m
        BY <4>1, SMT
      <4> QED BY <4>2 DEF m
    <3>3. ends = E \union {n + 1}
      BY <3>2, Zenon
    <3> QED BY <2>5, <3>3, Zenon
  <2> QED BY <2>4, <2>5
<1>8. Collects(script, ends, statements)
  <2>1. E \in SUBSET (1..n)
    BY DEF Ended
  <2>2. Piece(script, n) \in Seq(Char)
    <3>1. n \in 0..Len(script)
      BY <1>1
    <3> QED BY <3>1, PieceIsText, Zenon
  <2> HIDE DEF E
  <2>3. Collects(script, E \union {n + 1}, Append(d, v))
    BY <1>1, <1>4, <2>1, <2>2, CollectsOneMore, Zenon
  <2>4. CASE v = <<>>
    <3>1. ends = E
      BY <1>7, <2>4
    <3> QED BY <1>4, <2>4, <3>1, Zenon
  <2>5. CASE v # <<>>
    BY <1>7, <2>3, <2>5, Zenon
  <2> QED BY <2>4, <2>5
<1>9. ends \in SUBSET (S \union {n + 1})
  BY <1>1, Zenon
<1>10. /\ Len(statements) = Cardinality(ends)
       /\ \A j \in ends : statements[Cardinality({i \in ends : i <= j})] = before(j)
  BY <1>6, <1>8, <1>9, Zenon DEF Collects
<1> HIDE DEF statements
<1>11. Means(script, statements)
  BY <1>10, Zenon DEF Means
<1> QED BY <1>5, <1>11, Zenon

----------------------------------------------------------------------------
(* The functions in the composition: an input is one of those above.       *)

LEMMA PatternSets == \A S, k : kSubset(k, S) \subseteq SUBSET S
BY DEF kSubset

\* What core/security.py computes of a request is right in every behaviour, for
\* every number of patterns, proxies and parts of a name.
THEOREM SecurityIsRight == ConsoleSpec => []SecurityRight
<1>1. ConsoleInit => SecurityRight
  <2> SUFFICES ASSUME ConsoleInit PROVE SecurityRight
    OBVIOUS
  <2>1. ASSUME part = "request" PROVE RightAlert(input)
    <3>1. input \in Requests
      BY <2>1 DEF ConsoleInit
    <3>2. Requests \subseteq [hits : SUBSET DOMAIN Patterns, agent : Agents]
      BY PatternSets DEF Requests
    <3>3. input \in [hits : SUBSET DOMAIN Patterns, agent : Agents]
      BY <3>1, <3>2
    <3> QED BY <3>3, AlertRight
  <2>2. ASSUME part = "chain" PROVE RightAddress(input)
    <3> DEFINE Entry == {"other", "?", "", "visitor", "proxy"}
    <3>1. input \in Chains
      BY <2>2 DEF ConsoleInit
    <3>2. input.proxies \in Nat /\ input.proxies # 0
      <4>1. input.proxies \in 1..MaxProxies
        BY <3>1 DEF Chains
      <4>2. MaxProxies \in Nat
        BY SecurityAssumption
      <4>3. \A p \in 1..MaxProxies : p \in Nat /\ p # 0
        BY <4>2
      <4> QED BY <4>1, <4>3, Zenon
    <3>4. input.sent \in Seq(Entry)
      <4>1. PICK n \in 0..3 : input.sent \in [1..n -> {"other", "?", ""}]
        BY <3>1 DEF Chains
      <4> DEFINE E == {"other", "?", ""}
      <4>2. E \subseteq Entry
        OBVIOUS
      <4> HIDE DEF E, Entry
      <4>3. input.sent \in [1..n -> E]
        BY <4>1 DEF E
      <4> QED BY <4>2, <4>3
    <3>3. {"visitor", "proxy"} \subseteq Entry
      OBVIOUS
    <3> HIDE DEF Entry
    <3> QED BY <3>2, <3>3, <3>4, AddressRight
  <2>3. ASSUME part = "file" PROVE RightUpload(input)
    <3>1. input \in Files
      BY <2>3 DEF ConsoleInit
    <3>2. Files \subseteq [name : Seq(Parts) \ {<<>>}, head : Heads]
      BY SecurityAssumption DEF Files
    <3>3. input \in [name : Seq(Parts) \ {<<>>}, head : Heads]
      BY <3>1, <3>2
    <3> QED BY <3>3, UploadRight
  <2> QED BY <2>1, <2>2, <2>3 DEF SecurityRight
<1>2. SecurityRight /\ [ConsoleNext]_consoleVars => SecurityRight'
  BY DEF SecurityRight, ConsoleNext, consoleVars
<1> QED BY <1>1, <1>2, ConsoleSafety, PTL

\* Every script of the samples is one the theorem is about.
LEMMA ScriptsAreTexts ==
    ASSUME NEW script \in Scripts
    PROVE  script \in Seq(Seq(Char)) /\ WellFormed(script)
<1>1. PICK n \in 0..MaxLexemes : script \in [1..n -> Lexemes]
  BY DEF Scripts
<1>2. WellFormed(script)
  BY DEF Scripts
<1>3. Lexemes \subseteq Seq(Char)
  BY DEF Lexemes, Comments, Literals, Semicolon, Char
<1>4. script \in Seq(Lexemes)
  BY <1>1, SqlScriptAssumption
<1>5. script \in Seq(Seq(Char))
  BY <1>3, <1>4
<1> QED BY <1>2, <1>5

\* migrate.py sends the database the statements its file means, in every
\* behaviour, for files of any number of lexemes.
THEOREM MigrationFilesRight == ConsoleSpec => []SplitsRight
<1>1. ConsoleInit => SplitsRight
  <2> SUFFICES ASSUME ConsoleInit, part = "script"
               PROVE  Means(input, SplitStatements(FlattenSeq(input)))
    BY DEF SplitsRight
  <2>1. input \in Scripts
    BY DEF ConsoleInit
  <2>2. input \in Seq(Seq(Char)) /\ WellFormed(input)
    BY <2>1, ScriptsAreTexts
  <2> QED BY <2>2, ScriptRight
<1>2. SplitsRight /\ [ConsoleNext]_consoleVars => SplitsRight'
  BY DEF SplitsRight, ConsoleNext, consoleVars
<1> QED BY <1>1, <1>2, ConsoleSafety, PTL
=============================================================================
