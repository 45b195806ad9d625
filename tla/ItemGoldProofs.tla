-------------------------- MODULE ItemGoldProofs ---------------------------
(***************************************************************************)
(* Gold and the theorems about ItemCustody, from the invariant Inv of      *)
(* ItemCustodyProofs:                                                      *)
(*                                                                         *)
(*   - every queued transaction balances, so no step makes gold in the     *)
(*     database (GoldIsNotMade): sums, gold, what each handler's           *)
(*     transaction does to it;                                             *)
(*   - the steps that go astray (Strays) leave the tables alone, and only  *)
(*     the end of the process follows them, so Inv holds until one of them *)
(*     (CustodyInvariant) and the types, that an item is in one place,     *)
(*     that the queue saves memory and that trades are whole follow.       *)
(***************************************************************************)
EXTENDS ItemCustodyProofs

-----------------------------------------------------------------------------
(* Sums *)

AnyOf(T) == CHOOSE x \in T : TRUE

IsSum(s, f, L) == s = [T \in L |-> IF T = {} THEN 0 ELSE f[AnyOf(T)] + s[T \ {AnyOf(T)}]]

LEMMA SmallerSet ==
    ASSUME NEW T, IsFiniteSet(T), T # {}
    PROVE  /\ AnyOf(T) \in T /\ IsFiniteSet(T \ {AnyOf(T)})
           /\ Cardinality(T) \in Nat \ {0} /\ Cardinality(T \ {AnyOf(T)}) = Cardinality(T) - 1
  <1>1. AnyOf(T) \in T
    BY DEF AnyOf
  <1>2. Cardinality(T) \in Nat /\ Cardinality(T) # 0
    BY FS_CardinalityType, FS_EmptySet
  <1>3. IsFiniteSet(T \ {AnyOf(T)}) /\ Cardinality(T \ {AnyOf(T)}) = Cardinality(T) - 1
    BY <1>1, FS_RemoveElement
  <1> QED BY <1>1, <1>2, <1>3

UpTo(S, n) == {T \in SUBSET S : Cardinality(T) <= n}

LEMMA SumExists ==
    ASSUME NEW f, NEW S, IsFiniteSet(S)
    PROVE  \E s : IsSum(s, f, SUBSET S)
  <1> DEFINE N == {n \in Nat : \E s : IsSum(s, f, UpTo(S, n))}
  <1>0. \A T \in SUBSET S : IsFiniteSet(T) /\ Cardinality(T) \in Nat
    BY FS_Subset, FS_CardinalityType
  <1>1. 0 \in N
    <2> DEFINE r == [T \in UpTo(S, 0) |-> 0]
    <2>1. \A T \in UpTo(S, 0) : T = {}
      BY <1>0, FS_EmptySet DEF UpTo
    <2>2. r = [T \in UpTo(S, 0) |-> IF T = {} THEN 0 ELSE f[AnyOf(T)] + r[T \ {AnyOf(T)}]]
      BY <2>1
    <2> QED BY <2>2 DEF IsSum
  <1>2. ASSUME NEW n \in Nat, n \in N PROVE n + 1 \in N
    <2>1. PICK s : IsSum(s, f, UpTo(S, n))
      BY <1>2
    <2> DEFINE r == [T \in UpTo(S, n + 1) |-> IF T = {} THEN 0 ELSE f[AnyOf(T)] + s[T \ {AnyOf(T)}]]
    <2>2. ASSUME NEW T \in UpTo(S, n + 1), T # {} PROVE r[T \ {AnyOf(T)}] = s[T \ {AnyOf(T)}]
      <3> DEFINE U == T \ {AnyOf(T)}
      <3>1. T \in SUBSET S /\ Cardinality(T) <= n + 1 /\ Cardinality(T) \in Nat
        BY <1>0 DEF UpTo
      <3>2. Cardinality(U) = Cardinality(T) - 1
        BY <1>0, <2>2, <3>1, SmallerSet
      <3>3. U \in SUBSET S /\ Cardinality(U) <= n
        BY <3>1, <3>2
      <3>4. U \in UpTo(S, n) /\ U \in UpTo(S, n + 1)
        BY <1>0, <3>3 DEF UpTo
      <3> HIDE DEF U
      <3>5. s[U] = IF U = {} THEN 0 ELSE f[AnyOf(U)] + s[U \ {AnyOf(U)}]
        BY <2>1, <3>4 DEF IsSum
      <3>6. r[U] = s[U]
        BY <3>4, <3>5
      <3> QED BY <3>6 DEF U
    <2>3. r = [T \in UpTo(S, n + 1) |-> IF T = {} THEN 0 ELSE f[AnyOf(T)] + r[T \ {AnyOf(T)}]]
      BY <2>2
    <2>4. IsSum(r, f, UpTo(S, n + 1))
      BY <2>3 DEF IsSum
    <2> QED BY <2>4
  <1> HIDE DEF N
  <1>3. \A n \in Nat : n \in N
    BY <1>1, <1>2, SetInduction
  <1>4. UpTo(S, Cardinality(S)) = SUBSET S
    BY FS_Subset DEF UpTo
  <1>5. Cardinality(S) \in N
    BY <1>0, <1>3
  <1> QED BY <1>4, <1>5 DEF N

LEMMA SumIs ==
    ASSUME NEW f, NEW S, S = DOMAIN f, IsFiniteSet(S)
    PROVE  \E s : IsSum(s, f, SUBSET S) /\ SumFunction(f) = s[S]
  <1> DEFINE P(s) == IsSum(s, f, SUBSET S)
             c == CHOOSE s : P(s)
  <1>1. \E s : P(s)
    BY SumExists
  <1>2. P(c)
    BY <1>1
  <1>3. SumFunction(f) = c[S]
    BY DEF SumFunction, SumFunctionOnSet, FoldFunctionOnSet, MapThenFoldSet, IsSum, AnyOf
  <1> QED BY <1>2, <1>3

SumsUp(s, f, S) ==
    /\ s[{}] = 0
    /\ \A T \in SUBSET S : T # {} => s[T] = f[AnyOf(T)] + s[T \ {AnyOf(T)}]

LEMMA SumSteps ==
    ASSUME NEW f, NEW S, S = DOMAIN f, IsFiniteSet(S)
    PROVE  \E s : SumsUp(s, f, S) /\ SumFunction(f) = s[S]
  <1>1. PICK s : IsSum(s, f, SUBSET S) /\ SumFunction(f) = s[S]
    BY SumIs
  <1>2. SumsUp(s, f, S)
    BY <1>1 DEF IsSum, SumsUp
  <1> QED BY <1>1, <1>2

LEMMA SubsetInduction ==
    ASSUME NEW S, IsFiniteSet(S), NEW Q, {} \in Q,
           \A T \in SUBSET S : T # {} /\ T \ {AnyOf(T)} \in Q => T \in Q
    PROVE  S \in Q
  <1> DEFINE N == {n \in Nat : \A T \in SUBSET S : Cardinality(T) = n => T \in Q}
  <1>0. \A T \in SUBSET S : IsFiniteSet(T) /\ Cardinality(T) \in Nat /\ (Cardinality(T) = 0 => T = {})
    BY FS_Subset, FS_CardinalityType, FS_EmptySet
  <1>1. 0 \in N
    BY <1>0
  <1>2. ASSUME NEW n \in Nat, n \in N PROVE n + 1 \in N
    <2> SUFFICES ASSUME NEW T \in SUBSET S, Cardinality(T) = n + 1 PROVE T \in Q
      OBVIOUS
    <2>1. T # {}
      <3>1. Cardinality({}) = 0
        BY FS_EmptySet
      <3> QED BY <3>1
    <2>2. Cardinality(T \ {AnyOf(T)}) = (n + 1) - 1 /\ T \ {AnyOf(T)} \in SUBSET S
      BY <1>0, <2>1, SmallerSet
    <2>3. T \ {AnyOf(T)} \in Q
      BY <1>2, <2>2
    <2> QED BY <2>1, <2>3
  <1> HIDE DEF N
  <1>3. \A n \in Nat : n \in N
    BY <1>1, <1>2, SetInduction
  <1> QED BY <1>0, <1>3 DEF N

(* A sum of naturals is a natural. *)
LEMMA SumType ==
    ASSUME NEW S, IsFiniteSet(S), NEW f \in [S -> Nat]
    PROVE  SumFunction(f) \in Nat
  <1>1. PICK s : SumsUp(s, f, S) /\ SumFunction(f) = s[S]
    BY SumSteps
  <1>2. s[{}] = 0 /\ \A T \in SUBSET S : T # {} => s[T] = f[AnyOf(T)] + s[T \ {AnyOf(T)}]
    BY <1>1 DEF SumsUp
  <1> DEFINE Q == {T \in SUBSET S : s[T] \in Nat}
  <1>3. {} \in Q
    BY <1>2
  <1>4. ASSUME NEW T \in SUBSET S, T # {}, T \ {AnyOf(T)} \in Q PROVE T \in Q
    <2> DEFINE a == AnyOf(T)
               U == T \ {a}
    <2>1. a \in T
      BY <1>4, FS_Subset, SmallerSet
    <2>2. f[a] \in Nat
      BY <2>1
    <2>3. s[T] = f[a] + s[U]
      BY <1>2, <1>4
    <2>4. s[U] \in Nat
      BY <1>4
    <2> HIDE DEF a, U
    <2>5. s[T] \in Nat
      BY <2>2, <2>3, <2>4
    <2> QED BY <2>5
  <1> HIDE DEF Q
  <1>5. S \in Q
    BY <1>3, <1>4, SubsetInduction
  <1> QED BY <1>1, <1>5 DEF Q

(* No term of g is larger than f's. *)
LEMMA SumLess ==
    ASSUME NEW S, IsFiniteSet(S), NEW f \in [S -> Nat], NEW g \in [S -> Nat],
           \A x \in S : g[x] <= f[x]
    PROVE  SumFunction(g) <= SumFunction(f)
  <1>1. PICK s : SumsUp(s, f, S) /\ SumFunction(f) = s[S]
    BY SumSteps
  <1>2. PICK r : SumsUp(r, g, S) /\ SumFunction(g) = r[S]
    BY SumSteps
  <1>3. s[{}] = 0 /\ \A T \in SUBSET S : T # {} => s[T] = f[AnyOf(T)] + s[T \ {AnyOf(T)}]
    BY <1>1 DEF SumsUp
  <1>4. r[{}] = 0 /\ \A T \in SUBSET S : T # {} => r[T] = g[AnyOf(T)] + r[T \ {AnyOf(T)}]
    BY <1>2 DEF SumsUp
  <1> DEFINE Q == {T \in SUBSET S : s[T] \in Nat /\ r[T] \in Nat /\ r[T] <= s[T]}
  <1>5. {} \in Q
    BY <1>3, <1>4
  <1>6. ASSUME NEW T \in SUBSET S, T # {}, T \ {AnyOf(T)} \in Q PROVE T \in Q
    <2> DEFINE a == AnyOf(T)
               U == T \ {a}
    <2>1. a \in T
      BY <1>6, FS_Subset, SmallerSet
    <2>2. f[a] \in Nat /\ g[a] \in Nat /\ g[a] <= f[a]
      BY <2>1
    <2>3. s[T] = f[a] + s[U] /\ r[T] = g[a] + r[U]
      BY <1>3, <1>4, <1>6
    <2>4. s[U] \in Nat /\ r[U] \in Nat /\ r[U] <= s[U]
      BY <1>6
    <2> HIDE DEF a, U
    <2>5. s[T] \in Nat /\ r[T] \in Nat /\ r[T] <= s[T]
      BY <2>2, <2>3, <2>4
    <2> QED BY <2>5
  <1> HIDE DEF Q
  <1>7. S \in Q
    BY <1>5, <1>6, SubsetInduction
  <1> QED BY <1>1, <1>2, <1>7 DEF Q

(* One term changes. *)
LEMMA SumChange ==
    ASSUME NEW S, IsFiniteSet(S), NEW f \in [S -> Nat], NEW g \in [S -> Nat], NEW c \in S,
           \A x \in S \ {c} : g[x] = f[x]
    PROVE  SumFunction(g) = SumFunction(f) - f[c] + g[c]
  <1>1. PICK s : SumsUp(s, f, S) /\ SumFunction(f) = s[S]
    BY SumSteps
  <1>2. PICK r : SumsUp(r, g, S) /\ SumFunction(g) = r[S]
    BY SumSteps
  <1>3. s[{}] = 0 /\ \A T \in SUBSET S : T # {} => s[T] = f[AnyOf(T)] + s[T \ {AnyOf(T)}]
    BY <1>1 DEF SumsUp
  <1>4. r[{}] = 0 /\ \A T \in SUBSET S : T # {} => r[T] = g[AnyOf(T)] + r[T \ {AnyOf(T)}]
    BY <1>2 DEF SumsUp
  <1> DEFINE Q == {T \in SUBSET S : /\ s[T] \in Nat /\ r[T] \in Nat
                                    /\ r[T] = IF c \in T THEN s[T] - f[c] + g[c] ELSE s[T]}
  <1>5. {} \in Q
    BY <1>3, <1>4
  <1>6. ASSUME NEW T \in SUBSET S, T # {}, T \ {AnyOf(T)} \in Q PROVE T \in Q
    <2> DEFINE a == AnyOf(T)
               U == T \ {a}
    <2>1. a \in T /\ f[a] \in Nat /\ g[a] \in Nat /\ f[c] \in Nat /\ g[c] \in Nat
      <3>1. a \in T
        BY <1>6, FS_Subset, SmallerSet
      <3> QED BY <3>1
    <2>2. s[T] = f[a] + s[U] /\ r[T] = g[a] + r[U]
      BY <1>3, <1>4, <1>6
    <2>3. s[U] \in Nat /\ r[U] \in Nat /\ r[U] = IF c \in U THEN s[U] - f[c] + g[c] ELSE s[U]
      BY <1>6
    <2>4. s[T] \in Nat /\ r[T] \in Nat
      BY <2>1, <2>2, <2>3
    <2>5. CASE a = c
      <3>1. c \notin U /\ c \in T
        BY <2>1, <2>5
      <3> QED BY <2>1, <2>2, <2>3, <2>4, <2>5, <3>1
    <2>6. CASE a # c
      <3>1. (c \in U <=> c \in T) /\ g[a] = f[a]
        BY <2>1, <2>6
      <3> QED BY <2>1, <2>2, <2>3, <2>4, <3>1
    <2> QED BY <2>5, <2>6
  <1> HIDE DEF Q
  <1>7. S \in Q
    BY <1>5, <1>6, SubsetInduction
  <1> QED BY <1>1, <1>2, <1>7 DEF Q

-----------------------------------------------------------------------------
(* Gold *)

MailGold(r)  == IF r = None THEN 0 ELSE r.money
HouseGold(a) == IF a = None THEN 0 ELSE a.bid + a.deposit
PostOf(box)  == SumFunction([m \in MailIds |-> MailGold(box[m])])
HouseOf(h)   == SumFunction([i \in Items |-> HouseGold(h[i])])

Rows   == [MailIds -> MailRow \cup {None}]
Houses == [Items -> Auction \cup {None}]

LEMMA GoldIs == \A d : Gold(d) = SumFunction(d.money) + PostOf(d.mail) + HouseOf(d.auctionhouse)
  BY DEF Gold, PostOf, HouseOf, MailGold, HouseGold

LEMMA FiniteIds == IsFiniteSet(MailIds) /\ IsFiniteSet(Items) /\ IsFiniteSet(Players)
  <1>1. IsFiniteSet(1..MaxMails)
    BY CustodyAssumption, FS_Interval
  <1> QED BY <1>1, CustodyAssumption DEF MailIds

LEMMA MailGoldType ==
    ASSUME NEW r \in MailRow \cup {None}
    PROVE  MailGold(r) \in Nat
  <1>1. r # None => r \in MailRow
    OBVIOUS
  <1> QED BY <1>1 DEF MailGold, MailRow

LEMMA HouseGoldType ==
    ASSUME NEW a \in Auction \cup {None}
    PROVE  HouseGold(a) \in Nat
  <1>1. a # None => a \in Auction
    OBVIOUS
  <1>2. a # None => a.bid \in Nat /\ a.deposit \in Nat
    BY <1>1, AuctionFields
  <1> QED BY <1>2 DEF HouseGold

LEMMA PostTerms ==
    ASSUME NEW box \in Rows
    PROVE  [m \in MailIds |-> MailGold(box[m])] \in [MailIds -> Nat]
  BY MailGoldType DEF Rows

LEMMA HouseTerms ==
    ASSUME NEW h \in Houses
    PROVE  [i \in Items |-> HouseGold(h[i])] \in [Items -> Nat]
  BY HouseGoldType DEF Houses

LEMMA PostType ==
    ASSUME NEW box \in Rows
    PROVE  PostOf(box) \in Nat
  BY PostTerms, FiniteIds, SumType DEF PostOf

LEMMA HouseType ==
    ASSUME NEW h \in Houses
    PROVE  HouseOf(h) \in Nat
  BY HouseTerms, FiniteIds, SumType DEF HouseOf

(* One row changes. *)
LEMMA PostPut ==
    ASSUME NEW box \in Rows, NEW m \in MailIds, NEW r \in MailRow \cup {None}
    PROVE  /\ Put(box, {m}, r) \in Rows
           /\ PostOf(Put(box, {m}, r)) = PostOf(box) - MailGold(box[m]) + MailGold(r)
  <1> DEFINE new == Put(box, {m}, r)
             f == [k \in MailIds |-> MailGold(box[k])]
             g == [k \in MailIds |-> MailGold(new[k])]
  <1>1. new \in Rows /\ new[m] = r /\ \A k \in MailIds \ {m} : new[k] = box[k]
    BY DEF Put, Rows
  <1>2. f \in [MailIds -> Nat] /\ g \in [MailIds -> Nat]
    BY <1>1, PostTerms
  <1>3. f[m] = MailGold(box[m]) /\ g[m] = MailGold(r) /\ \A k \in MailIds \ {m} : g[k] = f[k]
    BY <1>1
  <1>4. PostOf(box) = SumFunction(f) /\ PostOf(new) = SumFunction(g)
    BY DEF PostOf
  <1> HIDE DEF f, g, new
  <1>5. SumFunction(g) = SumFunction(f) - f[m] + g[m]
    BY <1>2, <1>3, FiniteIds, SumChange
  <1> QED BY <1>1, <1>3, <1>4, <1>5 DEF new

LEMMA HousePut ==
    ASSUME NEW h \in Houses, NEW i \in Items, NEW a \in Auction \cup {None}
    PROVE  /\ Put(h, {i}, a) \in Houses
           /\ HouseOf(Put(h, {i}, a)) = HouseOf(h) - HouseGold(h[i]) + HouseGold(a)
  <1> DEFINE new == Put(h, {i}, a)
             f == [k \in Items |-> HouseGold(h[k])]
             g == [k \in Items |-> HouseGold(new[k])]
  <1>1. new \in Houses /\ new[i] = a /\ \A k \in Items \ {i} : new[k] = h[k]
    BY DEF Put, Houses
  <1>2. f \in [Items -> Nat] /\ g \in [Items -> Nat]
    BY <1>1, HouseTerms
  <1>3. f[i] = HouseGold(h[i]) /\ g[i] = HouseGold(a) /\ \A k \in Items \ {i} : g[k] = f[k]
    BY <1>1
  <1>4. HouseOf(h) = SumFunction(f) /\ HouseOf(new) = SumFunction(g)
    BY DEF HouseOf
  <1> HIDE DEF f, g, new
  <1>5. SumFunction(g) = SumFunction(f) - f[i] + g[i]
    BY <1>2, <1>3, FiniteIds, SumChange
  <1> QED BY <1>1, <1>3, <1>4, <1>5 DEF new

LEMMA PursePut ==
    ASSUME NEW h \in [Players -> Nat], NEW p \in Players, NEW g \in Nat
    PROVE  /\ Put(h, {p}, g) \in [Players -> Nat]
           /\ SumFunction(Put(h, {p}, g)) = SumFunction(h) - h[p] + g
  <1> DEFINE new == Put(h, {p}, g)
  <1>1. new \in [Players -> Nat] /\ new[p] = g /\ \A k \in Players \ {p} : new[k] = h[k]
    BY DEF Put
  <1> HIDE DEF new
  <1>2. SumFunction(new) = SumFunction(h) - h[p] + new[p]
    BY <1>1, FiniteIds, SumChange
  <1> QED BY <1>1, <1>2 DEF new

(* Mails are deleted. *)
LEMMA PostLess ==
    ASSUME NEW box \in Rows, NEW D
    PROVE  Put(box, D, None) \in Rows /\ PostOf(Put(box, D, None)) <= PostOf(box)
  <1> DEFINE new == Put(box, D, None)
             f == [k \in MailIds |-> MailGold(box[k])]
             g == [k \in MailIds |-> MailGold(new[k])]
  <1>1. new \in Rows /\ \A k \in MailIds : new[k] = box[k] \/ new[k] = None
    BY DEF Put, Rows
  <1>2. f \in [MailIds -> Nat] /\ g \in [MailIds -> Nat]
    BY <1>1, PostTerms
  <1>3. \A k \in MailIds : f[k] = MailGold(box[k]) /\ g[k] = MailGold(new[k]) /\ f[k] \in Nat
    BY <1>2
  <1>4. MailGold(None) = 0
    BY DEF MailGold
  <1>5. PostOf(box) = SumFunction(f) /\ PostOf(new) = SumFunction(g)
    BY DEF PostOf
  <1> HIDE DEF f, g, new
  <1>6. \A k \in MailIds : g[k] <= f[k]
    BY <1>1, <1>3, <1>4
  <1>7. SumFunction(g) <= SumFunction(f)
    BY <1>2, <1>6, FiniteIds, SumLess
  <1> QED BY <1>1, <1>5, <1>7 DEF new

(* What each transaction must keep to *)
Unearned(d, e) == Uint32 * Cardinality(UnpaidMails(d, e))
Fair(d, e) == Gold(e) <= Gold(d) + Deposit * Cardinality(NewAuctions(d, e)) + Unearned(d, e)

Purse(d) == SumFunction(d.money)
Post(d)  == PostOf(d.mail)
House(d) == HouseOf(d.auctionhouse)

LEMMA GoldType ==
    ASSUME NEW d \in Tables
    PROVE  /\ Purse(d) \in Nat /\ Post(d) \in Nat /\ House(d) \in Nat
           /\ Gold(d) = Purse(d) + Post(d) + House(d)
  <1>1. d.money \in [Players -> Nat] /\ d.mail \in Rows /\ d.auctionhouse \in Houses
    BY TablesFields DEF Rows, Houses
  <1>2. SumFunction(d.money) \in Nat
    BY <1>1, FiniteIds, SumType
  <1>3. PostOf(d.mail) \in Nat /\ HouseOf(d.auctionhouse) \in Nat
    BY <1>1, PostType, HouseType
  <1> QED BY <1>2, <1>3, GoldIs DEF Purse, Post, House

LEMMA NewAuctionsCount ==
    ASSUME NEW d, NEW e
    PROVE  /\ Cardinality(NewAuctions(d, e)) \in Nat
           /\ Deposit * Cardinality(NewAuctions(d, e)) \in Nat
  <1>1. IsFiniteSet(NewAuctions(d, e))
    BY FiniteIds, FS_Subset DEF NewAuctions
  <1>2. Cardinality(NewAuctions(d, e)) \in Nat /\ Deposit \in Nat
    BY <1>1, FS_CardinalityType, CustodyAssumption
  <1>3. \A x, y \in Nat : x * y \in Nat
    OBVIOUS
  <1> QED BY <1>2, <1>3

LEMMA UnpaidFinite ==
    ASSUME NEW d, NEW e
    PROVE  IsFiniteSet(UnpaidMails(d, e))
  BY FiniteIds, FS_Subset DEF UnpaidMails

LEMMA UnpaidCount ==
    ASSUME NEW d, NEW e
    PROVE  Unearned(d, e) \in Nat
  <1>1. Cardinality(UnpaidMails(d, e)) \in Nat /\ Uint32 \in Nat
    BY UnpaidFinite, FS_CardinalityType, CustodyAssumption
  <1>2. \A x, y \in Nat : x * y \in Nat
    OBVIOUS
  <1> QED BY <1>1, <1>2 DEF Unearned

(* No gold is made. *)
LEMMA FairLess ==
    ASSUME NEW d \in Tables, NEW e \in Tables,
           Purse(e) + Post(e) + House(e) <= Purse(d) + Post(d) + House(d)
    PROVE  Fair(d, e)
  <1> DEFINE D == Deposit * Cardinality(NewAuctions(d, e))
  <1>1. Gold(d) = Purse(d) + Post(d) + House(d) /\ Gold(e) = Purse(e) + Post(e) + House(e)
    BY GoldType
  <1>2. Purse(d) \in Nat /\ Post(d) \in Nat /\ House(d) \in Nat
    BY GoldType
  <1>3. Purse(e) \in Nat /\ Post(e) \in Nat /\ House(e) \in Nat
    BY GoldType
  <1>4. D \in Nat /\ Unearned(d, e) \in Nat
    BY NewAuctionsCount, UnpaidCount
  <1>5. Fair(d, e) <=> Gold(e) <= Gold(d) + D + Unearned(d, e)
    BY DEF Fair
  <1> HIDE DEF D
  <1> QED BY <1>1, <1>2, <1>3, <1>4, <1>5

(* A mail that was not paid is worth less than Uint32. *)
LEMMA FairUnpaid ==
    ASSUME NEW d \in Tables, NEW e \in Tables, NEW m \in UnpaidMails(d, e),
           Purse(e) + Post(e) + House(e) <= Purse(d) + Post(d) + House(d) + Uint32
    PROVE  Fair(d, e)
  <1> DEFINE D == Deposit * Cardinality(NewAuctions(d, e))
             c == Cardinality(UnpaidMails(d, e))
  <1>1. Gold(d) = Purse(d) + Post(d) + House(d) /\ Gold(e) = Purse(e) + Post(e) + House(e)
    BY GoldType
  <1>2. Purse(d) \in Nat /\ Post(d) \in Nat /\ House(d) \in Nat
    BY GoldType
  <1>3. Purse(e) \in Nat /\ Post(e) \in Nat /\ House(e) \in Nat
    BY GoldType
  <1>4. D \in Nat
    BY NewAuctionsCount
  <1>5. Fair(d, e) <=> Gold(e) <= Gold(d) + D + Unearned(d, e)
    BY DEF Fair
  <1>6. c \in Nat \ {0}
    <2>1. c \in Nat /\ (c = 0 <=> UnpaidMails(d, e) = {})
      BY UnpaidFinite, FS_CardinalityType, FS_EmptySet
    <2> QED BY <2>1
  <1>7. Unearned(d, e) = Uint32 * c /\ Uint32 \in Nat
    BY CustodyAssumption DEF Unearned
  <1> HIDE DEF D, c
  <1>8. Uint32 * c >= Uint32
    <2>1. \A x \in Nat, y \in Nat \ {0} : x * y >= x
      OBVIOUS
    <2> QED BY <1>6, <1>7, <2>1
  <1>9. Unearned(d, e) >= Uint32 /\ Unearned(d, e) \in Nat
    BY <1>7, <1>8, UnpaidCount
  <1> QED BY <1>1, <1>2, <1>3, <1>4, <1>5, <1>7, <1>9

LEMMA FairSame ==
    ASSUME NEW d \in Tables
    PROVE  Fair(d, d)
  <1>1. Purse(d) + Post(d) + House(d) <= Purse(d) + Post(d) + House(d)
    BY GoldType
  <1> QED BY <1>1, FairLess

LEMMA PursePays ==
    ASSUME NEW d \in Tables, NEW e, NEW p \in Players, NEW g \in Nat, Pays(d, e, p, g)
    PROVE  Purse(e) = Purse(d) - d.money[p] + g /\ d.money[p] \in Nat
  <1>1. d.money \in [Players -> Nat]
    BY TablesFields
  <1>2. SumFunction(Put(d.money, {p}, g)) = SumFunction(d.money) - d.money[p] + g
    BY <1>1, PursePut
  <1> QED BY <1>1, <1>2 DEF Purse, Pays

LEMMA HouseChanges ==
    ASSUME NEW d \in Tables, NEW e, NEW i \in Items, NEW a \in Auction \cup {None},
           e.auctionhouse = Put(d.auctionhouse, {i}, a)
    PROVE  /\ House(e) = House(d) - HouseGold(d.auctionhouse[i]) + HouseGold(a)
           /\ HouseGold(d.auctionhouse[i]) \in Nat /\ HouseGold(a) \in Nat
  <1>1. d.auctionhouse \in Houses
    BY TablesFields DEF Houses
  <1>2. HouseOf(Put(d.auctionhouse, {i}, a)) = HouseOf(d.auctionhouse) - HouseGold(d.auctionhouse[i]) + HouseGold(a)
    BY <1>1, HousePut
  <1>3. d.auctionhouse[i] \in Auction \cup {None}
    BY <1>1 DEF Houses
  <1> QED BY <1>2, <1>3, HouseGoldType DEF House

(* Mails are sent: their rows are new. *)
Mailed(box, N)  == [m \in MailIds |-> IF m \in DOMAIN N THEN N[m].row ELSE box[m]]
Free(box, last) == \A m \in MailIds : m > last => box[m] = None
MailedUpTo(box, drafts, k) ==
    [m \in MailIds |-> IF m \in (mailId + 1)..(mailId + k) THEN drafts[m - mailId].row ELSE box[m]]

Mailable(box, drafts) ==
    /\ box \in Rows /\ mailId \in Nat /\ Free(box, mailId)
    /\ drafts \in Seq(DraftMail) /\ mailId + Len(drafts) <= MaxMails

LEMMA MailedUpToType ==
    ASSUME NEW box, NEW drafts, Mailable(box, drafts), NEW k \in 0..Len(drafts)
    PROVE  MailedUpTo(box, drafts, k) \in Rows
  <1>1. /\ box \in Rows /\ mailId \in Nat /\ drafts \in Seq(DraftMail) /\ Len(drafts) \in Nat
    BY DEF Mailable
  <1>2. \A j \in 1..Len(drafts) : drafts[j] \in DraftMail
    BY <1>1
  <1>3. \A x \in DraftMail : x.row \in MailRow
    BY DEF DraftMail
  <1>4. ASSUME NEW m \in MailIds, m \in (mailId + 1)..(mailId + k) PROVE drafts[m - mailId].row \in MailRow
    <2>1. m - mailId \in 1..Len(drafts)
      BY <1>1, <1>4
    <2> QED BY <1>2, <1>3, <2>1
  <1>5. \A m \in MailIds : box[m] \in MailRow \cup {None}
    BY <1>1 DEF Rows
  <1> QED BY <1>4, <1>5 DEF MailedUpTo, Rows

LEMMA MailedNext ==
    ASSUME NEW box, NEW drafts, Mailable(box, drafts), NEW k \in Nat, k + 1 <= Len(drafts)
    PROVE  /\ drafts[k + 1].row.money \in Nat
           /\ PostOf(MailedUpTo(box, drafts, k + 1)) = PostOf(MailedUpTo(box, drafts, k)) + drafts[k + 1].row.money
  <1> DEFINE old == MailedUpTo(box, drafts, k)
             new == MailedUpTo(box, drafts, k + 1)
             m == mailId + (k + 1)
             r == drafts[k + 1].row
  <1>1. /\ box \in Rows /\ mailId \in Nat /\ drafts \in Seq(DraftMail) /\ Len(drafts) \in Nat
        /\ Free(box, mailId) /\ mailId + Len(drafts) <= MaxMails /\ MaxMails \in Nat
    BY CustodyAssumption DEF Mailable
  <1>2. m \in MailIds /\ m > mailId /\ m - mailId = k + 1 /\ m \notin (mailId + 1)..(mailId + k)
    BY <1>1 DEF MailIds
  <1>3. drafts[k + 1] \in DraftMail
    BY <1>1
  <1>4. r \in MailRow /\ r # None
    BY <1>3, NullAssumption DEF DraftMail
  <1>5. r.money \in Nat /\ MailGold(r) = r.money
    BY <1>4 DEF MailRow, MailGold
  <1>6. old \in Rows
    BY <1>1, MailedUpToType
  <1>7. old[m] = None
    BY <1>1, <1>2 DEF MailedUpTo, Free
  <1>8. new = Put(old, {m}, r)
    <2>1. \A j \in MailIds : j \in (mailId + 1)..(mailId + (k + 1)) <=> j \in (mailId + 1)..(mailId + k) \/ j = m
      BY <1>1 DEF MailIds
    <2>2. DOMAIN old = MailIds
      BY DEF MailedUpTo
    <2>3. \A j \in MailIds : old[j] = IF j \in (mailId + 1)..(mailId + k) THEN drafts[j - mailId].row ELSE box[j]
      BY DEF MailedUpTo
    <2>4. \A j \in MailIds : (IF j \in (mailId + 1)..(mailId + (k + 1)) THEN drafts[j - mailId].row ELSE box[j])
                               = IF j \in {m} THEN r ELSE old[j]
      BY <1>2, <2>1, <2>3
    <2> HIDE DEF old, m, r
    <2> QED BY <2>2, <2>4 DEF MailedUpTo, Put
  <1> HIDE DEF old, new, m, r
  <1>9. PostOf(Put(old, {m}, r)) = PostOf(old) - MailGold(old[m]) + MailGold(r)
    BY <1>2, <1>4, <1>6, PostPut
  <1>10. MailGold(old[m]) = 0
    BY <1>7 DEF MailGold
  <1>11. PostOf(new) = PostOf(old) + r.money
    BY <1>5, <1>6, <1>8, <1>9, <1>10, PostType
  <1> QED BY <1>5, <1>11 DEF old, new, r

LEMMA MailedEnds ==
    ASSUME NEW box, NEW drafts, Mailable(box, drafts)
    PROVE  MailedUpTo(box, drafts, 0) = box /\ MailedUpTo(box, drafts, Len(drafts)) = Mailed(box, NewMails(drafts))
  <1>1. mailId \in Nat /\ box \in Rows
    BY DEF Mailable
  <1>2. (mailId + 1)..(mailId + 0) = {}
    BY <1>1
  <1>3. MailedUpTo(box, drafts, 0) = box
    BY <1>1, <1>2 DEF MailedUpTo, Rows
  <1>4. MailedUpTo(box, drafts, Len(drafts)) = Mailed(box, NewMails(drafts))
    BY DEF MailedUpTo, Mailed, NewMails
  <1> QED BY <1>3, <1>4

(* The money in the mails of a handler, at most three *)
Worth(drafts, w) ==
    \/ Len(drafts) = 0 /\ w = 0
    \/ Len(drafts) = 1 /\ w = drafts[1].row.money
    \/ Len(drafts) = 2 /\ w = drafts[1].row.money + drafts[2].row.money
    \/ Len(drafts) = 3 /\ w = drafts[1].row.money + drafts[2].row.money + drafts[3].row.money

LEMMA MailedWorth ==
    ASSUME NEW box, NEW drafts, Mailable(box, drafts), NEW w, Worth(drafts, w)
    PROVE  /\ w \in Nat /\ Mailed(box, NewMails(drafts)) \in Rows
           /\ PostOf(Mailed(box, NewMails(drafts))) = PostOf(box) + w
  <1> DEFINE P(k) == PostOf(MailedUpTo(box, drafts, k))
             n == Len(drafts)
             g(k) == drafts[k].row.money
  <1>1. n \in Nat /\ box \in Rows
    BY DEF Mailable
  <1>2. P(0) = PostOf(box) /\ P(n) = PostOf(Mailed(box, NewMails(drafts))) /\ PostOf(box) \in Nat
    BY <1>1, MailedEnds, PostType
  <1>3. n \in 0..n
    BY <1>1
  <1>4. Mailed(box, NewMails(drafts)) \in Rows
    BY <1>3, MailedEnds, MailedUpToType
  <1>5. 0 + 1 <= n => g(1) \in Nat /\ P(1) = P(0) + g(1)
    <2>1. ASSUME 0 + 1 <= n PROVE g(0 + 1) \in Nat /\ P(0 + 1) = P(0) + g(0 + 1)
      BY <2>1, MailedNext
    <2> QED BY <2>1
  <1>6. 1 + 1 <= n => g(2) \in Nat /\ P(2) = P(1) + g(2)
    <2>1. ASSUME 1 + 1 <= n PROVE g(1 + 1) \in Nat /\ P(1 + 1) = P(1) + g(1 + 1)
      BY <2>1, MailedNext
    <2> QED BY <2>1
  <1>7. 2 + 1 <= n => g(3) \in Nat /\ P(3) = P(2) + g(3)
    <2>1. ASSUME 2 + 1 <= n PROVE g(2 + 1) \in Nat /\ P(2 + 1) = P(2) + g(2 + 1)
      BY <2>1, MailedNext
    <2> QED BY <2>1
  <1>8. \/ n = 0 /\ w = 0
        \/ n = 1 /\ w = g(1)
        \/ n = 2 /\ w = g(1) + g(2)
        \/ n = 3 /\ w = g(1) + g(2) + g(3)
    BY DEF Worth
  <1> HIDE DEF P, n, g
  <1>9. CASE n = 0 /\ w = 0
    BY <1>2, <1>4, <1>9
  <1>10. CASE n = 1 /\ w = g(1)
    BY <1>2, <1>4, <1>5, <1>10
  <1>11. CASE n = 2 /\ w = g(1) + g(2)
    BY <1>2, <1>4, <1>5, <1>6, <1>11
  <1>12. CASE n = 3 /\ w = g(1) + g(2) + g(3)
    BY <1>2, <1>4, <1>5, <1>6, <1>7, <1>12
  <1> QED BY <1>8, <1>9, <1>10, <1>11, <1>12

LEMMA MailsSendable ==
    ASSUME Inv, NEW drafts, Proper(drafts), NEW box, SendMails(drafts, box), NEW rows \in Rows, Free(rows, mailId)
    PROVE  Mailable(rows, drafts)
  BY CustodyAssumption DEF Inv, Types, SendMails, Proper, Mailable

LEMMA SettledFree ==
    ASSUME Inv
    PROVE  Settled \in Tables /\ Settled.mail \in Rows /\ Free(Settled.mail, mailId)
  <1>1. Settled \in Tables /\ Numbered(Settled, mailId)
    BY SettledGood DEF Inv, Good
  <1>2. mailId \in Nat
    BY DEF Inv, Types
  <1>3. Free(Settled.mail, mailId)
    BY <1>1, <1>2 DEF Numbered, Free, MailIds
  <1> QED BY <1>1, <1>3, TablesFields DEF Rows

LEMMA PostedWorth ==
    ASSUME Inv, NEW drafts, Proper(drafts), NEW box, SendMails(drafts, box), NEW e,
           Posted(Settled, e, NewMails(drafts)), NEW w, Worth(drafts, w)
    PROVE  w \in Nat /\ Post(e) = Post(Settled) + w
  <1>1. Mailable(Settled.mail, drafts)
    BY SettledFree, MailsSendable
  <1>2. e.mail = Mailed(Settled.mail, NewMails(drafts))
    BY DEF Posted, Mailed
  <1> QED BY <1>1, <1>2, MailedWorth DEF Post

(* Every queued transaction balances. *)
Balanced == \A k \in 1..Len(queue) : Fair(After(db, queue)[k - 1], After(db, queue)[k])

LEMMA BalancedNext ==
    ASSUME scenario' = scenario,
           \A k \in 1..Len(queue') : Fair(After(db', queue')[k - 1], After(db', queue')[k])
    PROVE  Balanced'
  BY DEF Balanced, Fair, Unearned, UnpaidMails, Unpaid

LEMMA CommitBalanced ==
    ASSUME Inv, Balanced, NEW t \in Seq(Statement), Commit(t), db' = db,
           NEW e, Yields(Settled, t, e), Fair(Settled, e)
    PROVE  Balanced'
  <1> DEFINE n == Len(queue)
             x == [login |-> None, stmts |-> t]
             g == After(db, queue)
             h == After(db', queue')
  <1>1. n \in Nat /\ queue \in Seq(Entry) /\ x \in Entry /\ x.stmts = t
    BY DEF Inv, Types, Entry
  <1>2. queue' = Append(queue, x)
    BY DEF Commit
  <1> HIDE DEF x
  <1>3. (\A k \in 0..n : h[k] = g[k]) /\ h[n + 1] = RunAll(g[n], x.stmts)
    BY <1>1, <1>2, AfterAppend
  <1>4. h[n + 1] = e /\ g[n] = Settled
    BY <1>1, <1>3 DEF Yields, Settled
  <1>5. Len(queue') = n + 1
    BY <1>1, <1>2
  <1>6. \A k \in 1..n : Fair(g[k - 1], g[k])
    BY DEF Balanced
  <1> HIDE DEF n, g, h
  <1>7. ASSUME NEW k \in 1..(n + 1) PROVE Fair(h[k - 1], h[k])
    <2>1. CASE k = n + 1
      <3>1. k - 1 = n /\ n \in 0..n
        BY <1>1, <2>1
      <3>2. h[k - 1] = Settled /\ h[k] = e
        BY <1>3, <1>4, <2>1, <3>1
      <3> QED BY <3>2
    <2>2. CASE k \in 1..n
      <3>1. k \in 0..n /\ k - 1 \in 0..n
        BY <1>1, <2>2
      <3>2. h[k] = g[k] /\ h[k - 1] = g[k - 1]
        BY <1>3, <3>1
      <3> QED BY <1>6, <2>2, <3>2
    <2>3. k = n + 1 \/ k \in 1..n
      BY <1>1
    <2> QED BY <2>1, <2>2, <2>3
  <1>8. \A k \in 1..Len(queue') : Fair(h[k - 1], h[k])
    BY <1>5, <1>7
  <1>9. scenario' = scenario
    BY DEF Commit
  <1> QED BY <1>8, <1>9, BalancedNext DEF h

LEMMA SameBalanced ==
    ASSUME Balanced, db' = db, queue' = queue, scenario' = scenario
    PROVE  Balanced'
  <1>1. \A k \in 1..Len(queue') : Fair(After(db', queue')[k - 1], After(db', queue')[k])
    BY DEF Balanced
  <1> QED BY <1>1, BalancedNext

LEMMA LoginBalanced ==
    ASSUME Inv, Balanced, NEW p \in Players, HandlePlayerLogin(p)
    PROVE  Balanced'
  <1> DEFINE n == Len(queue)
             x == [login |-> p, stmts |-> <<>>]
             g == After(db, queue)
             h == After(db', queue')
  <1>1. n \in Nat /\ queue \in Seq(Entry) /\ x \in Entry /\ x.stmts = <<>>
    BY DEF Inv, Types, Entry
  <1>2. queue' = Append(queue, x) /\ db' = db
    BY DEF HandlePlayerLogin
  <1> HIDE DEF x
  <1>3. (\A k \in 0..n : h[k] = g[k]) /\ h[n + 1] = RunAll(g[n], x.stmts)
    BY <1>1, <1>2, AfterAppend
  <1>4. h[n + 1] = Settled /\ g[n] = Settled
    BY <1>1, <1>3, RunAllNone DEF Settled
  <1>5. Len(queue') = n + 1
    BY <1>1, <1>2
  <1>6. \A k \in 1..n : Fair(g[k - 1], g[k])
    BY DEF Balanced
  <1>9. Fair(Settled, Settled)
    BY SettledFree, FairSame
  <1> HIDE DEF n, g, h
  <1>7. ASSUME NEW k \in 1..(n + 1) PROVE Fair(h[k - 1], h[k])
    <2>1. CASE k = n + 1
      <3>1. k - 1 = n /\ n \in 0..n
        BY <1>1, <2>1
      <3>2. h[k - 1] = Settled /\ h[k] = Settled
        BY <1>3, <1>4, <2>1, <3>1
      <3> QED BY <1>9, <3>2
    <2>2. CASE k \in 1..n
      <3>1. k \in 0..n /\ k - 1 \in 0..n
        BY <1>1, <2>2
      <3>2. h[k] = g[k] /\ h[k - 1] = g[k - 1]
        BY <1>3, <3>1
      <3> QED BY <1>6, <2>2, <3>2
    <2>3. k = n + 1 \/ k \in 1..n
      BY <1>1
    <2> QED BY <2>1, <2>2, <2>3
  <1>8. \A k \in 1..Len(queue') : Fair(h[k - 1], h[k])
    BY <1>5, <1>7
  <1>10. scenario' = scenario
    BY DEF HandlePlayerLogin
  <1> QED BY <1>8, <1>10, BalancedNext DEF h

LEMMA EmptyBalanced ==
    ASSUME queue' = <<>>
    PROVE  Balanced'
  <1>1. Len(queue') = 0
    OBVIOUS
  <1>2. 1..0 = {}
    OBVIOUS
  <1> QED BY <1>1, <1>2 DEF Balanced

(* The worker executes the first of them. *)
LEMMA ExecuteBalanced ==
    ASSUME Inv, Balanced, DbExecute
    PROVE  Balanced' /\ (db' = db \/ Fair(db, db'))
  <1> DEFINE n == Len(queue) - 1
             g == After(db, queue)
             h == After(db', queue')
  <1>1. queue \in Seq(Entry) /\ queue # <<>> /\ queue' = Tail(queue)
    BY DEF Inv, Types, DbExecute
  <1>2. Len(queue) \in Nat /\ Head(queue) = queue[1] /\ 1 \in 1..Len(queue)
    BY <1>1
  <1>3. Head(queue).login # None => Head(queue).stmts = <<>>
    BY <1>2 DEF Inv, Logins
  <1>4. db' = RunAll(db, Head(queue).stmts)
    <2>1. CASE Head(queue).login = None
      BY <2>1 DEF DbExecute
    <2>2. CASE Head(queue).login # None
      <3>1. db' = db
        BY <2>2 DEF DbExecute
      <3> QED BY <1>3, <2>2, <3>1, RunAllNone
    <2> QED BY <2>1, <2>2
  <1>5. Len(queue') = n /\ n \in Nat /\ \A k \in 0..n : h[k] = g[k + 1]
    BY <1>1, <1>4, AfterTail
  <1>6. \A k \in 1..(n + 1) : Fair(g[k - 1], g[k])
    BY <1>2 DEF Balanced
  <1>7. g[0] = db /\ h[0] = db'
    BY <1>2, <1>5, AfterDef
  <1> HIDE DEF n, g, h
  <1>8. Fair(db, db')
    <2>1. 0 \in 0..n /\ 1 \in 1..(n + 1) /\ 1 - 1 = 0 /\ 0 + 1 = 1
      BY <1>5
    <2>2. h[0] = g[1]
      BY <1>5, <2>1
    <2>3. Fair(g[0], g[1])
      BY <1>6, <2>1
    <2> QED BY <1>7, <2>2, <2>3
  <1>9. ASSUME NEW k \in 1..n PROVE Fair(h[k - 1], h[k])
    <2>1. k \in 0..n /\ k - 1 \in 0..n /\ (k - 1) + 1 = k /\ k + 1 \in 1..(n + 1) /\ (k + 1) - 1 = k
      BY <1>5
    <2>2. h[k] = g[k + 1] /\ h[k - 1] = g[k]
      <3>1. h[k - 1] = g[(k - 1) + 1]
        BY <1>5, <2>1
      <3> QED BY <1>5, <2>1, <3>1
    <2>3. Fair(g[(k + 1) - 1], g[k + 1])
      BY <1>6, <2>1
    <2> QED BY <2>1, <2>2, <2>3
  <1>10. Balanced'
    <2>1. scenario' = scenario
      BY DEF DbExecute
    <2>2. \A k \in 1..Len(queue') : Fair(h[k - 1], h[k])
      BY <1>5, <1>9
    <2> QED BY <2>1, <2>2, BalancedNext DEF h
  <1> QED BY <1>8, <1>10

LEMMA ExecuteRestart ==
    ASSUME Inv, Restart, DbExecute
    PROVE  Restart'
  <1> DEFINE n == Len(queue) - 1
             g == After(db, queue)
             h == After(db', queue')
  <1>1. queue \in Seq(Entry) /\ queue # <<>> /\ queue' = Tail(queue) /\ up' = up /\ unsent' = unsent
    BY DEF Inv, Types, DbExecute
  <1>2. Len(queue) \in Nat /\ Head(queue) = queue[1] /\ 1 \in 1..Len(queue)
    BY <1>1
  <1>3. Head(queue).login # None => Head(queue).stmts = <<>>
    BY <1>2 DEF Inv, Logins
  <1>4. db' = RunAll(db, Head(queue).stmts)
    <2>1. CASE Head(queue).login = None
      BY <2>1 DEF DbExecute
    <2>2. CASE Head(queue).login # None
      <3>1. db' = db
        BY <2>2 DEF DbExecute
      <3> QED BY <1>3, <2>2, <3>1, RunAllNone
    <2> QED BY <2>1, <2>2
  <1>5. Len(queue') = n /\ n \in Nat /\ \A k \in 0..n : h[k] = g[k + 1]
    BY <1>1, <1>4, AfterTail
  <1>6. ~up => \A k \in 0..(n + 1), i \in Items \ unsent : g[k].auctionhouse[i] = g[n + 1].auctionhouse[i]
    BY <1>2 DEF Restart, Settled
  <1>7. Settled' = h[n]
    BY <1>5 DEF Settled
  <1> HIDE DEF n, g, h
  <1>8. ASSUME ~up, NEW k \in 0..n, NEW i \in Items \ unsent PROVE h[k].auctionhouse[i] = h[n].auctionhouse[i]
    <2>1. k + 1 \in 0..(n + 1) /\ n \in 0..n
      BY <1>5
    <2>2. h[k] = g[k + 1] /\ h[n] = g[n + 1]
      BY <1>5, <2>1
    <2> QED BY <1>6, <1>8, <2>1, <2>2
  <1> QED BY <1>1, <1>5, <1>7, <1>8 DEF Restart, h

LEMMA HouseEnds ==
    ASSUME NEW d \in Tables, NEW e, NEW i \in Items, e.auctionhouse = Put(d.auctionhouse, {i}, None),
           NEW a, a = d.auctionhouse[i]
    PROVE  House(e) = House(d) - HouseGold(a)
  <1>1. None \in Auction \cup {None}
    OBVIOUS
  <1>2. /\ House(e) = House(d) - HouseGold(d.auctionhouse[i]) + HouseGold(None)
        /\ HouseGold(d.auctionhouse[i]) \in Nat
    BY <1>1, HouseChanges
  <1>3. HouseGold(None) = 0
    BY DEF HouseGold
  <1>4. House(d) \in Nat
    BY GoldType
  <1> QED BY <1>2, <1>3, <1>4

(* Auctions that end *)
LEMMA ExpiresBalanced ==
    ASSUME Inv, Balanced, NEW i \in Items, AuctionExpires(i)
    PROVE  Balanced'
  <1> DEFINE a == auctions[i]
             drafts == IF a.bidder = None THEN <<AuctionMail(a.owner, {i}, 0)>> ELSE Sold(a, i)
             t == SoldStmts(drafts, i)
             S == Settled
             e == RunAll(S, t)
             w == IF a.bidder = None THEN 0 ELSE a.bid + a.deposit - GetAuctionCut(a)
  <1>1. up /\ a # None /\ SendMails(drafts, m_mail) /\ Commit(t) /\ db' = db
    BY DEF AuctionExpires, AuctionUnchanged, SoldStmts
  <1>2. a = S.auctionhouse[i] /\ a \in Auction /\ S \in Tables
    BY <1>1, AuctionSettled
  <1>3. Proper(drafts) /\ Worth(drafts, w)
    <2>1. CASE a.bidder = None
      <3> DEFINE x == AuctionMail(a.owner, {i}, 0)
      <3>1. a.owner \in Players /\ {i} \in SUBSET Items /\ 0 \in Nat
        BY <1>2, AuctionFields
      <3>2. x \in DraftMail /\ x.items = {i} /\ (x.row.COD > 0 => x.row.sender # None)
        BY <3>1, AuctionMailType
      <3>3. drafts = <<x>> /\ x.row.money = 0 /\ w = 0
        BY <2>1 DEF AuctionMail, Draft
      <3> HIDE DEF x, drafts, w
      <3>4. Proper(drafts)
        BY <3>2, <3>3, ProperOne
      <3>5. Len(drafts) = 1 /\ drafts[1] = x
        BY <3>3
      <3> QED BY <3>3, <3>4, <3>5 DEF Worth
    <2>2. CASE a.bidder # None
      <3> DEFINE x == Successful(a)
                 y == Won(a, i)
      <3>1. /\ x \in DraftMail /\ x.items = {} /\ (x.row.COD > 0 => x.row.sender # None)
            /\ y \in DraftMail /\ y.items = {i} /\ (y.row.COD > 0 => y.row.sender # None)
        BY <1>2, <2>2, SoldDrafts
      <3>2. drafts = <<x, y>>
        BY <2>2 DEF Sold
      <3>3. x.row.money = w /\ y.row.money = 0 /\ w \in Nat
        BY <1>2, <2>2, AuctionFields DEF Successful, Won, AuctionMail, Draft
      <3> HIDE DEF x, y, drafts, w
      <3>4. Proper(drafts)
        BY <3>1, <3>2, ProperTwo
      <3>5. Len(drafts) = 2 /\ drafts[1] = x /\ drafts[2] = y
        BY <3>2
      <3>6. w = x.row.money + y.row.money
        BY <3>3
      <3> QED BY <3>4, <3>5, <3>6 DEF Worth
    <2> QED BY <2>1, <2>2
  <1>4. NewMails(drafts) \in SentMails
    BY <1>1, <1>3, SentDrafts
  <1>5. Yields(S, t, e) /\ t = SoldStmts(drafts, i)
    BY DEF Yields
  <1>6. w <= HouseGold(a) /\ HouseGold(a) \in Nat
    <2>1. a.bid \in Nat /\ a.deposit \in Nat /\ GetAuctionCut(a) \in Nat
      BY <1>2, AuctionFields
    <2>2. HouseGold(a) = a.bid + a.deposit
      BY <1>1 DEF HouseGold
    <2> QED BY <2>1, <2>2
  <1> HIDE DEF drafts, S, t, e, w
  <1>7. t \in Seq(Statement) /\ e \in Tables /\ Posted(S, e, NewMails(drafts)) /\ OnlyAuction(S, e, i)
    BY <1>2, <1>4, <1>5, SoldDb
  <1>8. w \in Nat /\ Post(e) = Post(S) + w
    BY <1>1, <1>3, <1>7, PostedWorth DEF S
  <1>9. House(e) = House(S) - HouseGold(a)
    <2>1. e.auctionhouse = Put(S.auctionhouse, {i}, None)
      BY <1>7 DEF OnlyAuction
    <2> QED BY <1>2, <2>1, HouseEnds
  <1>10. Purse(e) = Purse(S)
    BY <1>7 DEF OnlyAuction, Purse
  <1>12. Purse(S) \in Nat /\ Post(S) \in Nat /\ House(S) \in Nat
    BY <1>2, GoldType
  <1>13. Purse(e) + Post(e) + House(e) <= Purse(S) + Post(S) + House(S)
    BY <1>6, <1>8, <1>9, <1>10, <1>12
  <1>14. Fair(S, e)
    BY <1>2, <1>7, <1>13, FairLess
  <1> QED BY <1>1, <1>5, <1>7, <1>14, CommitBalanced DEF S

LEMMA StartupBalanced ==
    ASSUME Inv, Balanced, Restart, NEW i \in Items, DeleteExpiredAuctionsAtStartup(i)
    PROVE  Balanced' /\ Restart'
  <1> DEFINE a == db.auctionhouse[i]
             drafts == IF a.bidder = None THEN <<>> ELSE <<Successful(a)>>
             t == SoldStmts(drafts, i)
             S == Settled
             e == RunAll(S, t)
             w == IF a.bidder = None THEN 0 ELSE a.bid + a.deposit - GetAuctionCut(a)
  <1>1. /\ ~up /\ a # None /\ SendMails(drafts, m_mail) /\ Commit(t) /\ db' = db
        /\ i \notin unsent /\ unsent' = unsent \cup {i} /\ up' = up
    BY DEF DeleteExpiredAuctionsAtStartup, SoldStmts
  <1>2. a = S.auctionhouse[i] /\ a \in Auction /\ S \in Tables
    <2>1. db \in Tables
      BY DbGood DEF Inv, Good
    <2>2. a \in Auction
      BY <1>1, <2>1, TablesFields
    <2> QED BY <1>1, <2>2, RestartDb, SettledFree
  <1>3. Proper(drafts) /\ Worth(drafts, w)
    <2>1. CASE a.bidder = None
      <3>1. drafts = <<>> /\ w = 0
        BY <2>1
      <3> HIDE DEF drafts, w
      <3> QED BY <3>1, ProperNone DEF Worth
    <2>2. CASE a.bidder # None
      <3> DEFINE x == Successful(a)
      <3>1. x \in DraftMail /\ x.items = {} /\ (x.row.COD > 0 => x.row.sender # None)
        BY <1>2, <2>2, SoldDrafts
      <3>2. drafts = <<x>>
        BY <2>2
      <3>3. x.row.money = w
        BY <2>2 DEF Successful, AuctionMail, Draft
      <3> HIDE DEF x, drafts, w
      <3>4. Proper(drafts)
        BY <3>1, <3>2, ProperOne
      <3>5. Len(drafts) = 1 /\ drafts[1] = x
        BY <3>2
      <3> QED BY <3>3, <3>4, <3>5 DEF Worth
    <2> QED BY <2>1, <2>2
  <1>4. NewMails(drafts) \in SentMails
    BY <1>1, <1>3, SentDrafts
  <1>5. Yields(S, t, e) /\ t = SoldStmts(drafts, i)
    BY DEF Yields
  <1>6. w <= HouseGold(a) /\ HouseGold(a) \in Nat
    <2>1. a.bid \in Nat /\ a.deposit \in Nat /\ GetAuctionCut(a) \in Nat
      BY <1>2, AuctionFields
    <2>2. HouseGold(a) = a.bid + a.deposit
      BY <1>1 DEF HouseGold
    <2> QED BY <2>1, <2>2
  <1> HIDE DEF drafts, S, t, e, w
  <1>7. t \in Seq(Statement) /\ e \in Tables /\ Posted(S, e, NewMails(drafts)) /\ OnlyAuction(S, e, i)
    BY <1>2, <1>4, <1>5, SoldDb
  <1>8. w \in Nat /\ Post(e) = Post(S) + w
    BY <1>1, <1>3, <1>7, PostedWorth DEF S
  <1>9. e.auctionhouse = Put(S.auctionhouse, {i}, None)
    BY <1>7 DEF OnlyAuction
  <1>10. House(e) = House(S) - HouseGold(a)
    BY <1>2, <1>9, HouseEnds
  <1>11. Purse(e) = Purse(S)
    BY <1>7 DEF OnlyAuction, Purse
  <1>12. Purse(S) \in Nat /\ Post(S) \in Nat /\ House(S) \in Nat
    BY <1>2, GoldType
  <1>13. Purse(e) + Post(e) + House(e) <= Purse(S) + Post(S) + House(S)
    BY <1>6, <1>8, <1>10, <1>11, <1>12
  <1>14. Fair(S, e)
    BY <1>2, <1>7, <1>13, FairLess
  <1>15. Balanced'
    BY <1>1, <1>5, <1>7, <1>14, CommitBalanced DEF S
  <1>16. \A j \in Items \ {i} : e.auctionhouse[j] = S.auctionhouse[j]
    BY <1>2, <1>9, TablesFields DEF Put
  <1>17. Restart'
    <2> DEFINE n == Len(queue)
               x == [login |-> None, stmts |-> t]
               g == After(db, queue)
               h == After(db', queue')
    <2>1. n \in Nat /\ queue \in Seq(Entry) /\ x \in Entry /\ x.stmts = t
      BY <1>7 DEF Inv, Types, Entry
    <2>2. queue' = Append(queue, x)
      BY <1>1 DEF Commit
    <2> HIDE DEF x
    <2>3. (\A k \in 0..n : h[k] = g[k]) /\ h[n + 1] = RunAll(g[n], x.stmts)
      BY <1>1, <2>1, <2>2, AfterAppend
    <2>4. h[n + 1] = e /\ g[n] = S
      BY <1>5, <2>1, <2>3 DEF Yields, Settled, S
    <2>5. Len(queue') = n + 1
      BY <2>1, <2>2
    <2>6. Settled' = h[n + 1]
      BY <2>5 DEF Settled
    <2>7. \A k \in 0..n, j \in Items \ unsent : g[k].auctionhouse[j] = S.auctionhouse[j]
      BY <1>1 DEF Restart, S
    <2> HIDE DEF n, g, h
    <2>8. ASSUME NEW k \in 0..(n + 1), NEW j \in Items \ unsent' PROVE h[k].auctionhouse[j] = h[n + 1].auctionhouse[j]
      <3>1. j \in Items \ {i} /\ j \in Items \ unsent
        BY <1>1
      <3>2. CASE k \in 0..n
        BY <1>16, <2>3, <2>4, <2>7, <3>1, <3>2
      <3>3. CASE k = n + 1
        BY <3>3
      <3>4. k \in 0..n \/ k = n + 1
        BY <2>1
      <3> QED BY <3>2, <3>3, <3>4
    <2> QED BY <2>5, <2>6, <2>8 DEF Restart, h
  <1> QED BY <1>15, <1>17

(* The tables never hold less gold of an online player than the memory. *)
LEMMA GoldHeld ==
    ASSUME Inv, NEW p \in online
    PROVE  /\ p \in Players /\ money[p] \in Nat /\ money[p] \in 0..(MaxMoney - 1)
           /\ Settled.money[p] \in Nat /\ money[p] <= Settled.money[p]
  <1>1. p \in Players /\ money[p] \in 0..(MaxMoney - 1) /\ Settled.money[p] - money[p] \in {0, Deposit}
    BY ItemsSaved
  <1>2. Settled.money[p] \in Nat
    BY <1>1, SettledFree, TablesFields
  <1>3. Deposit \in Nat /\ MaxMoney \in Nat
    BY CustodyAssumption
  <1> QED BY <1>1, <1>2, <1>3

LEMMA Spends ==
    ASSUME NEW h \in Nat, NEW x \in Int, x <= h
    PROVE  ModifyMoney(h, -x) <= h - x
  BY CustodyAssumption DEF ModifyMoney

LEMMA DealtBalanced ==
    ASSUME Inv, Balanced, NEW p \in online, NEW i \in Items,
           NEW drafts, Proper(drafts), SendMails(drafts, m_mail), NEW w, Worth(drafts, w),
           NEW t \in Seq(Statement), Commit(t), db' = db, NEW e \in Tables, Yields(Settled, t, e),
           NEW v \in Auction \cup {None}, NEW g \in Nat, Dealt(Settled, e, NewMails(drafts), i, v, p, g),
           g + w + HouseGold(v) <= money[p] + HouseGold(Settled.auctionhouse[i])
    PROVE  Balanced'
  <1> DEFINE S == Settled
             N == NewMails(drafts)
  <1>1. S \in Tables /\ p \in Players /\ money[p] \in Nat /\ S.money[p] \in Nat /\ money[p] <= S.money[p]
    BY SettledFree, GoldHeld
  <1>2. Posted(S, e, N) /\ e.auctionhouse = Put(S.auctionhouse, {i}, v) /\ Pays(S, e, p, g)
    BY DEF Dealt
  <1>3. w \in Nat /\ Post(e) = Post(S) + w
    BY <1>2, PostedWorth
  <1>4. g + w + HouseGold(v) <= money[p] + HouseGold(S.auctionhouse[i])
    OBVIOUS
  <1> HIDE DEF S, N
  <1>5. /\ House(e) = House(S) - HouseGold(S.auctionhouse[i]) + HouseGold(v)
        /\ HouseGold(S.auctionhouse[i]) \in Nat /\ HouseGold(v) \in Nat
    BY <1>1, <1>2, HouseChanges
  <1>6. Purse(e) = Purse(S) - S.money[p] + g
    BY <1>1, <1>2, PursePays
  <1>7. Purse(S) \in Nat /\ Post(S) \in Nat /\ House(S) \in Nat
    BY <1>1, GoldType
  <1>8. Purse(e) + Post(e) + House(e) <= Purse(S) + Post(S) + House(S)
    <2> DEFINE held == S.money[p]
               had == money[p]
               x == HouseGold(S.auctionhouse[i])
               y == HouseGold(v)
    <2>1. held \in Nat /\ had \in Nat /\ had <= held /\ x \in Nat /\ y \in Nat /\ g + w + y <= had + x
      BY <1>1, <1>4, <1>5
    <2>2. Purse(e) = Purse(S) - held + g /\ House(e) = House(S) - x + y
      BY <1>5, <1>6
    <2> HIDE DEF held, had, x, y
    <2> QED BY <1>3, <1>7, <2>1, <2>2, SMTT(30)
  <1>9. Fair(S, e)
    BY <1>1, <1>8, FairLess
  <1> QED BY <1>9, CommitBalanced DEF S

LEMMA RemoveBalanced ==
    ASSUME Inv, Balanced, NEW p \in Players, NEW i \in Items, HandleAuctionRemoveItem(p, i)
    PROVE  Balanced'
  <1> DEFINE a == auctions[i]
             cut == IF a.bidder = None THEN 0 ELSE GetAuctionCut(a)
             g == ModifyMoney(money[p], -cut)
             drafts == (IF a.bidder = None THEN <<>> ELSE <<AuctionMail(a.bidder, {}, a.bid)>>)
                          \o <<AuctionMail(p, {i}, 0)>>
             t == Then(Then(SendMailToStmts(drafts), SaveGoldToDB(p, g)), DelAuction(i))
             e == RunAll(Settled, t)
             w == IF a.bidder = None THEN 0 ELSE a.bid
  <1>1. /\ p \in online /\ a # None /\ money[p] >= cut
        /\ SendMails(drafts, m_mail) /\ Commit(t) /\ db' = db
    BY DEF HandleAuctionRemoveItem, AuctionUnchanged, Then, DelAuction
  <1>2. up
    BY <1>1 DEF Inv, Memory
  <1>3. a = Settled.auctionhouse[i] /\ a \in Auction /\ Settled \in Tables
    BY <1>1, <1>2, AuctionSettled
  <1>4. a.bid \in Nat /\ a.deposit \in Nat /\ cut \in Nat
    BY <1>3, AuctionFields
  <1>5. g \in Nat /\ g <= money[p] - cut /\ money[p] \in Nat
    <2>1. -cut \in Int /\ cut \in Int /\ money[p] \in 0..(MaxMoney - 1) /\ money[p] \in Nat /\ cut <= money[p]
      BY <1>1, <1>4, GoldHeld
    <2> HIDE DEF cut
    <2>4. -cut <= MaxMoney
      BY <1>4, CustodyAssumption
    <2>2. g \in 0..(MaxMoney - 1)
      BY <2>1, <2>4, ModifyMoneyType
    <2>3. g <= money[p] - cut
      BY <2>1, Spends
    <2> QED BY <2>1, <2>2, <2>3
  <1>6. Proper(drafts) /\ Worth(drafts, w)
    <2> DEFINE x == AuctionMail(a.bidder, {}, a.bid)
               y == AuctionMail(p, {i}, 0)
    <2>1. y \in DraftMail /\ y.items = {i} /\ (y.row.COD > 0 => y.row.sender # None)
      <3>1. {i} \in SUBSET Items /\ 0 \in Nat
        OBVIOUS
      <3> QED BY <3>1, AuctionMailType
    <2>2. y.row.money = 0 /\ x.row.money = a.bid
      BY DEF AuctionMail, Draft
    <2>3. CASE a.bidder = None
      <3>1. drafts = <<y>> /\ w = 0
        BY <2>3
      <3> HIDE DEF y, drafts, w
      <3>2. Proper(drafts)
        BY <2>1, <3>1, ProperOne
      <3>3. Len(drafts) = 1 /\ drafts[1] = y
        BY <3>1
      <3> QED BY <2>2, <3>1, <3>2, <3>3 DEF Worth
    <2>4. CASE a.bidder # None
      <3>1. x \in DraftMail /\ x.items = {} /\ (x.row.COD > 0 => x.row.sender # None)
        BY <1>3, <2>4, OutbiddedDraft
      <3>2. drafts = <<x>> \o <<y>> /\ w = a.bid
        BY <2>4
      <3> HIDE DEF x, y, drafts, w
      <3>3. drafts = <<x, y>>
        BY <2>1, <3>1, <3>2, Drafts
      <3>4. Proper(drafts)
        BY <2>1, <3>1, <3>3, ProperTwo
      <3>5. Len(drafts) = 2 /\ drafts[1] = x /\ drafts[2] = y
        BY <3>3
      <3>6. w = x.row.money + y.row.money
        BY <1>4, <2>2, <3>2
      <3> QED BY <3>4, <3>5, <3>6 DEF Worth
    <2> QED BY <2>3, <2>4
  <1>7. NewMails(drafts) \in SentMails
    BY <1>1, <1>6, SentDrafts
  <1>8. Yields(Settled, t, e) /\ t = Then(Then(SendMailToStmts(drafts), SaveGoldToDB(p, g)), DelAuction(i))
    BY DEF Yields
  <1>9. HouseGold(a) = a.bid + a.deposit /\ HouseGold(None) = 0 /\ w \in Nat /\ w <= a.bid
    BY <1>1, <1>4 DEF HouseGold
  <1> HIDE DEF a, cut, g, drafts, t, e, w
  <1>10. t \in Seq(Statement) /\ e \in Tables /\ Dealt(Settled, e, NewMails(drafts), i, None, p, g)
    BY <1>3, <1>5, <1>7, <1>8, RemoveDb
  <1>11. g + w + HouseGold(None) <= money[p] + HouseGold(a)
    BY <1>4, <1>5, <1>9
  <1>12. None \in Auction \cup {None} /\ g + w + HouseGold(None) <= money[p] + HouseGold(Settled.auctionhouse[i])
    BY <1>3, <1>11
  <1> QED BY <1>1, <1>5, <1>6, <1>8, <1>10, <1>12, DealtBalanced

LEMMA ToPayIs ==
    ASSUME NEW a \in Auction, NEW p, NEW price \in Nat, a.bid < MaxMoney
    PROVE  /\ ToPay(a, p, price) \in Int /\ -ToPay(a, p, price) \in Int /\ ToPay(a, p, price) <= price
           /\ -ToPay(a, p, price) <= MaxMoney
           /\ a.bidder = p => ToPay(a, p, price) = price - a.bid
           /\ a.bidder # p => ToPay(a, p, price) = price
  <1>1. a.bid \in Nat
    BY AuctionFields
  <1>2. MaxMoney \in Nat
    BY CustodyAssumption
  <1> QED BY <1>1, <1>2 DEF ToPay

LEMMA PlaceBidBalanced ==
    ASSUME Inv, Balanced, NEW p \in Players, NEW i \in Items, NEW price \in Bids, PlaceBid(p, i, price)
    PROVE  Balanced'
  <1> DEFINE a == auctions[i]
             drafts == Outbidded(a, p)
             pay == ToPay(a, p, price)
             g == ModifyMoney(money[p], -pay)
             v == Bidden(a, p, price)
             t == Then(Then(SendMailToStmts(drafts), BidStmts(i, p, price)), SaveGoldToDB(p, g))
             e == RunAll(Settled, t)
             w == IF a.bidder \in {None, p} THEN 0 ELSE a.bid
  <1>1. /\ p \in online /\ a # None /\ money[p] >= price
        /\ SendMails(drafts, m_mail) /\ Commit(t) /\ db' = db
    BY DEF PlaceBid, MayBid, AuctionUnchanged, Then, BidStmts, BidStmt
  <1>2. up /\ price \in Nat /\ None # p
    BY <1>1, CustodyAssumption DEF Inv, Memory
  <1>3. a = Settled.auctionhouse[i] /\ a \in Auction /\ Settled \in Tables
    BY <1>1, <1>2, AuctionSettled
  <1>4. a.bid \in Nat /\ a.deposit \in Nat
    BY <1>3, AuctionFields
  <1>5. /\ pay \in Int /\ -pay \in Int /\ pay <= price /\ -pay <= MaxMoney
        /\ (a.bidder = p => pay = price - a.bid) /\ (a.bidder # p => pay = price)
    <2>1. a.bid < MaxMoney
      BY <1>3, BidBelow DEF PlaceBid
    <2> QED BY <1>2, <1>3, <2>1, ToPayIs
  <1>6. g \in Nat /\ g <= money[p] - pay /\ money[p] \in Nat
    <2>1. money[p] \in 0..(MaxMoney - 1) /\ money[p] \in Nat
      BY <1>1, GoldHeld
    <2> HIDE DEF pay
    <2>2. pay <= money[p]
      BY <1>1, <1>2, <1>5, <2>1
    <2>3. g \in 0..(MaxMoney - 1)
      BY <1>5, <2>1, ModifyMoneyType
    <2>4. g <= money[p] - pay
      BY <1>5, <2>1, <2>2, Spends
    <2> QED BY <2>1, <2>3, <2>4
  <1>7. Proper(drafts) /\ Worth(drafts, w)
    <2> DEFINE x == AuctionMail(a.bidder, {}, a.bid)
    <2>1. CASE a.bidder \in {None, p}
      <3>1. drafts = <<>> /\ w = 0
        BY <2>1 DEF Outbidded
      <3> HIDE DEF drafts, w
      <3> QED BY <3>1, ProperNone DEF Worth
    <2>2. CASE a.bidder \notin {None, p}
      <3>1. x \in DraftMail /\ x.items = {} /\ (x.row.COD > 0 => x.row.sender # None)
        BY <1>3, <2>2, OutbiddedDraft
      <3>2. drafts = <<x>> /\ w = a.bid /\ x.row.money = a.bid
        BY <2>2 DEF Outbidded, AuctionMail, Draft
      <3> HIDE DEF x, drafts, w
      <3>3. Proper(drafts)
        BY <3>1, <3>2, ProperOne
      <3>4. Len(drafts) = 1 /\ drafts[1] = x
        BY <3>2
      <3> QED BY <3>2, <3>3, <3>4 DEF Worth
    <2> QED BY <2>1, <2>2
  <1>8. NewMails(drafts) \in SentMails
    BY <1>1, <1>7, SentDrafts
  <1>9. Yields(Settled, t, e) /\ t = Then(Then(SendMailToStmts(drafts), BidStmts(i, p, price)), SaveGoldToDB(p, g))
    BY DEF Yields
  <1>10. v \in Auction /\ v # None
    BY <1>2, <1>3, BiddenType
  <1>11. HouseGold(a) = a.bid + a.deposit /\ HouseGold(v) = price + a.deposit
    <2>1. v.bid = price /\ v.deposit = a.deposit
      BY <1>3 DEF Bidden, Auction
    <2> HIDE DEF v
    <2> QED BY <1>1, <1>10, <2>1 DEF HouseGold
  <1>12. w \in Nat /\ w - pay + price <= a.bid
    <2>1. CASE a.bidder = p
      BY <1>2, <1>4, <1>5, <2>1
    <2>2. CASE a.bidder # p
      BY <1>2, <1>4, <1>5, <2>2
    <2> QED BY <2>1, <2>2
  <1>13. Settled.auctionhouse[i] # None /\ v = Bidden(Settled.auctionhouse[i], p, price)
    BY <1>1, <1>3
  <1> HIDE DEF a, pay, g, drafts, t, e, w, v
  <1>14. /\ t \in Seq(Statement) /\ e \in Tables
         /\ Dealt(Settled, e, NewMails(drafts), i, Bidden(Settled.auctionhouse[i], p, price), p, g)
    BY <1>2, <1>3, <1>6, <1>8, <1>9, <1>13, PlaceBidDb
  <1>15. Dealt(Settled, e, NewMails(drafts), i, v, p, g)
    BY <1>13, <1>14
  <1>16. g + w + HouseGold(v) <= money[p] + HouseGold(a)
    BY <1>2, <1>4, <1>5, <1>6, <1>11, <1>12
  <1>17. v \in Auction \cup {None} /\ g + w + HouseGold(v) <= money[p] + HouseGold(Settled.auctionhouse[i])
    BY <1>3, <1>10, <1>16
  <1> QED BY <1>1, <1>6, <1>7, <1>9, <1>14, <1>15, <1>17, DealtBalanced

LEMMA BuyoutBalanced ==
    ASSUME Inv, Balanced, NEW p \in Players, NEW i \in Items, NEW price \in Bids, Buyout(p, i, price)
    PROVE  Balanced'
  <1> DEFINE a == auctions[i]
             sold == [a EXCEPT !.bidder = p, !.bid = a.buyout]
             drafts == Outbidded(a, p) \o Sold(sold, i)
             pay == ToPay(a, p, a.buyout)
             g == ModifyMoney(money[p], -pay)
             t == Then(Then(SendMailToStmts(drafts), DelAuction(i)), SaveGoldToDB(p, g))
             e == RunAll(Settled, t)
             back == IF a.bidder \in {None, p} THEN 0 ELSE a.bid
             gain == a.buyout + a.deposit - GetAuctionCut(sold)
             w == back + gain
  <1>1. /\ p \in online /\ a # None /\ money[p] >= price /\ price >= a.buyout
        /\ SendMails(drafts, m_mail) /\ Commit(t) /\ db' = db
    BY DEF Buyout, MayBid, AuctionUnchanged, Then, DelAuction
  <1>2. up /\ price \in Nat /\ None # p
    BY <1>1, CustodyAssumption DEF Inv, Memory
  <1>3. a = Settled.auctionhouse[i] /\ a \in Auction /\ Settled \in Tables
    BY <1>1, <1>2, AuctionSettled
  <1>4. a.bid \in Nat /\ a.deposit \in Nat /\ a.buyout \in Nat
    BY <1>3, AuctionFields
  <1>5. /\ pay \in Int /\ -pay \in Int /\ pay <= a.buyout /\ -pay <= MaxMoney
        /\ (a.bidder = p => pay = a.buyout - a.bid) /\ (a.bidder # p => pay = a.buyout)
    <2>1. a.bid < MaxMoney
      BY <1>3, BidBelow DEF Buyout
    <2> QED BY <1>3, <1>4, <2>1, ToPayIs
  <1>6. g \in Nat /\ g <= money[p] - pay /\ money[p] \in Nat
    <2>1. money[p] \in 0..(MaxMoney - 1) /\ money[p] \in Nat
      BY <1>1, GoldHeld
    <2> HIDE DEF pay
    <2>2. pay <= money[p]
      BY <1>1, <1>2, <1>4, <1>5, <2>1
    <2>3. g \in 0..(MaxMoney - 1)
      BY <1>5, <2>1, ModifyMoneyType
    <2>4. g <= money[p] - pay
      BY <1>5, <2>1, <2>2, Spends
    <2> QED BY <2>1, <2>3, <2>4
  <1>18. sold \in Auction /\ sold.bidder # None /\ sold.bid = a.buyout /\ sold.deposit = a.deposit
    BY <1>3, CustodyAssumption DEF Auction
  <1>19. gain \in Nat /\ GetAuctionCut(sold) \in Nat
    <2> HIDE DEF sold
    <2> QED BY <1>18, AuctionFields
  <1>7. Proper(drafts) /\ Worth(drafts, w)
    <2> DEFINE u == AuctionMail(a.bidder, {}, a.bid)
               x == Successful(sold)
               y == Won(sold, i)
    <2> HIDE DEF sold
    <2>1. /\ x \in DraftMail /\ x.items = {} /\ (x.row.COD > 0 => x.row.sender # None)
          /\ y \in DraftMail /\ y.items = {i} /\ (y.row.COD > 0 => y.row.sender # None)
      BY <1>18, SoldDrafts
    <2>2. Sold(sold, i) = <<x, y>>
      BY DEF Sold
    <2>3. x.row.money = gain /\ y.row.money = 0 /\ u.row.money = a.bid
      BY <1>18 DEF Successful, Won, AuctionMail, Draft
    <2> HIDE DEF gain
    <2>4. CASE a.bidder \in {None, p}
      <3>1. Outbidded(a, p) = <<>> /\ back = 0
        BY <2>4 DEF Outbidded
      <3> HIDE DEF x, y
      <3>2. drafts = <<x, y>>
        BY <2>2, <3>1
      <3> HIDE DEF drafts, back
      <3>3. Proper(drafts)
        BY <2>1, <3>2, ProperTwo
      <3>4. Len(drafts) = 2 /\ drafts[1] = x /\ drafts[2] = y
        BY <3>2
      <3>5. w = x.row.money + y.row.money
        BY <1>19, <2>3, <3>1
      <3> QED BY <3>3, <3>4, <3>5 DEF Worth
    <2>5. CASE a.bidder \notin {None, p}
      <3>1. u \in DraftMail /\ u.items = {} /\ (u.row.COD > 0 => u.row.sender # None)
        BY <1>3, <2>5, OutbiddedDraft
      <3>2. Outbidded(a, p) = <<u>> /\ back = a.bid
        BY <2>5 DEF Outbidded
      <3>3. drafts = <<u>> \o <<x, y>>
        BY <2>2, <3>2
      <3> HIDE DEF u, x, y, drafts, back
      <3>4. drafts = <<u, x, y>>
        BY <2>1, <3>1, <3>3, Drafts
      <3>5. Proper(drafts)
        BY <2>1, <3>1, <3>4, ProperThree
      <3>6. Len(drafts) = 3 /\ drafts[1] = u /\ drafts[2] = x /\ drafts[3] = y
        BY <3>4
      <3>7. w = u.row.money + x.row.money + y.row.money
        BY <1>4, <1>19, <2>3, <3>2
      <3> QED BY <3>5, <3>6, <3>7 DEF Worth
    <2> QED BY <2>4, <2>5
  <1>8. NewMails(drafts) \in SentMails
    BY <1>1, <1>7, SentDrafts
  <1>9. Yields(Settled, t, e) /\ t = Then(Then(SendMailToStmts(drafts), DelAuction(i)), SaveGoldToDB(p, g))
    BY DEF Yields
  <1>10. HouseGold(a) = a.bid + a.deposit /\ HouseGold(None) = 0
    BY <1>1 DEF HouseGold
  <1>11. w \in Nat /\ w - pay <= a.bid + a.deposit
    <2> HIDE DEF pay, sold
    <2>1. CASE a.bidder = p
      BY <1>4, <1>5, <1>19, <2>1
    <2>2. CASE a.bidder # p
      BY <1>4, <1>5, <1>19, <2>2
    <2> QED BY <2>1, <2>2
  <1> HIDE DEF a, pay, g, drafts, t, e, w
  <1>12. t \in Seq(Statement) /\ e \in Tables /\ Dealt(Settled, e, NewMails(drafts), i, None, p, g)
    BY <1>3, <1>6, <1>8, <1>9, BuyoutDb
  <1>13. g + w + HouseGold(None) <= money[p] + HouseGold(a)
    BY <1>4, <1>5, <1>6, <1>10, <1>11
  <1>14. None \in Auction \cup {None} /\ g + w + HouseGold(None) <= money[p] + HouseGold(Settled.auctionhouse[i])
    BY <1>3, <1>13
  <1> QED BY <1>1, <1>6, <1>7, <1>9, <1>12, <1>14, DealtBalanced

LEMMA SellBalanced ==
    ASSUME Inv, Balanced, NEW p \in Players, NEW i \in Items, NEW buyout \in Buyouts,
           HandleAuctionSellItem(p, i, buyout)
    PROVE  Balanced'
  <1> DEFINE a == [owner |-> p, bidder |-> None, bid |-> 0, buyout |-> buyout, deposit |-> Deposit]
             g == money[p]
             t == Then(Then(DeleteFromInventoryDB({i}), InsAuction(i, a)), SaveGoldToDB(p, g))
             S == Settled
             e == RunAll(S, t)
  <1>1. p \in online /\ auctions[i] = None /\ Commit(t) /\ db' = db
    BY DEF HandleAuctionSellItem, AuctionUnchanged, Then, InsAuction
  <1>2. a \in Auction /\ a # None /\ Deposit \in Nat
    <2>1. a \in Auction /\ Deposit \in Nat
      BY CustodyAssumption DEF Auction
    <2> QED BY <2>1, NullAssumption
  <1>3. HouseGold(a) = 0 + Deposit
    <2>1. a.bid = 0 /\ a.deposit = Deposit
      OBVIOUS
    <2> HIDE DEF a
    <2> QED BY <1>2, <2>1 DEF HouseGold
  <1>4. S \in Tables /\ g \in Nat /\ S.money[p] \in Nat /\ g <= S.money[p]
    BY <1>1, SettledFree, GoldHeld
  <1>5. S.auctionhouse[i] = None
    BY <1>1 DEF Inv, Memory, Saved
  <1>6. Yields(S, t, e) /\ t = Then(Then(DeleteFromInventoryDB({i}), InsAuction(i, a)), SaveGoldToDB(p, g))
    BY DEF Yields
  <1> HIDE DEF a, g, t, e, S
  <1>7. t \in Seq(Statement) /\ e \in Tables /\ Listed(S, e, i, a, p, g)
    BY <1>2, <1>4, <1>6, SellDb
  <1>8. Post(e) = Post(S)
    BY <1>7 DEF Listed, Post
  <1>9. Purse(e) = Purse(S) - S.money[p] + g
    <2>1. Pays(S, e, p, g)
      BY <1>7 DEF Listed
    <2> QED BY <1>4, <2>1, PursePays
  <1>10. e.auctionhouse = Put(S.auctionhouse, {i}, a) /\ a \in Auction \cup {None}
    BY <1>2, <1>7 DEF Listed
  <1>11. House(e) = House(S) - HouseGold(S.auctionhouse[i]) + HouseGold(a)
    BY <1>4, <1>10, HouseChanges
  <1>12. HouseGold(S.auctionhouse[i]) = 0
    BY <1>5 DEF HouseGold
  <1>13. NewAuctions(S, e) = {i}
    <2>1. \A j \in Items : e.auctionhouse[j] = IF j = i THEN a ELSE S.auctionhouse[j]
      BY <1>4, <1>10, TablesFields DEF Put
    <2> QED BY <1>2, <1>5, <2>1 DEF NewAuctions
  <1>14. Deposit * Cardinality(NewAuctions(S, e)) = Deposit
    <2>1. Cardinality({i}) = 1
      BY FS_Singleton
    <2> QED BY <1>2, <1>13, <2>1
  <1>15. Gold(S) = Purse(S) + Post(S) + House(S) /\ Purse(S) \in Nat /\ Post(S) \in Nat /\ House(S) \in Nat
    BY <1>4, GoldType
  <1>16. Gold(e) = Purse(e) + Post(e) + House(e)
    BY <1>7, GoldType
  <1>17. Gold(e) <= Gold(S) + Deposit
    <2> DEFINE held == S.money[p]
    <2>1. held \in Nat /\ g <= held /\ Purse(e) = Purse(S) - held + g
      BY <1>4, <1>9
    <2>2. House(e) = House(S) + Deposit
      BY <1>2, <1>3, <1>11, <1>12, <1>15
    <2> HIDE DEF held
    <2> QED BY <1>2, <1>4, <1>8, <1>15, <1>16, <2>1, <2>2
  <1>18. Fair(S, e)
    <2>1. Gold(e) \in Nat /\ Gold(S) \in Nat /\ Unearned(S, e) \in Nat
      <3>1. Purse(e) \in Nat /\ Post(e) \in Nat /\ House(e) \in Nat
        BY <1>7, GoldType
      <3> QED BY <1>15, <1>16, <3>1, UnpaidCount
    <2>2. Gold(e) <= Gold(S) + Deposit + Unearned(S, e)
      BY <1>2, <1>17, <2>1
    <2> QED BY <1>14, <2>2 DEF Fair
  <1> QED BY <1>1, <1>6, <1>7, <1>18, CommitBalanced DEF S

(* Player p pays, or is paid, and the auctions stay. *)
LEMMA PaysBalanced ==
    ASSUME Inv, Balanced, NEW p \in online, NEW t \in Seq(Statement), Commit(t), db' = db,
           NEW e \in Tables, Yields(Settled, t, e), NEW g \in Nat, Pays(Settled, e, p, g),
           e.auctionhouse = Settled.auctionhouse,
           NEW w \in Int, Post(e) <= Post(Settled) + w, g + w <= money[p]
    PROVE  Balanced'
  <1> DEFINE S == Settled
  <1>1. S \in Tables /\ p \in Players /\ money[p] \in Nat /\ S.money[p] \in Nat /\ money[p] <= S.money[p]
    BY SettledFree, GoldHeld
  <1>2. Pays(S, e, p, g) /\ Post(e) <= Post(S) + w /\ House(e) = House(S)
    BY DEF House
  <1> HIDE DEF S
  <1>3. Purse(e) = Purse(S) - S.money[p] + g
    BY <1>1, <1>2, PursePays
  <1>4. Purse(S) \in Nat /\ Post(S) \in Nat /\ House(S) \in Nat
    BY <1>1, GoldType
  <1>5. Post(e) \in Nat
    BY GoldType
  <1>6. Purse(e) + Post(e) + House(e) <= Purse(S) + Post(S) + House(S)
    <2> DEFINE held == S.money[p]
               had == money[p]
    <2>1. held \in Nat /\ had \in Nat /\ had <= held /\ g + w <= had /\ Purse(e) = Purse(S) - held + g
      BY <1>1, <1>3
    <2> HIDE DEF held, had
    <2> QED BY <1>2, <1>4, <1>5, <2>1
  <1>7. Fair(S, e)
    BY <1>1, <1>6, FairLess
  <1> QED BY <1>7, CommitBalanced DEF S

(* Player p mails what is not paid. *)
LEMMA UnpaidBalanced ==
    ASSUME Inv, Balanced, NEW p \in online, NEW t \in Seq(Statement), Commit(t), db' = db,
           NEW e \in Tables, Yields(Settled, t, e), NEW g \in Nat, Pays(Settled, e, p, g),
           e.auctionhouse = Settled.auctionhouse, NEW k \in UnpaidMails(Settled, e),
           NEW w \in Int, Post(e) <= Post(Settled) + w, g + w <= money[p] + Uint32
    PROVE  Balanced'
  <1> DEFINE S == Settled
  <1>1. S \in Tables /\ p \in Players /\ money[p] \in Nat /\ S.money[p] \in Nat /\ money[p] <= S.money[p]
    BY SettledFree, GoldHeld
  <1>2. Pays(S, e, p, g) /\ Post(e) <= Post(S) + w /\ House(e) = House(S) /\ k \in UnpaidMails(S, e)
    BY DEF House
  <1> HIDE DEF S
  <1>3. Purse(e) = Purse(S) - S.money[p] + g
    BY <1>1, <1>2, PursePays
  <1>4. Purse(S) \in Nat /\ Post(S) \in Nat /\ House(S) \in Nat /\ Uint32 \in Nat
    BY <1>1, GoldType, CustodyAssumption
  <1>5. Post(e) \in Nat
    BY GoldType
  <1>6. Purse(e) + Post(e) + House(e) <= Purse(S) + Post(S) + House(S) + Uint32
    <2> DEFINE held == S.money[p]
               had == money[p]
    <2>1. held \in Nat /\ had \in Nat /\ had <= held /\ g + w <= had + Uint32 /\ Purse(e) = Purse(S) - held + g
      BY <1>1, <1>3
    <2> HIDE DEF held, had
    <2> QED BY <1>2, <1>4, <1>5, <2>1, SMTT(30)
  <1>7. Fair(S, e)
    BY <1>1, <1>2, <1>6, FairUnpaid
  <1> QED BY <1>7, CommitBalanced DEF S

(* The sender pays what is sent, unless the sum wraps; the charge is never a *)
(* gain of more than Uint32 with what is sent.                               *)
LEMMA ChargeIs ==
    ASSUME NEW h \in 0..(MaxMoney - 1), NEW m \in 0..(Uint32 - 1)
    PROVE  /\ m + Postage < Uint32 /\ h >= AsUint32(Postage + m) => ModifyMoney(h, Charge(m)) + m <= h
           /\ ModifyMoney(h, Charge(m)) + m <= h + Uint32
  <1> DEFINE r == AsUint32(Postage + m)
             c == Charge(m)
  <1>1. /\ Uint32 \in Nat /\ Postage \in Nat /\ MaxMoney \in Nat /\ h \in Nat /\ m \in Nat /\ h < MaxMoney /\ m < Uint32
        /\ 2 * Postage < Uint32 /\ 2 * MaxMoney < Uint32
    BY CustodyAssumption
  <1>2. r \in Nat /\ (m + Postage < Uint32 => r = m + Postage) /\ (~(m + Postage < Uint32) => r = m + Postage - Uint32)
    BY <1>1 DEF AsUint32
  <1>3. r < Uint32
    BY <1>1, <1>2
  <1>4. AsUint32(-r) = IF r = 0 THEN 0 ELSE Uint32 - r
    <2> HIDE DEF r
    <2> QED BY <1>1, <1>2, <1>3 DEF AsUint32
  <1>5. c = AsInt32(AsUint32(-r))
    BY DEF Charge
  <1> HIDE DEF r
  <1>6. c = IF r = 0 THEN 0 ELSE IF 2 * (Uint32 - r) < Uint32 THEN Uint32 - r ELSE -r
    BY <1>1, <1>2, <1>3, <1>4, <1>5 DEF AsInt32
  <1> HIDE DEF c
  <1>7. c \in Int
    BY <1>1, <1>2, <1>6
  <1>8. c <= 0 => ModifyMoney(h, c) <= h /\ ModifyMoney(h, c) \in Nat
    BY <1>1, <1>7 DEF ModifyMoney
  <1>9. c > 0 => ModifyMoney(h, c) <= h + c /\ ModifyMoney(h, c) \in Nat
    BY <1>1, <1>7 DEF ModifyMoney
  <1>10. ASSUME m + Postage < Uint32, h >= r PROVE ModifyMoney(h, c) + m <= h
    <2>1. r = m + Postage /\ 2 * r < Uint32
      BY <1>1, <1>2, <1>10
    <2>2. c = -r
      BY <1>1, <1>2, <1>6, <2>1
    <2>3. ModifyMoney(h, c) = h - r
      BY <1>1, <1>2, <1>10, <2>2 DEF ModifyMoney
    <2> QED BY <1>1, <2>1, <2>3
  <1>11. ModifyMoney(h, c) + m <= h + Uint32
    <2>1. CASE c <= 0
      BY <1>1, <1>8, <2>1
    <2>2. CASE c > 0
      <3>1. c = Uint32 - r /\ 2 * (Uint32 - r) < Uint32
        BY <1>2, <1>6, <2>2
      <3>2. m + Postage < Uint32
        BY <1>1, <1>2, <3>1
      <3>3. r = m + Postage
        BY <1>2, <3>2
      <3> QED BY <1>1, <1>9, <2>2, <3>1, <3>3
    <2> QED BY <1>7, <2>1, <2>2
  <1> QED BY <1>10, <1>11 DEF r, c

LEMMA SendMailBalanced ==
    ASSUME Inv, Balanced, NEW p \in Players, NEW to \in Players, NEW T \in SUBSET Items,
           NEW m \in scenario.sums, NEW cod \in Amounts, HandleSendMail(p, to, T, m, cod), ~astray'
    PROVE  Balanced'
  <1> DEFINE g == ModifyMoney(money[p], Charge(m))
             x == Draft(p, to, T, m, cod, FALSE)
             drafts == <<x>>
             t == Then(Then(DeleteFromInventoryDB(T), SendMailToStmts(drafts)), SaveGoldToDB(p, g))
             e == RunAll(Settled, t)
             paid == m + Postage < Uint32 /\ p \notin scenario.masters
  <1>1. /\ p \in online /\ SendMails(drafts, m_mail) /\ Commit(t) /\ db' = db /\ ~PassesMaximum(Charge(m))
        /\ money[p] >= AsUint32(Postage + m) \/ p \in scenario.masters
    BY DEF HandleSendMail, MailUnchanged, Then, Charge
  <1>2. m \in Nat /\ cod \in Nat /\ p # None /\ m \in 0..(Uint32 - 1) /\ Uint32 \in Nat /\ Postage \in Nat
    BY SumsType, CustodyAssumption
  <1>3. /\ g \in Nat /\ money[p] \in Nat /\ (paid => g + m <= money[p]) /\ g + m <= money[p] + Uint32
    <2>1. money[p] \in 0..(MaxMoney - 1) /\ money[p] \in Nat
      BY <1>1, GoldHeld
    <2>2. Charge(m) \in Int /\ MaxMoney \in Nat
      BY SumsType, CustodyAssumption
    <2>3. Charge(m) <= MaxMoney
      BY <1>1, <2>2 DEF PassesMaximum
    <2>4. g \in 0..(MaxMoney - 1)
      BY <2>1, <2>2, <2>3, ModifyMoneyType
    <2>5. /\ m + Postage < Uint32 /\ money[p] >= AsUint32(Postage + m) => g + m <= money[p]
          /\ g + m <= money[p] + Uint32
      BY <1>2, <2>1, ChargeIs
    <2> QED BY <1>1, <2>1, <2>4, <2>5
  <1>4. Proper(drafts) /\ Worth(drafts, m) /\ drafts[1] = x /\ Len(drafts) = 1
    <2>1. p \in Players \cup {None} /\ FALSE \in BOOLEAN
      OBVIOUS
    <2>2. x \in DraftMail /\ x.items = T /\ x.row.sender = p /\ x.row.money = m
      BY <1>2, <2>1 DEF Draft, DraftMail, MailRow
    <2> HIDE DEF x
    <2>3. Proper(drafts)
      BY <1>2, <2>2, ProperOne
    <2>4. Len(drafts) = 1 /\ drafts[1] = x
      OBVIOUS
    <2> HIDE DEF drafts
    <2> QED BY <2>2, <2>3, <2>4 DEF Worth
  <1>5. x.row \in MailRow /\ x.row.sender = p /\ x.row.money = m /\ ~x.row.returned /\ x.row # None
    <2>1. p \in Players \cup {None} /\ FALSE \in BOOLEAN
      OBVIOUS
    <2>2. x.row \in MailRow /\ x.row.sender = p /\ x.row.money = m /\ ~x.row.returned
      BY <1>2, <2>1 DEF Draft, MailRow
    <2> HIDE DEF x
    <2> QED BY <2>2, NullAssumption
  <1>6. NewMails(drafts) \in SentMails
    BY <1>1, <1>4, SentDrafts
  <1>7. Settled \in Tables
    BY SettledFree
  <1>8. Yields(Settled, t, e) /\ t = Then(Then(DeleteFromInventoryDB(T), SendMailToStmts(drafts)), SaveGoldToDB(p, g))
    BY DEF Yields
  <1> HIDE DEF g, x, drafts, t, e
  <1>9. t \in Seq(Statement) /\ e \in Tables /\ Sent(Settled, e, T, NewMails(drafts), p, g)
    BY <1>3, <1>6, <1>7, <1>8, SendDb
  <1>10. Posted(Settled, e, NewMails(drafts)) /\ Pays(Settled, e, p, g) /\ e.auctionhouse = Settled.auctionhouse
    BY <1>9 DEF Sent
  <1>11. Post(e) = Post(Settled) + m
    BY <1>1, <1>4, <1>10, PostedWorth
  <1>12. Post(Settled) \in Nat
    BY <1>7, GoldType
  <1>13. m \in Int /\ Post(e) <= Post(Settled) + m
    BY <1>2, <1>11, <1>12
  <1>14. CASE paid
    <2>1. g + m <= money[p]
      BY <1>3, <1>14
    <2> HIDE DEF paid
    <2> QED BY <1>1, <1>3, <1>8, <1>9, <1>10, <1>13, <2>1, PaysBalanced
  <1>15. CASE ~paid
    <2>1. mailId \in Nat /\ mailId + 1 \in MailIds /\ MaxMails \in Nat
      BY <1>1, <1>4, CustodyAssumption DEF SendMails, Inv, Types, MailIds
    <2>2. Settled.mail[mailId + 1] = None
      BY <2>1, SettledFree DEF Free
    <2>3. mailId + 1 \in DOMAIN NewMails(drafts) /\ NewMails(drafts)[mailId + 1] = x
      BY <1>4, <2>1 DEF NewMails
    <2>4. e.mail[mailId + 1] = x.row
      BY <1>10, <2>1, <2>3 DEF Posted
    <2>5. m + Postage >= Uint32 \/ p \in scenario.masters
      BY <1>2, <1>15
    <2>6. Unpaid(x.row)
      BY <1>2, <1>5, <2>5 DEF Unpaid
    <2>7. mailId + 1 \in UnpaidMails(Settled, e)
      BY <1>5, <2>1, <2>2, <2>4, <2>6 DEF UnpaidMails
    <2>8. g + m <= money[p] + Uint32
      BY <1>3
    <2> HIDE DEF paid
    <2> QED BY <1>1, <1>3, <1>8, <1>9, <1>10, <1>13, <2>7, <2>8, UnpaidBalanced
  <1> QED BY <1>14, <1>15

(* Mails are deleted with the rest of what is saved. *)
LEMMA SweptPost ==
    ASSUME NEW d, NEW e, NEW D, NEW L, NEW R \in Rows, Sweeps(d, e, D, L, R)
    PROVE  Post(e) <= PostOf(R) /\ e.auctionhouse = d.auctionhouse
  <1>1. e.mail = Put(R, D, None)
    BY DEF Sweeps, Put, Rows
  <1>2. e.auctionhouse = d.auctionhouse
    BY DEF Sweeps
  <1> QED BY <1>1, <1>2, PostLess DEF Post

LEMMA SaveBalanced ==
    ASSUME Inv, Balanced, NEW p \in online, NEW t, t = SaveToDB(p), Commit(t), db' = db
    PROVE  Balanced'
  <1> DEFINE e == RunAll(Settled, t)
             D == DeletedMails(p, m_mail)
             L == DeletedItems(p, m_mail)
  <1>1. Yields(Settled, t, e)
    BY DEF Yields
  <1>2. p \in Players /\ money[p] \in Nat
    BY GoldHeld
  <1> HIDE DEF e
  <1>3. t \in Seq(Statement) /\ e \in Tables /\ Sweeps(Settled, e, D, L, Settled.mail) /\ Pays(Settled, e, p, money[p])
    BY <1>1, <1>2, SaveDb
  <1> HIDE DEF D, L
  <1>4. Post(e) <= PostOf(Settled.mail) /\ e.auctionhouse = Settled.auctionhouse
    BY <1>3, SettledFree, SweptPost
  <1>5. Post(Settled) \in Nat
    BY SettledFree, GoldType
  <1>6. 0 \in Int /\ Post(e) <= Post(Settled) + 0 /\ money[p] + 0 <= money[p]
    BY <1>2, <1>4, <1>5 DEF Post
  <1> QED BY <1>1, <1>2, <1>3, <1>4, <1>6, PaysBalanced

LEMMA Earns ==
    ASSUME NEW h \in Nat, NEW x \in Nat, NEW c \in Int, c <= x
    PROVE  ModifyMoney(h, c) <= h + x
  <1>1. CASE c > 0
    BY <1>1 DEF ModifyMoney
  <1>2. CASE ~(c > 0)
    BY <1>2 DEF ModifyMoney
  <1> QED BY <1>1, <1>2

LEMMA TakeMoneyBalanced ==
    ASSUME Inv, Balanced, NEW p \in Players, NEW m \in MailIds, HandleMailTakeMoney(p, m), ~astray'
    PROVE  Balanced'
  <1> DEFINE mail == [m_mail[m] EXCEPT !.row.money = 0]
             box == [m_mail EXCEPT ![m] = mail]
             x == m_mail[m].row.money
             change == AsInt32(x)
             g == ModifyMoney(money[p], change)
             t == Then(Then(SaveGoldToDB(p, g), SaveChanged(m, mail)), SaveDeleted(p, box))
             e == RunAll(Settled, t)
             D == DeletedMails(p, box)
             L == DeletedItems(p, box)
             R == Put(Settled.mail, {m}, mail.row)
  <1>1. m_mail[m] # None /\ p \in loaded /\ Commit(t) /\ db' = db /\ ~PassesMaximum(change)
    BY DEF HandleMailTakeMoney, Readable, MailOf, MailUnchanged, Then
  <1>2. p \in online
    BY <1>1 DEF Inv, Types
  <1>3. m_mail[m] \in Mail /\ Settled.mail[m] = m_mail[m].row /\ Settled.mail[m] # None
    BY <1>1, OpenedMails
  <1>4. /\ mail \in Mail /\ mail.items = m_mail[m].items
        /\ mail.row.sender = m_mail[m].row.sender /\ mail.row.receiver = m_mail[m].row.receiver
        /\ mail.row.returned = m_mail[m].row.returned /\ mail.row.COD = m_mail[m].row.COD
    BY <1>3, EmptiedType
  <1>5. mail.row.money = 0
    BY <1>3 DEF Mail, MailRow
  <1>6. mail.row.COD > 0 => mail.row.sender # None
    BY <1>1, <1>4, OpenedSender
  <1>7. m_mail[m].row \in MailRow /\ mail.row \in MailRow
    BY <1>3, <1>4, MailFields
  <1>8. x \in Nat /\ x \in Int /\ -x \in Int /\ change \in Int /\ change <= MaxMoney /\ change <= x
    <2>1. x \in Nat /\ Uint32 \in Nat /\ MaxMoney \in Nat
      BY <1>7, CustodyAssumption DEF MailRow
    <2> HIDE DEF x
    <2>2. change \in Int /\ change <= x
      BY <2>1 DEF AsInt32
    <2> HIDE DEF change
    <2> QED BY <1>1, <2>1, <2>2 DEF PassesMaximum
  <1>9. MailGold(Settled.mail[m]) = x /\ MailGold(mail.row) = 0
    BY <1>3, <1>5, <1>7, NullAssumption DEF MailGold
  <1>10. box = Put(m_mail, {m}, mail)
    BY BoxIsPut
  <1>11. Yields(Settled, t, e)
    BY DEF Yields
  <1>12. t = Then(Then(SaveGoldToDB(p, g), SaveChanged(m, mail)), SaveDeleted(p, box)) /\ R = Put(Settled.mail, {m}, mail.row)
    OBVIOUS
  <1>13. g = ModifyMoney(money[p], change)
    OBVIOUS
  <1>14. mail.items = m_mail[m].items \ {} /\ {} \subseteq m_mail[m].items
    BY <1>4
  <1> HIDE DEF mail, box, x, change, g, t, e, R
  <1>15. money[p] \in Nat /\ money[p] \in 0..(MaxMoney - 1)
    BY <1>2, GoldHeld
  <1>16. g \in 0..(MaxMoney - 1)
    BY <1>8, <1>13, <1>15, ModifyMoneyType
  <1>17. g <= money[p] + x
    BY <1>8, <1>13, <1>15, Earns
  <1>18. g \in Nat
    BY <1>16
  <1>19. Updated(Settled.mail[m], mail.row) = mail.row
    BY <1>3, <1>4, <1>7, UpdatedIs
  <1>20. MailsOf(Settled, {}, {}, R, loaded) /\ Opened(Settled, box, {}, {}, R, loaded)
    BY <1>1, <1>4, <1>6, <1>10, <1>12, <1>14, MailTaken
  <1>21. Settled \in Tables /\ Settled.mail \in Rows
    BY SettledFree
  <1>22. Inside(Settled, D, {}, L)
    BY <1>20, <1>21, DeletesMails
  <1>23. DeletedItems(p, box) \in SUBSET Items
    BY <1>22 DEF Inside
  <1>24. /\ t \in Seq(Statement) /\ e \in Tables /\ Pays(Settled, e, p, g)
         /\ Sweeps(Settled, e, D, L, R)
    BY <1>3, <1>7, <1>11, <1>12, <1>18, <1>19, <1>21, <1>23, TakeMoneyDb
  <1> HIDE DEF D, L
  <1>25. mail.row \in MailRow \cup {None}
    BY <1>7
  <1>26. R \in Rows /\ PostOf(R) = PostOf(Settled.mail) - MailGold(Settled.mail[m]) + MailGold(mail.row)
    BY <1>12, <1>21, <1>25, PostPut
  <1>27. Post(e) <= PostOf(R) /\ e.auctionhouse = Settled.auctionhouse
    BY <1>24, <1>26, SweptPost
  <1>28. Post(Settled) \in Nat /\ Post(Settled) = PostOf(Settled.mail)
    BY <1>21, GoldType DEF Post
  <1>29. Post(e) \in Nat
    BY <1>24, GoldType
  <1>30. Post(e) <= Post(Settled) + (-x)
    <2> DEFINE old == PostOf(Settled.mail)
    <2>1. PostOf(R) = old - x + 0 /\ old = Post(Settled)
      BY <1>9, <1>26, <1>28
    <2> HIDE DEF old
    <2> QED BY <1>8, <1>27, <1>28, <1>29, <2>1
  <1>31. g + (-x) <= money[p]
    BY <1>8, <1>15, <1>17, <1>18
  <1> DEFINE w == -x
  <1>32. w \in Int /\ Post(e) <= Post(Settled) + w /\ g + w <= money[p]
    BY <1>8, <1>30, <1>31
  <1> HIDE DEF w
  <1> QED BY <1>1, <1>2, <1>11, <1>18, <1>24, <1>27, <1>32, PaysBalanced

(* Rows are deleted before mails are sent. *)
LEMMA FreeLess ==
    ASSUME NEW box \in Rows, NEW last \in Nat, Free(box, last), NEW D
    PROVE  Free(Put(box, D, None), last)
  BY DEF Free, Put, Rows

LEMMA DeliveredWorth ==
    ASSUME Inv, NEW drafts, Proper(drafts), NEW box, SendMails(drafts, box), NEW w, Worth(drafts, w),
           NEW e, NEW D, NEW X, NEW L, NEW R, NEW B,
           Delivers(Settled, e, NewMails(drafts), D, X, L, R), MailsOf(Settled, D, X, R, B)
    PROVE  w \in Nat /\ Post(e) <= PostOf(R) + w
  <1> DEFINE N == NewMails(drafts)
             Q == Put(R, D, None)
  <1>1. R \in Rows /\ \A k \in MailIds : R[k] # Settled.mail[k] => Settled.mail[k] # None
    BY DEF MailsOf, Rows
  <1>2. Free(Settled.mail, mailId) /\ mailId \in Nat
    BY SettledFree DEF Inv, Types
  <1>3. Free(R, mailId)
    BY <1>1, <1>2 DEF Free
  <1>4. Q \in Rows /\ Free(Q, mailId) /\ PostOf(Q) <= PostOf(R)
    BY <1>1, <1>2, <1>3, FreeLess, PostLess
  <1>5. e.mail = [m \in MailIds |-> IF m \in DOMAIN N THEN N[m].row ELSE IF m \in D THEN None ELSE R[m]]
    BY DEF Delivers
  <1>6. \A m \in MailIds : Q[m] = IF m \in D THEN None ELSE R[m]
    BY <1>1 DEF Put, Rows
  <1> HIDE DEF N, Q
  <1>7. e.mail = Mailed(Q, N)
    BY <1>5, <1>6 DEF Mailed
  <1>8. Mailable(Q, drafts)
    BY <1>4, MailsSendable
  <1>9. w \in Nat /\ PostOf(e.mail) = PostOf(Q) + w
    BY <1>7, <1>8, MailedWorth DEF N
  <1>10. PostOf(Q) \in Nat /\ PostOf(R) \in Nat
    BY <1>1, <1>4, PostType
  <1> QED BY <1>4, <1>9, <1>10 DEF Post

LEMMA PaymentWorth ==
    ASSUME NEW p, NEW row
    PROVE  Worth(Payment(p, row), row.COD)
  <1>1. CASE row.COD = 0
    BY <1>1 DEF Payment, Worth
  <1>2. CASE row.COD # 0
    <2> DEFINE x == Draft(p, row.sender, {}, row.COD, 0, TRUE)
    <2>1. x.row.money = row.COD /\ Payment(p, row) = <<x>>
      BY <1>2 DEF Draft, Payment
    <2> HIDE DEF x
    <2> QED BY <2>1 DEF Worth
  <1> QED BY <1>1, <1>2

LEMMA TakenOutGold ==
    ASSUME NEW x \in Mail, NEW i, NEW y, y = TakenOut(x, i)
    PROVE  y.row.money = x.row.money
  BY DEF Mail, MailRow, TakenOut

LEMMA TakeItemBalanced ==
    ASSUME Inv, Balanced, NEW p \in Players, NEW m \in MailIds, NEW i \in Items, HandleMailTakeItem(p, m, i), ~astray'
    PROVE  Balanced'
  <1> DEFINE old == m_mail[m]
             mail == [old EXCEPT !.row.COD = 0, !.items = @ \ {i}]
             box == [m_mail EXCEPT ![m] = mail]
             w == old.row.COD
             g == ModifyMoney(money[p], -w)
             drafts == Payment(p, old.row)
             t == TakeItemStmts(p, m, i, drafts, mail, box, g)
             e == RunAll(Settled, t)
             S == Settled
             N == NewMails(drafts)
             D == DeletedMails(p, box)
             L == DeletedItems(p, box)
             R == Put(S.mail, {m}, mail.row)
  <1>1. /\ m_mail[m] # None /\ p \in loaded /\ i \in m_mail[m].items /\ money[p] >= w
        /\ SendMails(drafts, Kept(p, box)) /\ Commit(t) /\ db' = db
    BY DEF HandleMailTakeItem, Readable, MailOf, MailUnchanged, Payment, TakeItemStmts, Then, DelMailItem
  <1>2. p \in online
    BY <1>1 DEF Inv, Types
  <1>3. m_mail[m] \in Mail /\ S.mail[m] = m_mail[m].row /\ S.mail[m] # None /\ m_mail[m].items = Contents(S, m)
    BY <1>1, OpenedMails
  <1>4. /\ mail \in Mail /\ mail.items = m_mail[m].items \ {i}
        /\ mail.row.sender = m_mail[m].row.sender /\ mail.row.receiver = m_mail[m].row.receiver
        /\ mail.row.returned = m_mail[m].row.returned /\ mail.row.COD = 0
        /\ mail.row.money = m_mail[m].row.money
    <2>1. mail = TakenOut(old, i) /\ old \in Mail
      BY <1>3 DEF TakenOut
    <2> HIDE DEF mail, old
    <2>2. /\ mail \in Mail /\ mail.items = old.items \ {i}
          /\ mail.row.sender = old.row.sender /\ mail.row.receiver = old.row.receiver
          /\ mail.row.returned = old.row.returned /\ mail.row.COD = 0
      BY <2>1, TakenOutType
    <2>3. mail.row.money = old.row.money
      BY <2>1, TakenOutGold
    <2> QED BY <2>2, <2>3 DEF old
  <1>5. mail.row.COD > 0 => mail.row.sender # None
    BY <1>4
  <1>6. old.row \in MailRow /\ mail.row \in MailRow /\ mail.row # None
    BY <1>3, <1>4, MailFields, NullAssumption
  <1>7. w \in Nat /\ w \in Int /\ -w \in Int /\ -w <= MaxMoney
    BY <1>6, CustodyAssumption DEF MailRow
  <1>8. MailGold(S.mail[m]) = MailGold(mail.row)
    BY <1>3, <1>4, <1>6 DEF MailGold
  <1>9. box = Put(m_mail, {m}, mail)
    BY BoxIsPut
  <1>10. old.row.COD > 0 => old.row.sender # None
    BY <1>1, OpenedSender
  <1>11. Proper(drafts) /\ Carries(drafts) = {} /\ Worth(drafts, w)
    BY <1>6, <1>10, PaymentProper, PaymentWorth
  <1>12. Yields(S, t, e)
    BY DEF Yields
  <1>13. /\ t = TakeItemStmts(p, m, i, drafts, mail, box, g) /\ R = Put(S.mail, {m}, mail.row)
         /\ N = NewMails(drafts) /\ g = ModifyMoney(money[p], -w)
    OBVIOUS
  <1> HIDE DEF old, mail, box, w, g, t, e, R, N, S, drafts
  <1>14. money[p] \in Nat /\ money[p] \in 0..(MaxMoney - 1)
    BY <1>2, GoldHeld
  <1>15. g \in 0..(MaxMoney - 1)
    BY <1>7, <1>13, <1>14, ModifyMoneyType
  <1>16. g <= money[p] - w
    BY <1>1, <1>7, <1>13, <1>14, Spends
  <1>17. g \in Nat
    BY <1>15
  <1>18. S \in Tables /\ S.mail \in Rows
    BY SettledFree DEF S
  <1>19. N \in SentMails /\ Carried(N) = {} /\ \A k \in DOMAIN N : k \in MailIds /\ S.mail[k] = None
    BY <1>1, <1>11, NewIds DEF N, S
  <1>20. Updated(S.mail[m], mail.row) = mail.row
    <2>1. S.mail[m].sender = mail.row.sender /\ S.mail[m].receiver = mail.row.receiver
          /\ S.mail[m].returned = mail.row.returned /\ S.mail[m] \in MailRow
      BY <1>3, <1>4, <1>6 DEF old
    <2> QED BY <1>6, <2>1, UpdatedIs
  <1>21. {i} \subseteq m_mail[m].items
    BY <1>1
  <1>22. MailsOf(S, {}, {i}, R, loaded) /\ Opened(S, box, {}, {i}, R, loaded)
    BY <1>1, <1>4, <1>5, <1>9, <1>13, <1>21, MailTaken DEF S
  <1>23. MailsOf(S, D, {i}, R, loaded) /\ Inside(S, D, {i}, L)
    BY <1>18, <1>22, DeletesMails
  <1>24. DeletedItems(p, box) \in SUBSET Items
    BY <1>23 DEF Inside
  <1>25. \A k \in DOMAIN N : k # m /\ k \notin DeletedMails(p, box)
    BY <1>3, <1>19, <1>23 DEF MailsOf
  <1>26. i \in S.item_instance
    BY <1>1, <1>3 DEF Contents
  <1>27. /\ t \in Seq(Statement) /\ e \in Tables /\ Pays(S, e, p, g)
         /\ e.auctionhouse = S.auctionhouse /\ Delivers(S, e, N, D, {i}, L, R)
    <2>1. /\ NewMails(drafts) \in SentMails /\ Carried(NewMails(drafts)) = {}
          /\ NoneOf(NewMails(drafts), m, DeletedMails(p, box))
      BY <1>19, <1>25 DEF N, NoneOf
    <2>2. /\ S \in Tables /\ mail.row \in MailRow /\ S.mail[m] # None
          /\ i \in S.item_instance /\ g \in Nat
          /\ t = TakeItemStmts(p, m, i, drafts, mail, box, g)
      BY <1>3, <1>6, <1>13, <1>17, <1>18, <1>26
    <2>3. /\ t \in Seq(Statement) /\ e \in Tables
          /\ TookItem(S, e, NewMails(drafts), DeletedMails(p, box), DeletedItems(p, box), p, m, i, mail.row, g)
      BY <1>12, <1>20, <1>24, <2>1, <2>2, TakeItemDb
    <2> QED BY <2>3 DEF N, R, TookItem
  <1> HIDE DEF D, L
  <1>28. Post(e) <= PostOf(R) + w
    <2>1. Delivers(Settled, e, NewMails(drafts), D, {i}, L, R) /\ MailsOf(Settled, D, {i}, R, loaded)
      BY <1>23, <1>27 DEF S, N
    <2> QED BY <1>1, <1>11, <2>1, DeliveredWorth
  <1>29. mail.row \in MailRow \cup {None} /\ S.mail[m] \in MailRow \cup {None}
    BY <1>6, <1>18 DEF Rows
  <1>30. PostOf(R) = PostOf(S.mail) - MailGold(S.mail[m]) + MailGold(mail.row)
    BY <1>13, <1>18, <1>29, PostPut
  <1>31. PostOf(R) = Post(S)
    <2> DEFINE x == MailGold(mail.row)
               y == PostOf(S.mail)
    <2>1. x \in Nat /\ y \in Nat /\ PostOf(R) = y - x + x
      BY <1>8, <1>18, <1>29, <1>30, MailGoldType, PostType
    <2>2. y = Post(S)
      BY DEF Post
    <2> HIDE DEF x, y
    <2> QED BY <2>1, <2>2
  <1>32. Post(e) <= Post(S) + w /\ g + w <= money[p]
    BY <1>7, <1>14, <1>16, <1>17, <1>28, <1>31
  <1> QED BY <1>1, <1>2, <1>7, <1>12, <1>17, <1>27, <1>32, PaysBalanced DEF S

LEMMA ReturnedWorth ==
    ASSUME NEW p, NEW mail, mail.row.money \in Nat
    PROVE  \E w \in Nat : w <= mail.row.money /\ Worth(Returned(p, mail), w)
  <1>1. CASE mail.row.sender = None
    <2>1. Worth(Returned(p, mail), 0)
      BY <1>1 DEF Returned, Worth
    <2> QED BY <2>1
  <1>2. CASE mail.row.sender # None
    <2> DEFINE x == Draft(p, mail.row.sender, mail.items, mail.row.money, 0, TRUE)
    <2>1. x.row.money = mail.row.money /\ Returned(p, mail) = <<x>>
      BY <1>2 DEF Draft, Returned
    <2> HIDE DEF x
    <2>2. Worth(Returned(p, mail), mail.row.money)
      BY <2>1 DEF Worth
    <2> QED BY <2>2
  <1> QED BY <1>1, <1>2

LEMMA ReturnBalanced ==
    ASSUME Inv, Balanced, NEW p \in Players, NEW m \in MailIds, HandleMailReturnToSender(p, m)
    PROVE  Balanced'
  <1> DEFINE mail == m_mail[m]
             drafts == Returned(p, mail)
             box == [m_mail EXCEPT ![m] = None]
             t == Then(DelMail(m), SendMailToStmts(drafts))
             e == RunAll(Settled, t)
             S == Settled
             Q == Put(S.mail, {m}, None)
             x == mail.row.money
  <1>1. m_mail[m] # None /\ SendMails(drafts, box) /\ Commit(t) /\ db' = db
    BY DEF HandleMailReturnToSender, Readable, MailOf, Returned, Then, DelMail, MailUnchanged
  <1>2. mail \in Mail /\ S.mail[m] = mail.row /\ S.mail[m] # None
    BY <1>1, OpenedMails
  <1>3. mail.row \in MailRow
    BY <1>2, MailFields
  <1>4. x \in Nat /\ MailGold(S.mail[m]) = x
    BY <1>2, <1>3 DEF MailRow, MailGold
  <1>5. Proper(drafts)
    BY <1>2, ReturnedProper
  <1>6. PICK w \in Nat : w <= x /\ Worth(drafts, w)
    BY <1>4, ReturnedWorth
  <1>7. Yields(S, t, e) /\ t = Then(DelMail(m), SendMailToStmts(drafts)) /\ Q = Put(S.mail, {m}, None)
    BY DEF Yields
  <1> HIDE DEF mail, drafts, box, t, e, S, Q, x
  <1>8. S \in Tables /\ S.mail \in Rows /\ Free(S.mail, mailId) /\ mailId \in Nat
    BY SettledFree DEF S, Inv, Types
  <1>9. NewMails(drafts) \in SentMails
    BY <1>1, <1>5, NewIds
  <1>10. DelMail(m) \in Seq(Statement) /\ SendMailToStmts(drafts) \in Seq(Statement)
    <2>1. Yields(S, DelMail(m), RunAll(S, DelMail(m)))
      BY DEF Yields
    <2> QED BY <1>8, <1>9, <2>1, DelMailYields, MailStmts
  <1>11. t \in Seq(Statement) /\ \E f : Yields(S, DelMail(m), f) /\ Yields(f, SendMailToStmts(drafts), e)
    BY <1>7, <1>10, YieldsThen
  <1>12. PICK f : Yields(S, DelMail(m), f) /\ Yields(f, SendMailToStmts(drafts), e)
    BY <1>11
  <1>13. f \in Tables /\ Swept(S, f, {m}, {})
    BY <1>8, <1>12, DelMailYields
  <1>14. e \in Tables /\ OnlyMails(f, e, NewMails(drafts))
    BY <1>9, <1>12, <1>13, MailYields
  <1>15. f.mail = Q /\ f.money = S.money /\ f.auctionhouse = S.auctionhouse
    BY <1>7, <1>13 DEF Swept
  <1>16. e.mail = Mailed(Q, NewMails(drafts)) /\ e.money = S.money /\ e.auctionhouse = S.auctionhouse
    BY <1>14, <1>15 DEF OnlyMails, Posted, Mailed
  <1>17. None \in MailRow \cup {None}
    OBVIOUS
  <1>18. Q \in Rows /\ PostOf(Q) = PostOf(S.mail) - MailGold(S.mail[m]) + MailGold(None)
    BY <1>7, <1>8, <1>17, PostPut
  <1>19. Free(Q, mailId)
    BY <1>7, <1>8, FreeLess
  <1>20. Mailable(Q, drafts)
    BY <1>1, <1>5, <1>18, <1>19, MailsSendable
  <1>21. PostOf(Mailed(Q, NewMails(drafts))) = PostOf(Q) + w
    BY <1>6, <1>20, MailedWorth
  <1>22. Post(S) = PostOf(S.mail) /\ Post(e) = PostOf(Q) + w /\ Purse(e) = Purse(S) /\ House(e) = House(S)
    BY <1>16, <1>21 DEF Post, Purse, House
  <1>23. PostOf(Q) = Post(S) - x + 0
    <2>1. MailGold(None) = 0
      BY DEF MailGold
    <2> QED BY <1>4, <1>18, <1>22, <2>1
  <1>24. Purse(S) \in Nat /\ Post(S) \in Nat /\ House(S) \in Nat
    BY <1>8, GoldType
  <1>25. Purse(e) + Post(e) + House(e) <= Purse(S) + Post(S) + House(S)
    BY <1>4, <1>6, <1>22, <1>23, <1>24
  <1>26. Fair(S, e)
    BY <1>8, <1>14, <1>25, FairLess
  <1> QED BY <1>1, <1>7, <1>11, <1>14, <1>26, CommitBalanced DEF S

LEMMA CompletesBalanced ==
    ASSUME Inv, Balanced, NEW p \in Players, AcceptCompletes(p)
    PROVE  Balanced'
  <1> DEFINE q == Trader(p)
             P == Offered(p)
             Q == Offered(q)
             g == Paid(p, q)
             h == Paid(q, p)
             t == Then(SaveInventoryAndGoldToDB(p, Q, g), SaveInventoryAndGoldToDB(q, P, h))
             S == Settled
             e == RunAll(S, t)
             purse == Put(S.money, {p}, g)
             a == m_trade[p].money
             b == m_trade[q].money
  <1>1. Commit(t) /\ db' = db
    BY CompletesIs
  <1>2. p \in online /\ q \in online /\ p # q /\ a \in Nat /\ b \in Nat
    BY ReadyToTrade DEF Ready
  <1>3. g \in Nat /\ h \in Nat
    <2>1. g \in 0..(MaxMoney - 1) /\ h \in 0..(MaxMoney - 1)
      BY PaidIs
    <2> HIDE DEF g, h
    <2> QED BY <2>1
  <1>4. g = money[p] - a + b /\ h = money[q] - b + a
    BY PaidIs
  <1>5. /\ p \in Players /\ money[p] \in Nat /\ S.money[p] \in Nat /\ money[p] <= S.money[p]
        /\ q \in Players /\ money[q] \in Nat /\ S.money[q] \in Nat /\ money[q] <= S.money[q]
    BY <1>2, GoldHeld
  <1>6. P \in SUBSET Items /\ Q \in SUBSET Items
    BY DEF Offered, Having
  <1>7. S \in Tables
    BY SettledFree
  <1>8. Yields(S, t, e) /\ t = Then(SaveInventoryAndGoldToDB(p, Q, g), SaveInventoryAndGoldToDB(q, P, h))
    BY DEF Yields
  <1>9. purse = Put(S.money, {p}, g)
    OBVIOUS
  <1> HIDE DEF q, P, Q, g, h, t, e, S, purse, a, b
  <1>10. t \in Seq(Statement) /\ e \in Tables /\ Traded(S, e, p, q, P, Q, g, h)
    BY <1>3, <1>5, <1>6, <1>7, <1>8, TradeDb
  <1>11. S.money \in [Players -> Nat]
    BY <1>7, TablesFields
  <1>12. purse \in [Players -> Nat] /\ SumFunction(purse) = SumFunction(S.money) - S.money[p] + g
    BY <1>3, <1>9, <1>11, PursePut
  <1>13. purse[q] = S.money[q]
    BY <1>2, <1>5, <1>9, <1>11 DEF Put
  <1>14. SumFunction(Put(purse, {q}, h)) = SumFunction(purse) - purse[q] + h
    BY <1>3, <1>5, <1>12, PursePut
  <1>15. e.money = Put(purse, {q}, h) /\ e.mail = S.mail /\ e.auctionhouse = S.auctionhouse
    BY <1>9, <1>10 DEF Traded
  <1>16. Post(e) = Post(S) /\ House(e) = House(S) /\ Purse(S) = SumFunction(S.money) /\ Purse(e) = SumFunction(purse) - S.money[q] + h
    BY <1>13, <1>14, <1>15 DEF Post, House, Purse
  <1>17. Purse(S) \in Nat /\ Post(S) \in Nat /\ House(S) \in Nat
    BY <1>7, GoldType
  <1>18. Purse(e) <= Purse(S)
    <2> DEFINE hp == S.money[p]
               hq == S.money[q]
               mp == money[p]
               mq == money[q]
               s == SumFunction(purse)
    <2>1. s = Purse(S) - hp + g /\ Purse(e) = s - hq + h
      BY <1>12, <1>16
    <2>2. /\ hp \in Nat /\ hq \in Nat /\ mp \in Nat /\ mq \in Nat /\ mp <= hp /\ mq <= hq
          /\ g = mp - a + b /\ h = mq - b + a
      BY <1>4, <1>5
    <2> HIDE DEF hp, hq, mp, mq, s
    <2> QED BY <1>2, <1>17, <2>1, <2>2
  <1>19. Purse(e) \in Nat
    BY <1>10, GoldType
  <1>20. Purse(e) + Post(e) + House(e) <= Purse(S) + Post(S) + House(S)
    BY <1>16, <1>17, <1>18, <1>19
  <1>21. Fair(S, e)
    BY <1>7, <1>10, <1>20, FairLess
  <1> QED BY <1>1, <1>8, <1>10, <1>21, CommitBalanced DEF S

(* Only mails change, and none is worth more. *)
LEMMA FairMails ==
    ASSUME NEW d \in Tables, NEW e \in Tables, e.money = d.money, e.auctionhouse = d.auctionhouse,
           Post(e) <= Post(d)
    PROVE  Fair(d, e)
  <1>1. Purse(e) = Purse(d) /\ House(e) = House(d)
    BY DEF Purse, House
  <1>2. Purse(d) \in Nat /\ Post(d) \in Nat /\ House(d) \in Nat
    BY GoldType
  <1>3. Post(e) \in Nat
    BY GoldType
  <1>4. Purse(e) + Post(e) + House(e) <= Purse(d) + Post(d) + House(d)
    BY <1>1, <1>2, <1>3
  <1> QED BY <1>4, FairLess

(* The timer's statements are queued behind the others. *)
LEMMA JoinedBalanced ==
    ASSUME Balanced, NEW r, Joined(queue', queue, r), db' = db, scenario' = scenario, NEW S, S = Settled,
           \A k \in 1..Len(r) : Fair(After(S, r)[k - 1], After(S, r)[k])
    PROVE  Balanced'
  <1> DEFINE n == Len(queue)
             l == Len(r)
             g == After(db, queue)
             f == After(S, r)
             h == After(db', queue')
  <1>1. n \in Nat /\ l \in Nat /\ Len(queue') = n + l
    BY DEF Joined
  <1>2. S = g[n]
    BY DEF Settled
  <1>3. (\A k \in 0..n : h[k] = g[k]) /\ (\A k \in 0..l : h[n + k] = f[k])
    BY <1>2, AfterJoined
  <1>4. (\A k \in 1..n : Fair(g[k - 1], g[k])) /\ (\A k \in 1..l : Fair(f[k - 1], f[k]))
    BY DEF Balanced
  <1> HIDE DEF n, l, g, f, h
  <1>5. ASSUME NEW k \in 1..(n + l) PROVE Fair(h[k - 1], h[k])
    <2>1. CASE k \in 1..n
      <3>1. k \in 0..n /\ k - 1 \in 0..n
        BY <1>1, <2>1
      <3>2. h[k] = g[k] /\ h[k - 1] = g[k - 1]
        BY <1>3, <3>1
      <3> QED BY <1>4, <2>1, <3>2
    <2>2. CASE k \notin 1..n
      <3> DEFINE j == k - n
      <3>1. j \in 1..l /\ j \in 0..l /\ j - 1 \in 0..l /\ n + j = k /\ n + (j - 1) = k - 1
        BY <1>1, <2>2
      <3> HIDE DEF j
      <3>2. h[n + j] = f[j] /\ h[n + (j - 1)] = f[j - 1]
        BY <1>3, <3>1
      <3>3. h[k] = f[j] /\ h[k - 1] = f[j - 1]
        BY <3>1, <3>2
      <3> QED BY <1>4, <3>1, <3>3
    <2> QED BY <2>1, <2>2
  <1>6. \A k \in 1..Len(queue') : Fair(h[k - 1], h[k])
    BY <1>1, <1>5
  <1> QED BY <1>6, BalancedNext DEF h

LEMMA AloneBalanced ==
    ASSUME Inv, Balanced, NEW m \in MailIds, NEW stmts \in Seq(Statement), OldMail(m, stmts), NEW S, S = Settled,
           \A k \in 1..Len(stmts) : Fair(After(S, Alone(stmts))[k - 1], After(S, Alone(stmts))[k])
    PROVE  Balanced'
  <1> DEFINE r == Alone(stmts)
  <1>1. Joined(queue', queue, r) /\ Len(r) = Len(stmts)
    BY AloneJoined
  <1>2. db' = db /\ scenario' = scenario
    BY DEF OldMail, OldMailUnchanged
  <1>3. \A k \in 1..Len(r) : Fair(After(S, r)[k - 1], After(S, r)[k])
    BY <1>1
  <1> HIDE DEF r
  <1> QED BY <1>1, <1>2, <1>3, JoinedBalanced

LEMMA ReturnedGold ==
    ASSUME NEW r \in MailRow, r.sender \in Players, NEW b, b = ReturnedRow(r, r)
    PROVE  b \in MailRow /\ b.money = r.money
  BY DEF ReturnedRow, MailRow

LEMMA ReturnedFair ==
    ASSUME NEW d \in Tables, NEW m \in MailIds, d.mail[m] # None, d.mail[m].sender # None,
           NEW s, s = ReturnStmt(m, d.mail[m]), NEW t \in Seq(Statement), Len(t) = 1, t[1] = s
    PROVE  \A k \in 1..Len(t) : Fair(After(d, Alone(t))[k - 1], After(d, Alone(t))[k])
  <1> DEFINE r == d.mail[m]
             g == After(d, Alone(t))
             e == Run(d, s)
             b == ReturnedRow(r, r)
  <1>2. r # None /\ r \in MailRow /\ d.mail \in Rows
    BY TablesFields DEF Rows
  <1>3. r.sender \in Players
    BY <1>2 DEF MailRow
  <1>5. s = [stmt |-> "UPD_MAIL_RETURNED", id |-> m, row |-> r]
    BY DEF ReturnStmt
  <1>7. b \in MailRow /\ b.money = r.money
    BY <1>2, <1>3, ReturnedGold
  <1>10. g[0] = d /\ g[1] = e
    BY AfterOne
  <1> HIDE DEF g
  <1>11. e \in Tables /\ e.mail = Put(d.mail, {m}, b) /\ e.money = d.money /\ e.auctionhouse = d.auctionhouse
    BY <1>2, <1>3, <1>5, RunMailReturned, ZenonT(60)
  <1>12. b \in MailRow \cup {None} /\ MailGold(d.mail[m]) = MailGold(b)
    BY <1>2, <1>7, NullAssumption DEF MailGold
  <1> HIDE DEF e, b
  <1>13. PostOf(Put(d.mail, {m}, b)) = PostOf(d.mail) - MailGold(d.mail[m]) + MailGold(b)
    BY <1>2, <1>12, PostPut
  <1>14. Post(e) <= Post(d)
    <2> DEFINE x == MailGold(b)
               y == PostOf(d.mail)
    <2>1. x \in Nat /\ y \in Nat
      BY <1>2, <1>12, MailGoldType, PostType
    <2>2. Post(e) = y - x + x /\ Post(d) = y
      BY <1>11, <1>12, <1>13 DEF Post
    <2> HIDE DEF x, y
    <2> QED BY <2>1, <2>2
  <1>15. Fair(d, e)
    BY <1>11, <1>14, FairMails
  <1>16. \A k \in 1..Len(t) : Fair(g[k - 1], g[k])
    <2> SUFFICES ASSUME NEW k \in 1..Len(t) PROVE Fair(g[k - 1], g[k])
      OBVIOUS
    <2>1. k - 1 = 0 /\ k = 1
      OBVIOUS
    <2> QED BY <1>10, <1>15, <2>1
  <1> QED BY <1>16 DEF g

LEMMA OldMailReturnedBalanced ==
    ASSUME Inv, Balanced, NEW m \in MailIds, NEW S, S = Settled, OldMail(m, <<ReturnStmt(m, S.mail[m])>>),
           S.mail[m].sender # None
    PROVE  Balanced'
  <1> DEFINE r == S.mail[m]
             s == ReturnStmt(m, r)
             t == <<s>>
  <1>1. S \in Tables /\ r # None /\ OldMail(m, t)
    BY SettledFree DEF OldMail
  <1>2. r \in MailRow
    BY <1>1, TablesFields
  <1>3. s \in Statement
    BY <1>2 DEF Statement, ReturnStmt, MailRow
  <1>4. s = ReturnStmt(m, S.mail[m])
    OBVIOUS
  <1> HIDE DEF s
  <1>5. t \in Seq(Statement) /\ Len(t) = 1 /\ t[1] = s
    BY <1>3
  <1> HIDE DEF t
  <1>6. \A k \in 1..Len(t) : Fair(After(S, Alone(t))[k - 1], After(S, Alone(t))[k])
    BY <1>1, <1>4, <1>5, ReturnedFair
  <1> QED BY <1>1, <1>5, <1>6, AloneBalanced

LEMMA DeletedFair ==
    ASSUME NEW S \in Tables, NEW m \in MailIds, NEW X, X = Contents(S, m), NEW t, t = DeleteStmts(m, X)
    PROVE  /\ t \in Seq(Statement)
           /\ \A k \in 1..Len(t) : Fair(After(S, Alone(t))[k - 1], After(S, Alone(t))[k])
  <1> DEFINE n == Cardinality(X)
             g == After(S, Alone(t))
             D == {m}
  <1>2. X \in SUBSET Items
    BY DEF Contents, MailedIn
  <1>4. n = Cardinality(X) /\ t = DeleteStmts(m, X) /\ g = After(S, Alone(t)) /\ D = {m}
    OBVIOUS
  <1> HIDE DEF n, g, D
  <1>5. t \in Seq(Statement) /\ Len(t) = n + 1
    BY <1>2, <1>4, DeleteStmtsIs
  <1>6. g = After(S, Alone(DeleteStmts(m, X)))
    BY <1>4
  <1>7. Deleting(S, g, m, X, n)
    BY <1>2, <1>4, <1>6, DeletedSteps
  <1>8. /\ n \in Nat
        /\ \A k \in 0..n : g[k] \in Tables /\ g[k].mail = S.mail /\ g[k].money = S.money /\ g[k].auctionhouse = S.auctionhouse
        /\ g[n + 1] \in Tables /\ g[n + 1].mail = Put(S.mail, D, None)
        /\ g[n + 1].money = S.money /\ g[n + 1].auctionhouse = S.auctionhouse
    BY <1>4, <1>7 DEF Deleting, Shrunk
  <1>9. S.mail \in Rows
    BY TablesFields DEF Rows
  <1>10. Post(g[n + 1]) <= Post(S) /\ \A k \in 0..n : Post(g[k]) = Post(S)
    BY <1>8, <1>9, PostLess DEF Post
  <1>11. Post(S) \in Nat
    BY GoldType
  <1>12. \A k \in 1..Len(t) : Fair(g[k - 1], g[k])
    <2> SUFFICES ASSUME NEW k \in 1..(n + 1) PROVE Fair(g[k - 1], g[k])
      BY <1>5
    <2>1. k - 1 \in 0..n
      BY <1>8
    <2>2. k = n + 1 \/ k \in 0..n
      BY <1>8
    <2>3. g[k] \in Tables /\ g[k].money = S.money /\ g[k].auctionhouse = S.auctionhouse /\ Post(g[k]) <= Post(S)
      BY <1>8, <1>10, <1>11, <2>2
    <2>4. g[k - 1] \in Tables /\ g[k - 1].money = S.money /\ g[k - 1].auctionhouse = S.auctionhouse
          /\ Post(g[k - 1]) = Post(S)
      BY <1>8, <1>10, <2>1
    <2> DEFINE d == g[k - 1]
               e == g[k]
    <2>5. d \in Tables /\ e \in Tables /\ e.money = d.money /\ e.auctionhouse = d.auctionhouse /\ Post(e) <= Post(d)
      BY <2>3, <2>4
    <2> HIDE DEF d, e
    <2>6. Fair(d, e)
      BY <2>5, FairMails
    <2> QED BY <2>6 DEF d, e
  <1> QED BY <1>5, <1>12 DEF g

LEMMA OldMailDeletedBalanced ==
    ASSUME Inv, Balanced, NEW m \in MailIds, NEW S, S = Settled, OldMail(m, DeleteStmts(m, Contents(S, m)))
    PROVE  Balanced'
  <1> DEFINE X == Contents(S, m)
             t == DeleteStmts(m, X)
  <1>1. S \in Tables /\ OldMail(m, t)
    BY SettledFree
  <1>2. X = Contents(S, m) /\ t = DeleteStmts(m, X)
    OBVIOUS
  <1> HIDE DEF X, t
  <1>3. /\ t \in Seq(Statement)
        /\ \A k \in 1..Len(t) : Fair(After(S, Alone(t))[k - 1], After(S, Alone(t))[k])
    BY <1>1, <1>2, DeletedFair
  <1> QED BY <1>1, <1>3, AloneBalanced

LEMMA OldMailBalanced ==
    ASSUME Inv, Balanced, NEW m \in MailIds, ReturnOrDeleteOldMails(m), ~astray'
    PROVE  Balanced'
  BY OldMailIs, OldMailReturnedBalanced, OldMailDeletedBalanced

(* The step keeps the books. *)
Booked == Balanced' /\ Restart' /\ (db' = db \/ Fair(db, db'))

LEMMA QuietBooked ==
    ASSUME Balanced, Restart, db' = db, queue' = queue, scenario' = scenario,
           up' \/ (up' = up /\ unsent' = unsent)
    PROVE  Booked
  <1>1. Balanced'
    BY SameBalanced
  <1>2. Settled' = Settled
    BY DEF Settled
  <1>3. CASE up'
    BY <1>1, <1>3 DEF Booked, Restart
  <1>4. CASE up' = up /\ unsent' = unsent
    <2>1. Restart'
      BY <1>2, <1>4 DEF Restart
    <2> QED BY <1>1, <2>1 DEF Booked
  <1> QED BY <1>3, <1>4

(* While the world runs, startup has nothing left to settle. *)
LEMMA UpBooked ==
    ASSUME Balanced', up', db' = db
    PROVE  Booked
  BY DEF Booked, Restart

LEMMA PlayerUp ==
    ASSUME Inv
    PROVE  (\A p \in online : up) /\ (\A p \in loaded : up)
  BY DEF Inv, Memory, Types

LEMMA TradeBooked ==
    ASSUME Balanced, Restart, TradeUnchanged
    PROVE  Booked
  BY QuietBooked DEF TradeUnchanged

LEMMA CompletesBooked ==
    ASSUME Inv, Balanced, NEW p \in Players, AcceptCompletes(p)
    PROVE  Booked
  <1>1. p \in online
    BY ReadyToTrade
  <1>2. up' = up /\ db' = db
    BY DEF AcceptCompletes
  <1>3. up'
    BY <1>1, <1>2, PlayerUp
  <1> QED BY <1>2, <1>3, CompletesBalanced, UpBooked

LEMMA AuctionBooked ==
    ASSUME Inv, Balanced, NEW p \in Players, NEW i \in Items,
           \/ \E b \in Buyouts : HandleAuctionSellItem(p, i, b)
           \/ \E g \in Bids : PlaceBid(p, i, g) \/ Buyout(p, i, g)
           \/ HandleAuctionRemoveItem(p, i)
    PROVE  Booked
  <1>1. Balanced'
    BY SellBalanced, PlaceBidBalanced, BuyoutBalanced, RemoveBalanced
  <1>2. p \in online /\ up' = up /\ db' = db
    BY DEF HandleAuctionSellItem, PlaceBid, Buyout, HandleAuctionRemoveItem, MayBid, AuctionUnchanged
  <1>3. up'
    BY <1>2, PlayerUp
  <1> QED BY <1>1, <1>2, <1>3, UpBooked

LEMMA ExpiresBooked ==
    ASSUME Inv, Balanced, NEW i \in Items, AuctionExpires(i)
    PROVE  Booked
  <1>1. up' /\ db' = db
    BY DEF AuctionExpires, AuctionUnchanged
  <1> QED BY <1>1, ExpiresBalanced, UpBooked

LEMMA StartupBooked ==
    ASSUME Inv, Balanced, Restart, NEW i \in Items, DeleteExpiredAuctionsAtStartup(i)
    PROVE  Booked
  <1>1. db' = db
    BY DEF DeleteExpiredAuctionsAtStartup
  <1> QED BY <1>1, StartupBalanced DEF Booked

LEMMA SendMailBooked ==
    ASSUME Inv, Balanced, NEW p \in Players, NEW to \in Players, NEW T \in SUBSET Items,
           NEW m \in scenario.sums, NEW cod \in Amounts, HandleSendMail(p, to, T, m, cod), ~astray'
    PROVE  Booked
  <1>1. p \in online /\ up' = up /\ db' = db
    BY DEF HandleSendMail, MailUnchanged
  <1>2. up'
    BY <1>1, PlayerUp
  <1> QED BY <1>1, <1>2, SendMailBalanced, UpBooked

LEMMA MailBooked ==
    ASSUME Inv, Balanced, NEW p \in Players, NEW m \in MailIds,
           \/ HandleMailTakeMoney(p, m) \/ HandleMailReturnToSender(p, m)
           \/ \E i \in Items : HandleMailTakeItem(p, m, i),
           ~astray'
    PROVE  Booked
  <1>1. Balanced'
    BY TakeMoneyBalanced, ReturnBalanced, TakeItemBalanced
  <1>2. p \in loaded /\ up' = up /\ db' = db
    BY DEF HandleMailTakeMoney, HandleMailReturnToSender, HandleMailTakeItem, Readable, MailOf, MailUnchanged
  <1>3. up'
    BY <1>2, PlayerUp
  <1> QED BY <1>1, <1>2, <1>3, UpBooked

LEMMA MarkBooked ==
    ASSUME Balanced, Restart, NEW p \in Players, NEW m \in MailIds,
           HandleMailDelete(p, m) \/ HandleMailMarkAsRead(p, m)
    PROVE  Booked
  <1>1. db' = db /\ queue' = queue /\ up' = up /\ unsent' = unsent /\ scenario' = scenario
    BY DEF HandleMailDelete, HandleMailMarkAsRead, MailUnchanged
  <1> QED BY <1>1, QuietBooked

LEMMA LeavesBooked ==
    ASSUME Inv, Balanced, NEW p \in Players, PlayerSaves(p) \/ LogoutPlayer(p)
    PROVE  Booked
  <1> DEFINE t == SaveToDB(p)
  <1>1. p \in online /\ up' = up /\ db' = db /\ Commit(t) /\ t = SaveToDB(p)
    BY DEF PlayerSaves, LogoutPlayer, MailUnchanged
  <1> HIDE DEF t
  <1>2. Balanced'
    BY <1>1, SaveBalanced
  <1>3. up'
    BY <1>1, PlayerUp
  <1> QED BY <1>1, <1>2, <1>3, UpBooked

LEMMA EntersBooked ==
    ASSUME Inv, Balanced, Restart, NEW p \in Players, HandleGetMailList(p) \/ HandlePlayerLogin(p)
    PROVE  Booked
  <1>1. CASE HandleGetMailList(p)
    <2>1. db' = db /\ queue' = queue /\ up' = up /\ unsent' = unsent /\ scenario' = scenario
      BY <1>1 DEF HandleGetMailList
    <2> QED BY <2>1, QuietBooked
  <1>2. CASE HandlePlayerLogin(p)
    <2>1. up' /\ db' = db
      BY <1>2 DEF HandlePlayerLogin
    <2> QED BY <1>2, <2>1, LoginBalanced, UpBooked
  <1> QED BY <1>1, <1>2

LEMMA OldMailBooked ==
    ASSUME Inv, Balanced, NEW m \in MailIds, ReturnOrDeleteOldMails(m), ~astray'
    PROVE  Booked
  <1>1. up' /\ db' = db
    BY DEF ReturnOrDeleteOldMails
  <1> QED BY <1>1, OldMailBalanced, UpBooked

LEMMA CrashBooked ==
    ASSUME Crash
    PROVE  Booked
  <1>1. queue' = <<>> /\ db' = db
    BY DEF Crash
  <1>2. Len(queue') = 0 /\ \A k \in 0..Len(queue') : k = Len(queue')
    BY <1>1
  <1>3. Restart'
    BY <1>2 DEF Restart, Settled
  <1> QED BY <1>1, <1>3, EmptyBalanced DEF Booked

LEMMA SystemBooked ==
    ASSUME Inv, Balanced, Restart, DbExecute \/ Crash \/ LoadAuctions \/ UNCHANGED vars
    PROVE  Booked
  <1>1. CASE DbExecute
    BY <1>1, ExecuteBalanced, ExecuteRestart DEF Booked
  <1>2. CASE Crash
    BY <1>2, CrashBooked
  <1>3. CASE LoadAuctions
    <2>1. db' = db /\ queue' = queue /\ up' /\ scenario' = scenario
      BY <1>3 DEF LoadAuctions
    <2> QED BY <2>1, QuietBooked
  <1>4. CASE UNCHANGED vars
    <2>1. db' = db /\ queue' = queue /\ up' = up /\ unsent' = unsent /\ scenario' = scenario
      BY <1>4 DEF vars
    <2> QED BY <2>1, QuietBooked
  <1> QED BY <1>1, <1>2, <1>3, <1>4

LEMMA StepBooked ==
    ASSUME Inv, Balanced, Restart, [Next]_vars, ~astray'
    PROVE  Booked
  <1>1. ASSUME NEW p \in Players, NEW q \in Players, HandleInitiateTrade(p, q) PROVE Booked
    BY <1>1, TradeBooked DEF HandleInitiateTrade
  <1>2. ASSUME NEW p \in Players, NEW s \in TradeSlots,
               HandleClearTradeItem(p, s) \/ \E i \in Items : HandleSetTradeItem(p, s, i)
        PROVE  Booked
    BY <1>2, TradeBooked DEF HandleClearTradeItem, HandleSetTradeItem
  <1>3. ASSUME NEW p \in Players, NEW g \in Amounts, HandleSetTradeGold(p, g) PROVE Booked
    BY <1>3, TradeBooked DEF HandleSetTradeGold
  <1>4. ASSUME NEW p \in Players,
               \/ HandleUnacceptTrade(p) \/ HandleCancelTrade(p)
               \/ AcceptRefused(p) \/ AcceptFirst(p) \/ AcceptNoSpace(p) \/ AcceptCompletes(p)
        PROVE  Booked
    <2>1. CASE AcceptCompletes(p)
      BY <2>1, CompletesBooked
    <2>2. CASE ~AcceptCompletes(p)
      <3>1. TradeUnchanged
        BY <1>4, <2>2 DEF HandleUnacceptTrade, HandleCancelTrade, AcceptRefused, AcceptFirst, AcceptNoSpace
      <3> QED BY <3>1, TradeBooked
    <2> QED BY <2>1, <2>2
  <1>5. ASSUME NEW p \in Players, NEW i \in Items,
               \/ \E b \in Buyouts : HandleAuctionSellItem(p, i, b)
               \/ \E g \in Bids : PlaceBid(p, i, g) \/ Buyout(p, i, g)
               \/ HandleAuctionRemoveItem(p, i)
        PROVE  Booked
    BY <1>5, AuctionBooked
  <1>6. ASSUME NEW i \in Items, AuctionExpires(i) \/ DeleteExpiredAuctionsAtStartup(i) PROVE Booked
    BY <1>6, ExpiresBooked, StartupBooked
  <1>7. ASSUME NEW p \in Players, NEW to \in Players, NEW T \in SUBSET Items, NEW g \in scenario.sums,
               NEW cod \in Amounts, HandleSendMail(p, to, T, g, cod)
        PROVE  Booked
    BY <1>7, SendMailBooked
  <1>8. ASSUME NEW p \in Players, NEW m \in MailIds,
               \/ HandleMailDelete(p, m) \/ HandleMailMarkAsRead(p, m)
               \/ HandleMailTakeMoney(p, m) \/ HandleMailReturnToSender(p, m)
               \/ \E i \in Items : HandleMailTakeItem(p, m, i)
        PROVE  Booked
    BY <1>8, MarkBooked, MailBooked
  <1>9. ASSUME NEW p \in Players,
               HandleGetMailList(p) \/ PlayerSaves(p) \/ LogoutPlayer(p) \/ HandlePlayerLogin(p)
        PROVE  Booked
    BY <1>9, EntersBooked, LeavesBooked
  <1>10. ASSUME NEW m \in MailIds, ReturnOrDeleteOldMails(m) PROVE Booked
    BY <1>10, OldMailBooked
  <1>11. ASSUME DbExecute \/ Crash \/ LoadAuctions \/ UNCHANGED vars PROVE Booked
    BY <1>11, SystemBooked
  <1> QED BY <1>1, <1>2, <1>3, <1>4, <1>5, <1>6, <1>7, <1>8, <1>9, <1>10, <1>11 DEF Next, Handlers

-----------------------------------------------------------------------------
(* The step that goes astray *)

Strays ==
    \/ \E p, to \in Players, S \in SUBSET Items, g \in scenario.sums, cod \in Amounts :
          HandleSendMail(p, to, S, g, cod)
    \/ \E p \in Players : HandleGetMailList(p)
    \/ \E p \in Players, m \in MailIds : HandleMailTakeMoney(p, m)
    \/ \E p \in Players, m \in MailIds, i \in Items : HandleMailTakeItem(p, m, i)
    \/ \E m \in MailIds : ReturnOrDeleteOldMails(m)
    \/ LoadAuctions

LEMMA StrayIs ==
    ASSUME Next
    PROVE  Strays \/ (astray' = FALSE /\ expired' = expired)
  <1> DEFINE Plain == astray' = astray /\ expired' = expired
  <1>1. ASSUME NEW p \in Players, NEW q \in Players, HandleInitiateTrade(p, q) PROVE Plain
    BY <1>1 DEF HandleInitiateTrade, TradeUnchanged
  <1>2. ASSUME NEW p \in Players, NEW s \in TradeSlots,
               HandleClearTradeItem(p, s) \/ \E i \in Items : HandleSetTradeItem(p, s, i)
        PROVE  Plain
    BY <1>2 DEF HandleClearTradeItem, HandleSetTradeItem, TradeUnchanged
  <1>3. ASSUME NEW p \in Players, NEW g \in Amounts, HandleSetTradeGold(p, g) PROVE Plain
    BY <1>3 DEF HandleSetTradeGold, TradeUnchanged
  <1>4. ASSUME NEW p \in Players,
               \/ HandleUnacceptTrade(p) \/ HandleCancelTrade(p)
               \/ AcceptRefused(p) \/ AcceptFirst(p) \/ AcceptNoSpace(p) \/ AcceptCompletes(p)
        PROVE  Plain
    BY <1>4 DEF HandleUnacceptTrade, HandleCancelTrade, AcceptRefused, AcceptFirst, AcceptNoSpace, AcceptCompletes,
                TradeUnchanged
  <1>5. ASSUME NEW p \in Players, NEW i \in Items,
               \/ \E b \in Buyouts : HandleAuctionSellItem(p, i, b)
               \/ \E g \in Bids : PlaceBid(p, i, g) \/ Buyout(p, i, g)
               \/ HandleAuctionRemoveItem(p, i)
        PROVE  Plain
    BY <1>5 DEF HandleAuctionSellItem, PlaceBid, Buyout, HandleAuctionRemoveItem, AuctionUnchanged
  <1>6. ASSUME NEW i \in Items, AuctionExpires(i) \/ DeleteExpiredAuctionsAtStartup(i) PROVE Plain
    BY <1>6 DEF AuctionExpires, DeleteExpiredAuctionsAtStartup, AuctionUnchanged
  <1>7. ASSUME NEW p \in Players, NEW m \in MailIds,
               HandleMailDelete(p, m) \/ HandleMailMarkAsRead(p, m) \/ HandleMailReturnToSender(p, m)
        PROVE  Plain
    BY <1>7 DEF HandleMailDelete, HandleMailMarkAsRead, HandleMailReturnToSender, MailUnchanged
  <1>8. ASSUME NEW p \in Players, PlayerSaves(p) \/ LogoutPlayer(p) \/ HandlePlayerLogin(p) PROVE Plain
    BY <1>8 DEF PlayerSaves, LogoutPlayer, HandlePlayerLogin, MailUnchanged
  <1>9. ASSUME DbExecute \/ Crash PROVE Plain
    BY <1>9 DEF DbExecute, Crash
  <1> HIDE DEF Plain
  <1>10. Strays \/ Plain
    BY <1>1, <1>2, <1>3, <1>4, <1>5, <1>6, <1>7, <1>8, <1>9 DEF Next, Handlers, Strays
  <1>11. ~astray
    BY DEF Next
  <1>12. Plain => astray' = astray /\ expired' = expired
    BY DEF Plain
  <1> QED BY <1>10, <1>11, <1>12

(* It leaves the tables alone. *)
LEMMA StrayKeeps ==
    ASSUME Strays
    PROVE  /\ db' = db /\ scenario' = scenario /\ discarded \subseteq discarded' /\ unsent' = unsent
           /\ expired' = expired \/ \E m \in MailIds : expired' = expired \cup {m}
  <1>1. ASSUME NEW p \in Players, NEW to \in Players, NEW T \in SUBSET Items, NEW g \in scenario.sums, NEW cod \in Amounts,
               HandleSendMail(p, to, T, g, cod)
        PROVE  db' = db /\ scenario' = scenario /\ discarded' = discarded /\ unsent' = unsent /\ expired' = expired
    BY <1>1 DEF HandleSendMail, Commit, MailUnchanged
  <1>2. ASSUME NEW p \in Players, HandleGetMailList(p)
        PROVE  db' = db /\ scenario' = scenario /\ discarded' = discarded /\ unsent' = unsent /\ expired' = expired
    BY <1>2 DEF HandleGetMailList
  <1>3. ASSUME NEW p \in Players, NEW m \in MailIds, HandleMailTakeMoney(p, m)
        PROVE  db' = db /\ scenario' = scenario /\ discarded \subseteq discarded' /\ unsent' = unsent /\ expired' = expired
    BY <1>3 DEF HandleMailTakeMoney, Commit, MailUnchanged
  <1>4. ASSUME NEW p \in Players, NEW m \in MailIds, NEW i \in Items, HandleMailTakeItem(p, m, i)
        PROVE  db' = db /\ scenario' = scenario /\ discarded \subseteq discarded' /\ unsent' = unsent /\ expired' = expired
    BY <1>4 DEF HandleMailTakeItem, Commit, MailUnchanged
  <1>5. ASSUME NEW m \in MailIds, ReturnOrDeleteOldMails(m)
        PROVE  db' = db /\ scenario' = scenario /\ discarded \subseteq discarded' /\ unsent' = unsent
               /\ expired' = expired \cup {m}
    BY <1>5 DEF ReturnOrDeleteOldMails
  <1>6. ASSUME LoadAuctions
        PROVE  db' = db /\ scenario' = scenario /\ discarded' = discarded /\ unsent' = unsent /\ expired' = expired
    BY <1>6 DEF LoadAuctions
  <1> QED BY <1>1, <1>2, <1>3, <1>4, <1>5, <1>6 DEF Strays

(* Until then the books are in order. *)
Books == Inv /\ Restart /\ Balanced
Sound == expired \subseteq MailIds /\ (~astray => Books)

LEMMA StepBooks ==
    ASSUME Books, [Next]_vars, ~astray'
    PROVE  Books'
  <1>1. Inv'
    BY StepInv DEF Books
  <1>2. Booked
    BY StepBooked DEF Books
  <1> QED BY <1>1, <1>2 DEF Books, Booked

LEMMA InitSound == Init => Sound
  <1> SUFFICES ASSUME Init PROVE Sound
    OBVIOUS
  <1>1. queue = <<>> /\ up /\ expired = {}
    BY DEF Init
  <1>2. Len(queue) = 0
    BY <1>1
  <1>3. Balanced /\ Restart
    BY <1>1, <1>2 DEF Balanced, Restart
  <1> QED BY <1>1, <1>3, InitInv DEF Sound, Books

LEMMA StepSound == Sound /\ [Next]_vars => Sound'
  <1> SUFFICES ASSUME Sound, [Next]_vars PROVE Sound'
    OBVIOUS
  <1>1. CASE UNCHANGED vars
    <2>1. expired' = expired /\ astray' = astray
      BY <1>1 DEF vars
    <2> QED BY <2>1, StepBooks DEF Sound
  <1>2. CASE Next
    <2>1. expired' \subseteq MailIds
      BY <1>2, StrayIs, StrayKeeps DEF Sound
    <2>2. ~astray
      BY <1>2 DEF Next
    <2> QED BY <2>1, <2>2, StepBooks DEF Sound
  <1> QED BY <1>1, <1>2

LEMMA AlwaysSound == Spec => []Sound
  BY InitSound, StepSound, PTL DEF Spec

(* The tables are well-formed after every prefix of the queue and the memory *)
(* agrees with what the whole queue leaves (Inv), until a timer, a startup   *)
(* query or a mailbox reads ahead of the queue, an item is taken through     *)
(* another mail, or a purse passes the maximum.                              *)
THEOREM CustodyInvariant == Spec => [](~astray => Inv)
  <1>1. Sound => (~astray => Inv)
    BY DEF Sound, Books
  <1> QED BY <1>1, AlwaysSound, PTL

(* What the queued transactions will have written is what the players see:   *)
(* inventories, auctions, opened mails, and gold but for one deposit.  So a  *)
(* queue that is run to its end saves everything.                            *)
THEOREM QueueSavesMemory == Spec => []MemoryIsSaved
  <1>1. Sound => MemoryIsSaved
    <2> SUFFICES ASSUME Sound, ~astray PROVE MemoryIsSaved
      BY DEF MemoryIsSaved
    <2>1. Saved
      BY DEF Sound, Books, Inv
    <2> QED BY <2>1 DEF Saved, MemoryIsSaved, Contents
  <1> QED BY <1>1, AlwaysSound, PTL

(* In the database an item is in one place: an inventory, an auction or a    *)
(* mail, also when the process crashes right after a step that went astray.  *)
THEOREM ItemsInOnePlace == Spec => []OnePlace
  <1>1. Init => OnePlace
    BY InitInv, InvOnePlace
  <1>2. Sound /\ OnePlace /\ [Next]_vars => OnePlace'
    <2> SUFFICES ASSUME Sound, OnePlace, [Next]_vars PROVE OnePlace'
      OBVIOUS
    <2>1. ASSUME db' = db, scenario' = scenario, discarded \subseteq discarded', unsent' = unsent PROVE OnePlace'
      BY <2>1 DEF OnePlace, Places
    <2>2. CASE UNCHANGED vars
      BY <2>1, <2>2 DEF vars
    <2>3. CASE Next
      <3>1. CASE Strays
        BY <2>1, <3>1, StrayKeeps
      <3>2. CASE ~Strays
        <4>1. ~astray /\ ~astray'
          BY <2>3, <3>2, StrayIs DEF Next
        <4>2. Inv'
          BY <4>1, StepBooks DEF Sound, Books
        <4> QED BY <4>2, InvOnePlace, PTL
      <3> QED BY <3>1, <3>2
    <2> QED BY <2>2, <2>3
  <1> QED BY <1>1, <1>2, AlwaysSound, PTL DEF Spec

(* A trade that completes is whole: each side gets all that the other had in *)
(* the window and still has, goods and gold.                                 *)
THEOREM TradesAreWhole == Spec => TradeIsWhole
  <1> DEFINE W == \A p \in Players : AcceptCompletes(p) => Whole(p, Trader(p))
  <1>1. Sound /\ [Next]_vars => [W]_vars
    <2> SUFFICES ASSUME Sound, Next PROVE W
      OBVIOUS
    <2>1. Inv
      BY DEF Next, Sound, Books
    <2> QED BY <2>1, CompletesWhole
  <1>2. TradeIsWhole <=> [][W]_vars
    <2>1. W <=> \A p \in Players : AcceptCompletes(p) =>
                  LET q == Trader(p) IN
                  /\ \A i \in Offered(p) : m_items'[i] = q
                  /\ \A i \in Offered(q) : m_items'[i] = p
                  /\ money'[p] - money[p] = m_trade[q].money - m_trade[p].money
                  /\ money'[q] - money[q] = m_trade[p].money - m_trade[q].money
      BY DEF Whole
    <2> HIDE DEF W
    <2> QED BY <2>1, PTL DEF TradeIsWhole
  <1> HIDE DEF W
  <1> QED BY <1>1, <1>2, AlwaysSound, PTL DEF Spec

(* No transaction makes gold in the database, but a new auction's deposit,   *)
(* booked before it is taken, and the money in a mail that its sender did    *)
(* not pay: of a game master, or so much that with the postage it wraps.     *)
THEOREM GoldIsNotMade == Spec => GoldNotMade
  <1> DEFINE W == Fair(db, db')
  <1>1. Sound /\ [Next]_vars => [W]_db
    <2> SUFFICES ASSUME Sound, [Next]_vars PROVE db' = db \/ W
      OBVIOUS
    <2>1. CASE UNCHANGED vars
      BY <2>1 DEF vars
    <2>2. CASE Next
      <3>1. CASE Strays
        BY <3>1, StrayKeeps
      <3>2. CASE ~Strays
        <4>1. ~astray /\ ~astray'
          BY <2>2, <3>2, StrayIs DEF Next
        <4>2. Booked
          BY <4>1, StepBooked DEF Sound, Books
        <4> QED BY <4>2 DEF Booked
      <3> QED BY <3>1, <3>2
    <2> QED BY <2>1, <2>2
  <1>2. GoldNotMade <=> [][W]_db
    <2>1. W <=> Gold(db') <= Gold(db) + Deposit * Cardinality(NewAuctions(db, db'))
                                     + Uint32 * Cardinality(UnpaidMails(db, db'))
      BY DEF Fair, Unearned
    <2> HIDE DEF W
    <2> QED BY <2>1, PTL DEF GoldNotMade
  <1> HIDE DEF W
  <1> QED BY <1>1, <1>2, AlwaysSound, PTL DEF Spec

(* What a step that goes astray leaves has its type. *)
LEMMA StrayTypeOK ==
    ASSUME Inv, astray', expired' \subseteq MailIds,
           online' = online, m_trade' = m_trade, db' = db, scenario' = scenario, crashes' = crashes, unsent' = unsent,
           loaded' \subseteq online, m_items' \in [Items -> online \cup {None}], money' \in [Players -> Nat],
           auctions' \in [Items -> Auction \cup {None}], m_mail' \in [MailIds -> Mail \cup {None}],
           mailId' \in 0..MaxMails, Len(queue') <= MaxQueue, commits' \in 0..scenario.commits,
           up' \in BOOLEAN, discarded' \subseteq Items, astray' \in BOOLEAN
    PROVE  TypeOK'
  <1>1. db \in Tables
    BY DbGood DEF Inv, Good
  <1>2. online \subseteq Players /\ crashes \in 0..MaxCrashes /\ unsent \subseteq Items
    BY DEF Inv, Types
  <1>3. \A p \in Players : m_trade[p] # None => m_trade[p] \in TradeData
    BY DEF Inv, Trades, Paired
  <1>4. m_items' \in [Items -> Players \cup {None}]
    BY <1>2
  <1>5. \A i \in Items : auctions'[i] # None => auctions'[i] \in Auction
    OBVIOUS
  <1>6. \A m \in MailIds : m_mail'[m] # None => m_mail'[m] \in Mail
    OBVIOUS
  <1>7. db' \in Tables /\ \A p \in Players : m_trade'[p] # None => m_trade'[p] \in TradeData
    BY <1>1, <1>3
  <1>8. online' \subseteq Players /\ loaded' \subseteq online' /\ unsent' \subseteq Items /\ crashes' \in 0..MaxCrashes
    BY <1>2
  <1>9. commits' \in 0..scenario'.commits
    OBVIOUS
  <1> QED BY <1>4, <1>5, <1>6, <1>7, <1>8, <1>9 DEF TypeOK

LEMMA CommitTypes ==
    ASSUME Inv, NEW t, Commit(t)
    PROVE  Len(queue') <= MaxQueue /\ commits' \in 0..scenario.commits /\ scenario' = scenario
  <1>1. queue \in Seq(Entry) /\ commits \in 0..scenario.commits /\ scenario.commits \in Nat
    <2>1. scenario \in [players : SUBSET Players, masters : SUBSET Players, items : SUBSET Items,
                        sums : SUBSET (0..Uint32 - 1), commits : Nat,
                        uses : SUBSET {"trade", "auction", "mail"}]
      BY CustodyAssumption DEF Inv, Types
    <2> QED BY <2>1 DEF Inv, Types
  <1>2. Len(queue) < MaxQueue /\ commits < scenario.commits /\ commits' = commits + 1 /\ scenario' = scenario
        /\ queue' = Append(queue, [login |-> None, stmts |-> t])
    BY DEF Commit
  <1>3. Len(queue') = Len(queue) + 1 /\ Len(queue) \in Nat /\ MaxQueue \in Nat
    BY <1>1, <1>2, CustodyAssumption
  <1>4. Len(queue') <= MaxQueue
    BY <1>2, <1>3
  <1> QED BY <1>1, <1>2, <1>4

LEMMA PurseTypes ==
    ASSUME Inv, NEW p \in Players, NEW c \in Int, NEW purse, purse = [money EXCEPT ![p] = ModifyMoney(money[p], c)]
    PROVE  purse \in [Players -> Nat]
  <1>1. money \in [Players -> Nat]
    BY CustodyAssumption DEF Inv, Types
  <1>2. ModifyMoney(money[p], c) \in Nat
    BY <1>1 DEF ModifyMoney
  <1> QED BY <1>1, <1>2

LEMMA PostTypes ==
    ASSUME Inv, NEW drafts, Proper(drafts), NEW box \in [MailIds -> Mail \cup {None}], SendMails(drafts, box)
    PROVE  m_mail' \in [MailIds -> Mail \cup {None}] /\ mailId' \in 0..MaxMails
  <1> DEFINE N == NewMails(drafts)
  <1>1. mailId \in Nat /\ Len(drafts) \in Nat /\ MaxMails \in Nat
    BY CustodyAssumption DEF Inv, Types, Proper
  <1>2. mailId' \in 0..MaxMails /\ m_mail' = InMemory(drafts, box)
    BY <1>1 DEF SendMails
  <1>3. N \in SentMails
    BY SentDrafts
  <1>4. \A m \in DOMAIN N : N[m].row \in MailRow /\ N[m].items \in SUBSET Items
    BY <1>3 DEF SentMails, DraftMail
  <1> HIDE DEF N
  <1>5. \A m \in DOMAIN N : [row |-> N[m].row, items |-> N[m].items, deleted |-> FALSE] \in Mail
    BY <1>4 DEF Mail
  <1> QED BY <1>2, <1>5 DEF InMemory, N

LEMMA KeptTypes ==
    ASSUME NEW p, NEW box \in [MailIds -> Mail \cup {None}]
    PROVE  Kept(p, box) \in [MailIds -> Mail \cup {None}] /\ DeletedItems(p, box) \subseteq Items
  <1>1. Kept(p, box) \in [MailIds -> Mail \cup {None}]
    BY DEF Kept
  <1>2. \A m \in DeletedMails(p, box) : box[m] \in Mail
    BY DEF DeletedMails
  <1>3. \A m \in DeletedMails(p, box) : box[m].items \subseteq Items
    BY <1>2 DEF Mail
  <1> QED BY <1>1, <1>3 DEF DeletedItems

LEMMA SendMailTypes ==
    ASSUME Inv, astray', astray' \in BOOLEAN, expired' \subseteq MailIds, NEW p \in Players, NEW to \in Players, NEW T \in SUBSET Items,
           NEW m \in scenario.sums, NEW cod \in Amounts, HandleSendMail(p, to, T, m, cod)
    PROVE  TypeOK'
  <1> DEFINE x == Draft(p, to, T, m, cod, FALSE)
             drafts == <<x>>
  <1>1. /\ SendMails(drafts, m_mail) /\ MailUnchanged /\ discarded' = discarded
        /\ money' = [money EXCEPT ![p] = ModifyMoney(money[p], Charge(m))]
        /\ m_items' = [i \in Items |-> IF i \in T THEN None ELSE m_items[i]]
        /\ \E t : Commit(t)
    BY DEF HandleSendMail, Charge
  <1>2. Proper(drafts)
    <2>1. p \in Players \cup {None} /\ m \in Nat /\ cod \in Nat /\ FALSE \in BOOLEAN /\ p # None
      BY SumsType, CustodyAssumption
    <2>2. x \in DraftMail /\ x.items = T /\ x.row.sender = p
      BY <2>1 DEF Draft, DraftMail, MailRow
    <2> HIDE DEF x
    <2> QED BY <2>1, <2>2, ProperOne
  <1> HIDE DEF x, drafts
  <1>3. money' \in [Players -> Nat]
    BY <1>1, SumsType, PurseTypes
  <1>4. m_mail' \in [MailIds -> Mail \cup {None}] /\ mailId' \in 0..MaxMails
    BY <1>1, <1>2, OpenedMails, PostTypes
  <1>5. Len(queue') <= MaxQueue /\ commits' \in 0..scenario.commits /\ scenario' = scenario
    BY <1>1, CommitTypes
  <1>6. m_items' \in [Items -> online \cup {None}]
    BY <1>1 DEF Inv, Types
  <1>7. /\ online' = online /\ m_trade' = m_trade /\ db' = db /\ crashes' = crashes /\ unsent' = unsent
        /\ loaded' = loaded /\ auctions' = auctions /\ up' = up
    BY <1>1 DEF MailUnchanged
  <1>8. /\ loaded' \subseteq online /\ auctions' \in [Items -> Auction \cup {None}] /\ up' \in BOOLEAN
        /\ discarded' \subseteq Items
    BY <1>1, <1>7 DEF Inv, Types
  <1> QED BY <1>3, <1>4, <1>5, <1>6, <1>7, <1>8, StrayTypeOK

LEMMA TakeMoneyTypes ==
    ASSUME Inv, astray', astray' \in BOOLEAN, expired' \subseteq MailIds, NEW p \in Players, NEW m \in MailIds,
           HandleMailTakeMoney(p, m)
    PROVE  TypeOK'
  <1> DEFINE mail == [m_mail[m] EXCEPT !.row.money = 0]
             box == [m_mail EXCEPT ![m] = mail]
             change == AsInt32(m_mail[m].row.money)
  <1>1. /\ m_mail[m] # None /\ MailUnchanged /\ m_items' = m_items /\ mailId' = mailId
        /\ money' = [money EXCEPT ![p] = ModifyMoney(money[p], change)]
        /\ m_mail' = Kept(p, box) /\ discarded' = discarded \cup DeletedItems(p, box)
        /\ \E t : Commit(t)
    BY DEF HandleMailTakeMoney, Readable, MailOf
  <1>2. m_mail[m] \in Mail /\ m_mail \in [MailIds -> Mail \cup {None}]
    BY <1>1, OpenedMails
  <1>3. mail \in Mail
    BY <1>2, EmptiedType
  <1>4. change \in Int
    <2>1. m_mail[m].row.money \in Nat /\ Uint32 \in Nat
      BY <1>2, CustodyAssumption DEF Mail, MailRow
    <2> QED BY <2>1 DEF AsInt32
  <1> HIDE DEF mail, change
  <1>5. box \in [MailIds -> Mail \cup {None}]
    BY <1>2, <1>3
  <1> HIDE DEF box
  <1>6. money' \in [Players -> Nat]
    BY <1>1, <1>4, PurseTypes
  <1>7. m_mail' \in [MailIds -> Mail \cup {None}] /\ DeletedItems(p, box) \subseteq Items
    BY <1>1, <1>5, KeptTypes
  <1>8. Len(queue') <= MaxQueue /\ commits' \in 0..scenario.commits /\ scenario' = scenario
    BY <1>1, CommitTypes
  <1>9. /\ online' = online /\ m_trade' = m_trade /\ db' = db /\ crashes' = crashes /\ unsent' = unsent
        /\ loaded' = loaded /\ auctions' = auctions /\ up' = up
    BY <1>1 DEF MailUnchanged
  <1>10. /\ loaded' \subseteq online /\ auctions' \in [Items -> Auction \cup {None}] /\ up' \in BOOLEAN
         /\ discarded' \subseteq Items /\ m_items' \in [Items -> online \cup {None}] /\ mailId' \in 0..MaxMails
    BY <1>1, <1>7, <1>9 DEF Inv, Types
  <1> QED BY <1>6, <1>7, <1>8, <1>9, <1>10, StrayTypeOK

LEMMA TakeItemTypes ==
    ASSUME Inv, astray', astray' \in BOOLEAN, expired' \subseteq MailIds, NEW p \in Players, NEW m \in MailIds, NEW i \in Items,
           HandleMailTakeItem(p, m, i)
    PROVE  TypeOK'
  <1> DEFINE old == m_mail[m]
             mail == [old EXCEPT !.row.COD = 0, !.items = @ \ {i}]
             box == [m_mail EXCEPT ![m] = mail]
             drafts == Payment(p, old.row)
  <1>1. /\ m_mail[m] # None /\ p \in loaded /\ MailUnchanged
        /\ m_items' = [m_items EXCEPT ![i] = p]
        /\ money' = [money EXCEPT ![p] = ModifyMoney(money[p], -old.row.COD)]
        /\ SendMails(drafts, Kept(p, box)) /\ discarded' = discarded \cup DeletedItems(p, box)
        /\ \E t : Commit(t)
    BY DEF HandleMailTakeItem, Readable, MailOf, Payment
  <1>2. m_mail[m] \in Mail /\ m_mail \in [MailIds -> Mail \cup {None}] /\ p \in online
    BY <1>1, OpenedMails DEF Inv, Types
  <1>3. mail \in Mail
    <2>1. mail = TakenOut(old, i) /\ old \in Mail
      BY <1>2 DEF TakenOut
    <2> HIDE DEF mail, old
    <2> QED BY <2>1, TakenOutType
  <1>4. -old.row.COD \in Int /\ old.row \in MailRow
    BY <1>2 DEF Mail, MailRow
  <1>5. Proper(drafts)
    BY <1>1, <1>4, OpenedSender, PaymentProper
  <1> HIDE DEF mail, drafts
  <1>6. box \in [MailIds -> Mail \cup {None}]
    BY <1>2, <1>3
  <1> HIDE DEF box, old
  <1>7. money' \in [Players -> Nat]
    BY <1>1, <1>4, PurseTypes
  <1>8. Kept(p, box) \in [MailIds -> Mail \cup {None}] /\ DeletedItems(p, box) \subseteq Items
    BY <1>6, KeptTypes
  <1>9. m_mail' \in [MailIds -> Mail \cup {None}] /\ mailId' \in 0..MaxMails
    BY <1>1, <1>5, <1>8, PostTypes
  <1>10. Len(queue') <= MaxQueue /\ commits' \in 0..scenario.commits /\ scenario' = scenario
    BY <1>1, CommitTypes
  <1>11. /\ online' = online /\ m_trade' = m_trade /\ db' = db /\ crashes' = crashes /\ unsent' = unsent
         /\ loaded' = loaded /\ auctions' = auctions /\ up' = up
    BY <1>1 DEF MailUnchanged
  <1>12. /\ loaded' \subseteq online /\ auctions' \in [Items -> Auction \cup {None}] /\ up' \in BOOLEAN
         /\ discarded' \subseteq Items
    BY <1>1, <1>8, <1>11 DEF Inv, Types
  <1>13. m_items' \in [Items -> online \cup {None}]
    BY <1>1, <1>2 DEF Inv, Types
  <1> QED BY <1>7, <1>9, <1>10, <1>11, <1>12, <1>13, StrayTypeOK

LEMMA ReadsTypes ==
    ASSUME Inv, astray', astray' \in BOOLEAN, expired' \subseteq MailIds, LoadAuctions \/ \E p \in Players : HandleGetMailList(p)
    PROVE  TypeOK'
  <1>1. db \in Tables
    BY DbGood DEF Inv, Good
  <1>2. db.auctionhouse \in [Items -> Auction \cup {None}] /\ db.mail \in [MailIds -> MailRow \cup {None}]
    BY <1>1, TablesFields
  <1>3. Types /\ Len(queue) <= MaxQueue /\ commits \in 0..scenario.commits
    BY DEF Inv, Types
  <1>4. CASE LoadAuctions
    <2>1. auctions' \in [Items -> Auction \cup {None}] /\ up' = TRUE
      BY <1>2, <1>4 DEF LoadAuctions
    <2>2. UNCHANGED <<online, m_items, money, m_trade, m_mail, loaded, mailId, db, queue, scenario, commits, crashes, discarded, unsent>>
      BY <1>4 DEF LoadAuctions
    <2>3. money \in [Players -> Nat]
      BY <1>3, CustodyAssumption DEF Types
    <2>4. /\ loaded' \subseteq online /\ m_items' \in [Items -> online \cup {None}] /\ money' \in [Players -> Nat]
          /\ m_mail' \in [MailIds -> Mail \cup {None}] /\ mailId' \in 0..MaxMails /\ discarded' \subseteq Items
      BY <1>3, <2>2, <2>3 DEF Types
    <2> QED BY <1>3, <2>1, <2>2, <2>4, StrayTypeOK
  <1>5. ASSUME NEW p \in Players, HandleGetMailList(p) PROVE TypeOK'
    <2>1. /\ p \in online /\ loaded' = loaded \cup {p}
          /\ m_mail' = [m \in MailIds |->
                IF m \in Received(p) THEN [row |-> db.mail[m], items |-> Contents(db, m), deleted |-> FALSE]
                ELSE m_mail[m]]
          /\ UNCHANGED <<online, m_items, money, m_trade, auctions, mailId, db, queue, up, scenario, commits, crashes, discarded, unsent>>
      BY <1>5 DEF HandleGetMailList
    <2>2. \A m \in Received(p) : db.mail[m] \in MailRow /\ Contents(db, m) \subseteq Items
      BY <1>2 DEF Received, Contents, MailedIn
    <2>3. \A m \in Received(p) : [row |-> db.mail[m], items |-> Contents(db, m), deleted |-> FALSE] \in Mail
      BY <2>2 DEF Mail
    <2>4. m_mail' \in [MailIds -> Mail \cup {None}]
      BY <2>1, <2>3, OpenedMails
    <2>5. money \in [Players -> Nat]
      BY <1>3, CustodyAssumption DEF Types
    <2>6. /\ loaded' \subseteq online /\ m_items' \in [Items -> online \cup {None}] /\ money' \in [Players -> Nat]
          /\ auctions' \in [Items -> Auction \cup {None}] /\ mailId' \in 0..MaxMails /\ discarded' \subseteq Items
          /\ up' \in BOOLEAN
      BY <1>3, <2>1, <2>5 DEF Types
    <2> QED BY <1>3, <2>1, <2>4, <2>6, StrayTypeOK
  <1> QED BY <1>4, <1>5

LEMMA OldMailTypes ==
    ASSUME Inv, astray', astray' \in BOOLEAN, expired' \subseteq MailIds, NEW m \in MailIds, ReturnOrDeleteOldMails(m)
    PROVE  TypeOK'
  <1> DEFINE row == db.mail[m]
             items == Contents(db, m)
             returns == items # {} /\ row.sender # None /\ ~row.returned
             stmts == IF returns THEN <<ReturnStmt(m, row)>> ELSE DeleteStmts(m, items)
  <1>1. /\ row # None
        /\ Len(queue) + Len(stmts) <= MaxQueue /\ commits < scenario.commits
        /\ commits' = commits + 1 /\ scenario' = scenario
        /\ queue' = queue \o Alone(stmts)
        /\ discarded' = IF returns THEN discarded ELSE discarded \cup items
    BY DEF ReturnOrDeleteOldMails, ReturnStmt, DeleteStmts, Alone
  <1>2. UNCHANGED <<memory, db, up, crashes, unsent>>
    BY DEF ReturnOrDeleteOldMails
  <1>3. db.mail \in [MailIds -> MailRow \cup {None}] /\ items \in SUBSET Items
    BY DbGood, TablesFields DEF Inv, Good, Contents, MailedIn
  <1>4. row \in MailRow
    BY <1>1, <1>3
  <1>5. stmts \in Seq(Statement)
    <2>1. CASE returns
      <3>1. ReturnStmt(m, row) \in Statement
        BY <1>4, <2>1 DEF Statement, ReturnStmt, MailRow
      <3> HIDE DEF row
      <3> QED BY <2>1, <3>1
    <2>2. CASE ~returns
      <3>1. DeleteStmts(m, items) \in Seq(Statement)
        BY <1>3, DeleteStmtsIs
      <3> QED BY <2>2, <3>1
    <2> QED BY <2>1, <2>2
  <1> HIDE DEF stmts, items
  <1>6. Len(queue') <= MaxQueue
    <2>1. Alone(stmts) \in Seq(Entry) /\ Len(Alone(stmts)) = Len(stmts) /\ queue \in Seq(Entry)
      BY <1>5, AloneIs DEF Inv, Types
    <2> DEFINE r == Alone(stmts)
    <2>2. queue' = queue \o r
      BY <1>1
    <2> HIDE DEF r
    <2>3. Joined(queue', queue, r)
      BY <2>1, <2>2, ConcatJoined DEF r
    <2>4. Len(queue') = Len(queue) + Len(r)
      BY <2>3 DEF Joined
    <2> QED BY <1>1, <2>1, <2>4 DEF r
  <1>7. Types /\ scenario.commits \in Nat
    <2>1. scenario \in [players : SUBSET Players, masters : SUBSET Players, items : SUBSET Items,
                        sums : SUBSET (0..Uint32 - 1), commits : Nat,
                        uses : SUBSET {"trade", "auction", "mail"}]
      BY CustodyAssumption DEF Inv, Types
    <2> QED BY <2>1 DEF Inv
  <1>8. commits' \in 0..scenario.commits
    BY <1>1, <1>7 DEF Types
  <1>9. UNCHANGED <<online, m_items, money, m_trade, auctions, m_mail, loaded, mailId>>
    BY <1>2 DEF memory
  <1>10. money \in [Players -> Nat]
    BY <1>7, CustodyAssumption DEF Types
  <1>11. /\ loaded' \subseteq online /\ m_items' \in [Items -> online \cup {None}] /\ money' \in [Players -> Nat]
         /\ auctions' \in [Items -> Auction \cup {None}] /\ m_mail' \in [MailIds -> Mail \cup {None}]
         /\ mailId' \in 0..MaxMails /\ up' \in BOOLEAN
    BY <1>2, <1>7, <1>9, <1>10 DEF Types
  <1>12. discarded' \subseteq Items
    BY <1>1, <1>3, <1>7 DEF Types
  <1> QED BY <1>1, <1>2, <1>6, <1>8, <1>9, <1>11, <1>12, StrayTypeOK

LEMMA StrayBoolean ==
    ASSUME Strays
    PROVE  astray' \in BOOLEAN
  <1>1. ASSUME NEW p \in Players, NEW to \in Players, NEW T \in SUBSET Items, NEW g \in scenario.sums, NEW cod \in Amounts,
               HandleSendMail(p, to, T, g, cod)
        PROVE  astray' \in BOOLEAN
    BY <1>1 DEF HandleSendMail, PassesMaximum
  <1>2. ASSUME NEW p \in Players, HandleGetMailList(p) PROVE astray' \in BOOLEAN
    BY <1>2 DEF HandleGetMailList, Overtaken
  <1>3. ASSUME NEW p \in Players, NEW m \in MailIds, HandleMailTakeMoney(p, m) PROVE astray' \in BOOLEAN
    BY <1>3 DEF HandleMailTakeMoney, PassesMaximum
  <1>4. ASSUME NEW p \in Players, NEW m \in MailIds, NEW i \in Items, HandleMailTakeItem(p, m, i)
        PROVE  astray' \in BOOLEAN
    BY <1>4 DEF HandleMailTakeItem
  <1>5. ASSUME NEW m \in MailIds, ReturnOrDeleteOldMails(m) PROVE astray' \in BOOLEAN
    BY <1>5 DEF ReturnOrDeleteOldMails, Pending
  <1>6. ASSUME LoadAuctions PROVE astray' \in BOOLEAN
    BY <1>6 DEF LoadAuctions
  <1> QED BY <1>1, <1>2, <1>3, <1>4, <1>5, <1>6 DEF Strays

(* The types of the variables that record what time and the handlers do      *)
RecordTypes == expired \subseteq MailIds /\ astray \in BOOLEAN

LEMMA InvTypes == Inv /\ RecordTypes => TypeOK
  BY InvTypeOK DEF RecordTypes

LEMMA StepTypeOK ==
    ASSUME Sound, TypeOK, [Next]_vars
    PROVE  TypeOK'
  <1>1. CASE UNCHANGED vars
    BY <1>1 DEF vars, memory, TypeOK
  <1>2. CASE Next
    <2>1. Inv /\ Restart
      BY <1>2 DEF Sound, Books, Next
    <2>2. expired' \subseteq MailIds
      BY <1>2, StrayIs, StrayKeeps DEF Sound
    <2>3. astray' \in BOOLEAN
      BY <1>2, StrayIs, StrayBoolean
    <2>4. CASE astray'
      <3>1. Strays
        BY <1>2, <2>4, StrayIs
      <3> QED BY <2>1, <2>2, <2>3, <2>4, <3>1, SendMailTypes, TakeMoneyTypes, TakeItemTypes, ReadsTypes, OldMailTypes DEF Strays
    <2>5. CASE ~astray'
      <3>1. Inv'
        BY <1>2, <2>1, <2>5, StepInv
      <3>2. RecordTypes'
        BY <2>2, <2>3 DEF RecordTypes
      <3> QED BY <3>1, <3>2, InvTypes, PTL
    <2> QED BY <2>4, <2>5
  <1> QED BY <1>1, <1>2

(* Items, gold, windows, auctions, mails and rows keep their types, after a  *)
(* step that goes astray too; in particular no trade, bid, payment or mail   *)
(* takes a player's gold below zero, or to MAX_MONEY_AMOUNT but for the one  *)
(* int32 above it (Player::ModifyMoney).                                     *)
THEOREM CustodyTypes == Spec => []TypeOK
  <1>1. Init => TypeOK
    <2> SUFFICES ASSUME Init PROVE TypeOK
      OBVIOUS
    <2>1. Inv /\ expired = {} /\ astray = FALSE
      BY InitInv DEF Init
    <2> QED BY <2>1, InvTypeOK
  <1>2. Sound /\ TypeOK /\ [Next]_vars => TypeOK'
    BY StepTypeOK
  <1> QED BY <1>1, <1>2, AlwaysSound, PTL DEF Spec

=============================================================================
